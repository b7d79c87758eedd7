SPECIFICATION SafetySpec
CONSTANTS
  PoolSize = 2
  Requests = {r1, r2, r3}
  NoRequest = NoRequest
  PbConns = {c1, c2}
  HttpConns = {h1}
  NoConn = NoConn
  Fds = {f1, f2}
  NoFd = NoFd
SYMMETRY PathSymmetry
CONSTRAINT AtATime
INVARIANTS
  AnswersReachAsker
  PbAnswersWhole
  OrderPerWorker
  SenderTasksAlive
  HttpBodyFollowsHead
CHECK_DEADLOCK FALSE
