SPECIFICATION Spec
CONSTANTS
  PoolSize = 2
  Requests = {r1, r2}
  NoRequest = NoRequest
  PbConns = {c1, c2}
  HttpConns = {}
  NoConn = NoConn
  Fds = {f1}
  NoFd = NoFd
PROPERTY RequestsEnd
CHECK_DEADLOCK FALSE
