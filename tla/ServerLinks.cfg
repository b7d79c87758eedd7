SPECIFICATION Spec
CONSTANTS
  Workers = {w1, w2}
  Loop = Loop
  MaxFd = 4
  MaxServers = 1
  Pieces = 2
  Loads <- ThreeLoads
  MaxFailures = 1
INVARIANTS
  NobodyTakenForRouter
  EnabledMeansLinked
  DescriptorsOwned
  OverlapsCostOneEach
  NotificationsWhole
PROPERTIES
  RouterReturns
  StatusReturns
CHECK_DEADLOCK FALSE
