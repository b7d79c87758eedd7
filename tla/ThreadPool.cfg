SPECIFICATION Spec
CONSTANTS
  PoolSize = 2
  Tasks = {t1, t2, t3}
  NoTask = NoTask
INVARIANTS
  NoSleepOnWork
PROPERTIES
  TasksGetDone
  StopCompletes
  LanesSafety
  LanesFairness
CHECK_DEADLOCK FALSE
