SPECIFICATION Spec
CONSTANTS
  PoolSize = 2
  Tasks = {t1, t2, t3}
  NoTask = NoTask
INVARIANT RelockIsHarmless
CHECK_DEADLOCK FALSE
