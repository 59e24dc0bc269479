SPECIFICATION FairSpec
CONSTANTS
  Workers = {w1, w2}
  Calls = {c1, c2}
  Followed = {w1}
  PoolSize = 1
INVARIANTS
  PoolAccounted
  OnlyTasksRefused
PROPERTIES
  StopEnds
CHECK_DEADLOCK FALSE
