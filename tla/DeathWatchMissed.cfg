CONSTANTS
  Procs = {p1, p2}
  None = None
  Ids = {i1, i2}
  DwMax = 2
  BatchMax = 1
  QueueMax = 1
  GenMax = 1
SPECIFICATION FairSpec
PROPERTIES WatchingIsTold
CHECK_DEADLOCK FALSE
