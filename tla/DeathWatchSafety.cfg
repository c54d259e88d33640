CONSTANTS
  Procs = {p1, p2}
  None = None
  Ids = {i1, i2}
  DwMax = 2
  BatchMax = 1
  QueueMax = 1
  GenMax = 2
SPECIFICATION Spec
SYMMETRY Symmetry
INVARIANTS WatchInv NoticesSpeakOfTheDead
PROPERTIES DueArePosted
CHECK_DEADLOCK FALSE
