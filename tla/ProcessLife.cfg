CONSTANTS
  p1 = p1  p2 = p2  p3 = p3  a1 = a1  a2 = a2  b1 = b1  d1 = d1  c1 = c1  c2 = c2
  Procs = {p1, p2, p3}
  Threads = {a1, a2, b1, d1}
  Cpus = {c1, c2}
  None = None
  Slot = Slot
  Owner <- OwnerOf
  Setups <- Cases
SPECIFICATION FairSpec
INVARIANTS EndInv FinalizedOnce TeardownAtHome ReapedOnce NoThreadOutlivesSpace PcbOutlivesItsUsers
PROPERTIES DestroyCompletes
CHECK_DEADLOCK FALSE
