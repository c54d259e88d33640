CONSTANTS
  p1 = p1  p2 = p2  a1 = a1  a2 = a2  b1 = b1  g1 = g1  c1 = c1  c2 = c2
  Threads = {a1, a2, b1}
  Procs = {p1, p2}
  Groups = {g1}
  Bits = {1, 2}
  Cpus = {c1, c2}
  None = None
  Owner <- OwnerOf
  DrainCpu = c1
  BatchMax = 1
  MaxCalls = 2
  Setups <- Cases
SPECIFICATION FairSpec
INVARIANTS GroupInv NobodySleepsOnMatch DeadGroupsAreEmpty AnswerIsTrue
PROPERTIES WaitEnds
CHECK_DEADLOCK FALSE
