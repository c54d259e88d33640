CONSTANTS
  t1 = t1  t2 = t2  k1 = k1  k2 = k2
  Waiters = {t1, t2}
  Wakers = {k1, k2}
  Queues = {q1, q2}
  None = None
  Cpus = {0, 1, 2}
  DrainCpu = 0
  Setups <- Cases
SPECIFICATION FairSpec
INVARIANTS QueueInv NoLostWakeup
PROPERTIES ItemEndsWait TimeoutEndsWait
CHECK_DEADLOCK FALSE
