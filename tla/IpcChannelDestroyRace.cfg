CONSTANTS
  Clients = {c1}
  Servers = {s1}
  None = None
  QueueMax = 1
  WakeBatch = 1
  Setups <- SendAndDestroy
  MaxCalls = 1
SPECIFICATION FairSpec
PROPERTIES SendReturns
CHECK_DEADLOCK FALSE
