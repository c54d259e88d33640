CONSTANTS
  Clients = {c1, c2}
  Servers = {s1, s2}
  None = None
  QueueMax = 1
  WakeBatch = 1
  Setups <- LiveMix
  MaxCalls = 1
SPECIFICATION FairSpec
PROPERTIES ListedSendReturns ServersLeave NotifyArrives OthersGiveBack
CHECK_DEADLOCK FALSE
