CONSTANTS
  Clients = {c1, c2}
  Servers = {s1, s2}
  None = None
  QueueMax = 2
  WakeBatch = 1
  Setups <- SafetyMix
  MaxCalls = 2
SPECIFICATION Spec
SYMMETRY Symmetry
INVARIANTS ChannelInv NobodySleepsOnWork AnswerIsMine
CHECK_DEADLOCK FALSE
