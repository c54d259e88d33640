CONSTANTS
  t1 = t1  t2 = t2  t3 = t3  c1 = c1  c2 = c2
  video = video  fs = fs
  server = server  other = other  client = client  module = module
  Threads = {t1, t2, t3}
  Procs = {1, 2, 3}
  Names = {video, fs}
  Roles = {server, other, client, module}
  Cpus = {c1, c2}
  None = None
  Owner <- OwnerOf
  Need <- NeedOf
  Bsp = c1
  TableMax = 1
  WaitBatch = 1
  ParkBatch = 1
  PrimaryMax = 1
  MaxCalls = 2
  Setups <- Cases
SPECIFICATION FairSpec
INVARIANTS ServiceInv NobodyWaitsForTheRegistered OneOfARole
PROPERTIES WaitReturns ParkedStarts CachedComesBack
CHECK_DEADLOCK FALSE
