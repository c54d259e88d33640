CONSTANTS
  Threads = {t1, t2}
  Structs = {s1, s2, s3}
  NoPort = NoPort
  MaxPorts = 3
  RecycleMax = 1
  Saturated = 3
  QueueMax = 1
  GenMax = 2
SPECIFICATION FairSpec
INVARIANTS HeldPortIsTheOneGot IdFreeOnlyOnce TeardownIsExclusive RefcountIsExact PortInv
PROPERTIES ReusedOnlyWhenStill ImplementsIncarnations DestroyedIdComesBack
