CONSTANTS
  ra = ra  rb = rb  A = A  B = B  C = C
  Records = {ra, rb}
  Customers = {A, B, C}
  Resolutions <- Alternating
  Reachable = {A, B, C}
  Class <- MixedClass
  MaxRetries = 3
  MaxTime = 2
  MaxFaults = 1
SPECIFICATION FairSpec
INVARIANTS SkipIsSound SentOncePerCrash SyncIsComplete
PROPERTIES DeletionTakesEffect
