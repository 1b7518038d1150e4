CONSTANTS
  t1 = t1  t2 = t2  b1 = b1  b2 = b2  h1 = h1  p1 = p1
  shared = shared  own = own
  Jobs <- AllJobs
  Kind <- JobKind
  Path <- JobPath
  Wanted <- JobWanted
  Resets <- ResettingJobs
  Ids = {1, 2, 3}
  Hashes = {h1}
  Places = {p1}
  Tables = {t1, t2}
  NoRow = NoRow
  Batches = {b1, b2}
  Inputs <- SmallInputs
  MaxRuns <- JobRuns
  MaxFaults = 1
SPECIFICATION Spec
CHECK_DEADLOCK FALSE
INVARIANTS MalformedIsQuarantined
