CONSTANTS
  c1 = c1  c2 = c2  p1 = p1  p2 = p2  e1 = e1  e2 = e2  h1 = h1  h2 = h2
  Consumers = {c1, c2}
  Partitions = {p1, p2}
  EventIds = {e1, e2}
  Hashes = {h1, h2}
  Traffic <- AllForms
  BatchSize = 2
  MaxMessages = 0
  ResolveIdentity = TRUE
  MaxLog = 2
  MaxFaults = 1
SPECIFICATION Spec
SYMMETRY Symmetry
CHECK_DEADLOCK FALSE
INVARIANTS CommittedIsStored CommittedIsResolved
PROPERTIES CommitMonotone LandingSpec
