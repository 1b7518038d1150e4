CONSTANTS
  c1 = c1  c2 = c2  p1 = p1  p2 = p2  e1 = e1  e2 = e2  h1 = h1  h2 = h2
  Consumers = {c1}
  Partitions = {p1}
  EventIds = {e1, e2}
  Hashes = {h1, h2}
  Traffic <- SameHash
  BatchSize = 1
  MaxMessages = 0
  ResolveIdentity = FALSE
  MaxLog = 2
  MaxFaults = 0
SPECIFICATION Spec
CHECK_DEADLOCK FALSE
INVARIANTS DuplicatesFiltered
