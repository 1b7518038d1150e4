CONSTANTS
  c1 = c1  c2 = c2  p1 = p1  p2 = p2  e1 = e1  e2 = e2  h1 = h1  h2 = h2
  Consumers = {c1, c2}
  Partitions = {p1}
  EventIds = {e1, e2}
  Hashes = {h1, h2}
  Traffic <- AllForms
  BatchSize = 2
  MaxMessages = 4
  ResolveIdentity = FALSE
  MaxLog = 4
  MaxFaults = 1
SPECIFICATION FairSpec
CHECK_DEADLOCK FALSE
PROPERTIES BacklogDrains
