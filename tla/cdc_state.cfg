CONSTANTS
  r1 = r1  r2 = r2  h1 = h1  h2 = h2  h3 = h3  h4 = h4  h5 = h5  h6 = h6
  Records = {r1, r2}
  Hashes = {h1, h2, h3, h4, h5, h6}
  Feed <- ChangesAndRepeats
  MaxEvents = 5
SPECIFICATION Spec
CHECK_DEADLOCK FALSE
INVARIANTS AcceptedOnce DuplicateExplained LatestIsGreatest PositionsCover AnomalyExplained
