CONSTANTS
  k1 = k1  k2 = k2
  Keys = {k1, k2}
  MaxChanges = 3
  MaxRestarts = 1
  Instants = {0, 1}
  BatchSize = 2
SPECIFICATION CaptureSpec
CHECK_DEADLOCK FALSE
INVARIANTS LatestIsSource
