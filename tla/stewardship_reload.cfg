CONSTANTS
  w1 = w1  w2 = w2  s1 = s1  s2 = s2  ra = ra  rb = rb  rc = rc  A = A  B = B  C = C
  linkAB = linkAB  linkCB = linkCB  conflictA = conflictA
  splitLink = splitLink  splitConflict = splitConflict  splitOther = splitOther
  job = job
  Job = job
  CaseOrder <- FileOrder
  Detections <- FileDetections
  MaxRuns = 2
  MaxCalls = 3
  NoId = NoId
  NoSigner = NoSigner
  Workers = {w1, w2}
  Signers = {s1}
  Cases = {linkAB}
  Records = {ra, rb, rc}
  Canonical = {A, B, C}
  Content <- CaseContent
  UnmergeId <- SplitIds
  Resolutions <- Batches
  Redetect = FALSE
  MaxFaults = 0
SPECIFICATION DeploymentSpec
CHECK_DEADLOCK FALSE
PROPERTIES ReassignmentsAudited
