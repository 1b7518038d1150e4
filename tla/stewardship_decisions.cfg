CONSTANTS
  w1 = w1  w2 = w2  s1 = s1  s2 = s2  ra = ra  rb = rb  rc = rc  A = A  B = B  C = C
  linkAB = linkAB  linkCB = linkCB  conflictA = conflictA
  splitLink = splitLink  splitConflict = splitConflict  splitOther = splitOther
  job = job
  Job = job
  CaseOrder <- FileOrder
  Detections <- FileDetections
  MaxRuns = 2
  MaxCalls = 3
  NoId = NoId
  NoSigner = NoSigner
  Workers = {w1, w2}
  Signers = {s1}
  Cases = {linkAB, linkCB, conflictA}
  Records = {ra, rb, rc}
  Canonical = {A, B, C}
  Content <- CaseContent
  UnmergeId <- SplitIds
  Resolutions <- Batches
  Redetect = TRUE
  MaxFaults = 1
SPECIFICATION DeploymentSpec
SYMMETRY Symmetry
CHECK_DEADLOCK FALSE
INVARIANTS ApprovalIsAudited MappingExplained DecisionStands
PROPERTIES LedgerSpec ApprovalTakesEffect
