CONSTANTS
  r1 = r1  r2 = r2  r3 = r3  t1 = t1  t2 = t2
  account = account  email = email  device = device  ref = ref
  NoId = NoId
  Records = {r1, r2, r3}
  Tenants = {t1, t2}
  Strong = {account, email}
  Weak = {device}
  Rank <- ByWeight
  Populations <- Everything
  Batches <- Together
SPECIFICATION Spec
SYMMETRY Symmetry
INVARIANTS MergeHasEvidence IdIsStrongest WeakEvidenceIsReviewed
PROPERTIES GraphSpec
