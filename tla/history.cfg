CONSTANTS
  r1 = r1  r2 = r2  A = A  B = B
  Records = {r1, r2}
  Entities = {A, B}
  States <- Consents
  NoId = NoId
  Feed <- SmallFeed
  MaxEvents = 3
SPECIFICATION Spec
INVARIANTS AnswersAreExact ConsentAgrees
PROPERTIES PastStands
