----------------------------- MODULE MCStewardship -----------------------------
(***************************************************************************)
(* Instances of ReviewRepositories for TLC: customers A, B and C found from *)
(* records ra, rb and rc; two weak links that name B as their candidate, and *)
(* a field conflict inside A.                                               *)
(***************************************************************************)
EXTENDS ReviewRepositories, TLC, Sequences

CONSTANTS job, w1, w2, s1, s2, ra, rb, rc, A, B, C, linkAB, linkCB, conflictA, splitLink, splitConflict, splitOther

WeakLink(left, right, r) == [canonical |-> left, candidate |-> right, record |-> r]

CaseContent ==
  [k \in Cases |-> CASE k = linkAB -> WeakLink(A, B, rb)
                     [] k = linkCB -> WeakLink(C, B, rb)
                     [] k = conflictA -> WeakLink(A, A, ra)]
SplitIds ==
  [k \in Cases |-> CASE k = linkAB -> splitLink
                     [] k = linkCB -> splitOther
                     [] k = conflictA -> splitConflict]

\* Two batches of records; the second resolves record rb again.
Batches == {(ra :> A) @@ (rb :> B), (rb :> B) @@ (rc :> C)}

Symmetry == Permutations(Workers) \cup Permutations(Signers)

\* In the file, one weak link and the conflict; a run may find the link gone.
FileOrder == <<linkAB, conflictA>>
FileDetections == {[links |-> {linkAB}, conflicts |-> {conflictA}],
                   [links |-> {}, conflicts |-> {conflictA}]}
=============================================================================
