------------------------------ MODULE CaseLedger ------------------------------
(***************************************************************************)
(* What a reviewer is promised of a decision, whoever keeps the cases: it     *)
(* happens at once.  The case moves along its state machine, the mappings it  *)
(* is about move with it, and the audit row is there, or nothing is; what      *)
(* others do comes before it or after it (README.md: "transactional, audited").*)
(*                                                                         *)
(* One liberty is left to the implementation: a merge may miss mappings of the *)
(* candidate that a resolver run has stored meanwhile.  It moves one at least. *)
(***************************************************************************)
EXTENDS ReviewCases

CONSTANTS Cases, Records, NoId, Content, UnmergeId, Resolutions

VARIABLES queue, map, dim, merges, unmerges

ledger == <<queue, map, dim, merges, unmerges>>

Init ==
  /\ queue = [k \in Cases |-> Absent]
  /\ map = [r \in Records |-> NoId]
  /\ dim = {}
  /\ merges = [k \in Cases |-> NoSigner]
  /\ unmerges = [k \in Cases |-> NoSigner]

\* Detection finds a case, again or for the first time.
Found(k) ==
  /\ queue' = [queue EXCEPT ![k] = Open]
  /\ UNCHANGED <<map, dim, merges, unmerges>>

\* A resolver run.
Resolved(f) ==
  /\ map' = [r \in Records |-> IF r \in DOMAIN f THEN f[r] ELSE map[r]]
  /\ dim' = dim \cup {f[r] : r \in DOMAIN f}
  /\ UNCHANGED <<queue, merges, unmerges>>

OwnersOf(c) == {r \in Records : map[r] = c}
Moved(R, c) == [r \in Records |-> IF r \in R THEN c ELSE map[r]]
FirstSigner(audit, k, by) == [audit EXCEPT ![k] = IF @ = NoSigner THEN by ELSE @]

\* The candidate's mappings go to the customer of the case.
Merged(k, by) ==
  /\ Content[k].canonical \in dim
  /\ \E R \in (SUBSET OwnersOf(Content[k].candidate)) \ {{}} :
       map' = Moved(R, Content[k].canonical)
  /\ merges' = FirstSigner(merges, k, by)
  /\ UNCHANGED <<dim, unmerges>>

\* The record of the case becomes a customer of its own.
Split(k, by) ==
  /\ Content[k].record \in OwnersOf(Content[k].canonical)
  /\ map' = Moved({Content[k].record}, UnmergeId[k])
  /\ dim' = dim \cup (IF Content[k].canonical \in dim THEN {UnmergeId[k]} ELSE {})
  /\ UnmergeId[k] \in dim'
  /\ unmerges' = FirstSigner(unmerges, k, by)
  /\ UNCHANGED merges

\* A decision the state machine allows, with all it entails.
Decision(k, d, by) ==
  /\ Legal(queue[k], d)
  /\ queue' = [queue EXCEPT ![k] = Decided(queue[k], d, by)]
  /\ \/ d = "APPROVE_MERGE" /\ Merged(k, by)
     \/ d = "APPROVE_UNMERGE" /\ Split(k, by)
     \/ /\ d \notin {"APPROVE_MERGE", "APPROVE_UNMERGE"}
        /\ UNCHANGED <<map, dim, merges, unmerges>>

\* Steps that change nothing are the stuttering of Spec.
Next ==
  /\ ledger' # ledger
  /\ \/ \E k \in Cases : Found(k)
     \/ \E f \in Resolutions : Resolved(f)
     \/ \E k \in Cases, d \in Decisions, by \in Signers : Decision(k, d, by)

Spec == Init /\ [][Next]_ledger
=============================================================================
