----------------------------- MODULE ReviewCases -----------------------------
(***************************************************************************)
(* The review-case state machine of identity_resolution/config.py and       *)
(* stewardship.apply_decision, shared by the two repositories that store    *)
(* cases.  A signer stands for a (reviewer, reason) pair: the two are only  *)
(* ever compared and stored together.                                       *)
(***************************************************************************)

CONSTANTS Signers, NoSigner

Statuses == {"OPEN", "IN_REVIEW", "APPROVED", "REJECTED", "RESOLVED"}
Decisions == {"APPROVE_MERGE", "REJECT_MERGE", "NEEDS_REVIEW", "APPROVE_UNMERGE",
              "IGNORE_FALSE_POSITIVE"}

\* VALID_STATUS_TRANSITIONS and DECISION_TO_STATUS.
NextStatuses == [
  OPEN      |-> {"IN_REVIEW", "REJECTED", "RESOLVED"},
  IN_REVIEW |-> {"APPROVED", "REJECTED"},
  APPROVED  |-> {"RESOLVED"},
  REJECTED  |-> {"RESOLVED"},
  RESOLVED  |-> {}]
DecisionStatus == [
  APPROVE_MERGE         |-> "APPROVED",
  APPROVE_UNMERGE       |-> "APPROVED",
  REJECT_MERGE          |-> "REJECTED",
  NEEDS_REVIEW          |-> "IN_REVIEW",
  IGNORE_FALSE_POSITIVE |-> "RESOLVED"]

\* The mutable columns of a case; "absent" stands for a case not stored.
CaseRow == [status : Statuses \cup {"absent"}, decision : Decisions \cup {"none"},
            by : Signers \cup {NoSigner}]
Absent == [status |-> "absent", decision |-> "none", by |-> NoSigner]
Open == [status |-> "OPEN", decision |-> "none", by |-> NoSigner]

Stored(row) == row.status # "absent"

\* The same decision again: decide returns the case as it stands.
Repeats(row, d, by) == row.decision = d /\ row.by = by

\* apply_decision: what it refuses, and the row it returns.
Legal(row, d) == Stored(row) /\ DecisionStatus[d] \in NextStatuses[row.status]
Decided(row, d, by) == [status |-> DecisionStatus[d], decision |-> d, by |-> by]

\* How a stored case may change in one step: along the state machine, or back
\* to OPEN when detection writes the case again.
FollowsMachine(old, new) ==
  \/ new = old
  \/ new = Open
  \/ Stored(old) /\ new.status \in NextStatuses[old.status]
=============================================================================
