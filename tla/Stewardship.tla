----------------------------- MODULE Stewardship -----------------------------
(***************************************************************************)
(* Identity stewardship on PostgreSQL: identity_resolution/repository.py    *)
(* (PostgresReviewCaseRepository, behind POST /identity/review/{id}/decision)*)
(* beside resolver.load_identity_to_postgres, which writes the same         *)
(* identity map from the streaming consumer.                                *)
(*                                                                         *)
(* A decision is one transaction of several statements: lock and update the *)
(* case, move the mappings, write the audit row, commit.  Statements of     *)
(* different transactions interleave as READ COMMITTED allows: a statement  *)
(* sees what is committed and waits for the row locks of others.  External: *)
(* PostgreSQL's row locks.  Left out: tenants (a case, its canonical ids    *)
(* and its mappings belong to one), and the golden columns of               *)
(* dim_customer_canonical.                                                  *)
(***************************************************************************)
EXTENDS ReviewCases, Naturals, FiniteSets

CONSTANTS
  Workers,      \* API workers, each handling one decision at a time
  Cases,        \* review_case_id values
  Records,      \* source records, the primary key of customer_identity_map
  Canonical,    \* canonical ids the resolver computes
  NoId,         \* a record without a mapping
  Content,      \* the fixed columns of a case: canonical, candidate, record
  UnmergeId,    \* the id _apply_unmerge derives from a case id
  Resolutions,  \* what resolver runs over a batch may map records to
  Redetect,     \* bound: whether detection writes a case that is stored
  MaxFaults     \* bound: transactions lost to the database or to a crash

CustomerIds == Canonical \cup {UnmergeId[k] : k \in Cases}

ASSUME StewardshipAssumption ==
  /\ Content \in [Cases -> [canonical : Canonical, candidate : Canonical, record : Records]]
  /\ \A k \in Cases : UnmergeId[k] \notin Canonical
  /\ \A j, k \in Cases : UnmergeId[j] = UnmergeId[k] => j = k
  /\ NoId \notin CustomerIds
  /\ NoSigner \notin Signers
  /\ \A f \in Resolutions : DOMAIN f \subseteq Records /\ \A r \in DOMAIN f : f[r] \in Canonical
  /\ Redetect \in BOOLEAN
  /\ MaxFaults \in Nat

VARIABLES
  queue,     \* table identity_review_queue
  map,       \* canonical_customer_id of each row of customer_identity_map
  dim,       \* ids in dim_customer_canonical
  merges,    \* identity_merge_audit: who signed the merge of a case
  unmerges,  \* identity_unmerge_audit, likewise
  tx,        \* the open transaction of each worker
  faults

vars == <<queue, map, dim, merges, unmerges, tx, faults>>

Transaction == [pc : {"decided", "applied"}, case : Cases, row : CaseRow,
                moved : SUBSET Records]
Idle == [pc |-> "idle"]

-----------------------------------------------------------------------------
CaseLocked(k) == \E w \in Workers : tx[w] # Idle /\ tx[w].case = k
RowsLocked(R) == \E w \in Workers : tx[w] # Idle /\ tx[w].moved \cap R # {}

Source(k, d) == IF d = "APPROVE_MERGE" THEN Content[k].candidate ELSE Content[k].canonical
Target(k, d) == IF d = "APPROVE_MERGE" THEN Content[k].canonical ELSE UnmergeId[k]

\* The mappings the update statement of _apply_merge or _apply_unmerge matches.
Matching(k, d) ==
  {r \in Records : map[r] = Source(k, d) /\ (d = "APPROVE_UNMERGE" => r = Content[k].record)}

\* _apply_unmerge copies the customer it splits before it moves the mapping.
CreatedIds(k, d) ==
  IF d = "APPROVE_UNMERGE" /\ Content[k].canonical \in dim THEN {UnmergeId[k]} ELSE {}

MovesMappings(d) == d \in {"APPROVE_MERGE", "APPROVE_UNMERGE"}

Init ==
  /\ queue = [k \in Cases |-> Absent]
  /\ map = [r \in Records |-> NoId]
  /\ dim = {}
  /\ merges = [k \in Cases |-> NoSigner]
  /\ unmerges = [k \in Cases |-> NoSigner]
  /\ tx = [w \in Workers |-> Idle]
  /\ faults = 0

\* create_case: an upsert that overwrites every column but the key.
CreateCase(k) ==
  /\ ~CaseLocked(k)
  /\ Stored(queue[k]) => Redetect
  /\ queue' = [queue EXCEPT ![k] = Open]
  /\ UNCHANGED <<map, dim, merges, unmerges, tx, faults>>

\* load_identity_to_postgres, one transaction.  Its rows overwrite those of the
\* map, whoever wrote them.
LoadIdentity(f) ==
  /\ ~RowsLocked(DOMAIN f)
  /\ map' = [r \in Records |-> IF r \in DOMAIN f THEN f[r] ELSE map[r]]
  /\ dim' = dim \cup {f[r] : r \in DOMAIN f}
  /\ UNCHANGED <<queue, merges, unmerges, tx, faults>>

\* decide up to its update of the queue: "select ... for update", the checks
\* that return or raise without a change, and the new row, not yet committed.
CaseAvailable_NoForUpdate(k) == Stored(queue[k])   \* mutant: the select takes no lock
CaseAvailable(k) == Stored(queue[k]) /\ ~CaseLocked(k)
Decide(w, k, d, by) ==
  /\ tx[w] = Idle
  /\ CaseAvailable(k)
  /\ ~Repeats(queue[k], d, by)
  /\ Legal(queue[k], d)
  /\ tx' = [tx EXCEPT ![w] = [pc |-> "decided", case |-> k,
                              row |-> Decided(queue[k], d, by), moved |-> {}]]
  /\ UNCHANGED <<queue, map, dim, merges, unmerges, faults>>

\* The update of the map moves at least one mapping, and its foreign key finds
\* the target customer.
Applicable_NoRowcount(k, d) == Target(k, d) \in dim \cup CreatedIds(k, d)   \* mutant
Applicable(k, d) ==
  /\ Matching(k, d) # {}
  /\ Target(k, d) \in dim \cup CreatedIds(k, d)

Apply(w) ==
  /\ tx[w].pc = "decided"
  /\ MovesMappings(tx[w].row.decision)
  /\ ~RowsLocked(Matching(tx[w].case, tx[w].row.decision))
  /\ Applicable(tx[w].case, tx[w].row.decision)
  /\ tx' = [tx EXCEPT ![w].pc = "applied",
                      ![w].moved = Matching(tx[w].case, tx[w].row.decision)]
  /\ UNCHANGED <<queue, map, dim, merges, unmerges, faults>>

\* What a rollback undoes: everything, the update of the queue included.
QueueAfterRollback_AutoCommit(w) ==   \* mutant: the queue is updated on its own
  [queue EXCEPT ![tx[w].case] = tx[w].row]
QueueAfterRollback(w) == queue

\* ValueError or a foreign key violation: the transaction rolls back.
Refuse(w) ==
  /\ tx[w].pc = "decided"
  /\ MovesMappings(tx[w].row.decision)
  /\ ~RowsLocked(Matching(tx[w].case, tx[w].row.decision))
  /\ ~Applicable(tx[w].case, tx[w].row.decision)
  /\ queue' = QueueAfterRollback(w)
  /\ tx' = [tx EXCEPT ![w] = Idle]
  /\ UNCHANGED <<map, dim, merges, unmerges, faults>>

\* "on conflict (merge_audit_id) do nothing": the id derives from the case, so
\* the first signer stays.
Signed(audit, k, by) == [audit EXCEPT ![k] = IF @ = NoSigner THEN by ELSE @]
SignedFor_Nothing(audit, d, own, k, by) == audit   \* mutant: no audit row
SignedFor(audit, d, own, k, by) == IF d = own THEN Signed(audit, k, by) ELSE audit

Commit(w) ==
  /\ tx[w] # Idle
  /\ MovesMappings(tx[w].row.decision) => tx[w].pc = "applied"
  /\ LET k == tx[w].case
         d == tx[w].row.decision
         by == tx[w].row.by
     IN /\ queue' = [queue EXCEPT ![k] = tx[w].row]
        /\ map' = [r \in Records |-> IF r \in tx[w].moved THEN Target(k, d) ELSE map[r]]
        /\ dim' = dim \cup CreatedIds(k, d)
        /\ merges' = SignedFor(merges, d, "APPROVE_MERGE", k, by)
        /\ unmerges' = SignedFor(unmerges, d, "APPROVE_UNMERGE", k, by)
  /\ tx' = [tx EXCEPT ![w] = Idle]
  /\ UNCHANGED faults

\* The connection or the worker is lost before the commit.
Abort(w) ==
  /\ tx[w] # Idle
  /\ faults < MaxFaults
  /\ tx' = [tx EXCEPT ![w] = Idle]
  /\ faults' = faults + 1
  /\ UNCHANGED <<queue, map, dim, merges, unmerges>>

Next ==
  \/ \E k \in Cases : CreateCase(k)
  \/ \E f \in Resolutions : LoadIdentity(f)
  \/ \E w \in Workers :
       \/ \E k \in Cases, d \in Decisions, by \in Signers : Decide(w, k, d, by)
       \/ Apply(w) \/ Refuse(w) \/ Commit(w) \/ Abort(w)

Spec == Init /\ [][Next]_vars
-----------------------------------------------------------------------------
(* Properties *)

\* Types; and what an open transaction has locked is as it found it: its case is
\* stored and the mappings it moves still point at their source.
TypeOK ==
  /\ queue \in [Cases -> CaseRow]
  /\ map \in [Records -> CustomerIds \cup {NoId}]
  /\ dim \subseteq CustomerIds
  /\ merges \in [Cases -> Signers \cup {NoSigner}]
  /\ unmerges \in [Cases -> Signers \cup {NoSigner}]
  /\ tx \in [Workers -> Transaction \cup {Idle}]
  /\ \A w \in Workers : tx[w] # Idle =>
       /\ Stored(queue[tx[w].case])
       /\ \A r \in tx[w].moved : map[r] = Source(tx[w].case, tx[w].row.decision)
  /\ faults \in 0..MaxFaults

\* Two reviewers who decide one case at once cannot take it along a transition
\* the state machine does not have (the row lock of decide, repository.py:218-229).
StatusFollowsMachine ==
  [][\A k \in Cases : FollowsMachine(queue[k], queue'[k])]_queue

\* A case that reads as an approved merge or unmerge has its audit row, whatever
\* was refused, lost or rolled back on the way (repository.py:230-245).
ApprovalIsAudited ==
  \A k \in Cases : queue[k].status = "APPROVED" =>
    \/ queue[k].decision = "APPROVE_MERGE" /\ merges[k] # NoSigner
    \/ queue[k].decision = "APPROVE_UNMERGE" /\ unmerges[k] # NoSigner

\* An approval moves a mapping when it commits: two cases with one candidate
\* cannot both claim to have merged it (the row counts of repository.py:261, 315).
\* Cases about conflicting fields name one customer twice and move nothing.
ApprovalTakesEffect ==
  [][\A k \in Cases :
       LET d == queue'[k].decision
       IN /\ queue'[k].status = "APPROVED" /\ queue[k].status # "APPROVED"
          /\ Source(k, d) # Target(k, d)
          => \E r \in Records : map[r] = Source(k, d) /\ map'[r] = Target(k, d)]_vars

\* Every mapping can be explained: the resolver computes it for that record, or
\* an audit row names it as the outcome of a merge or an unmerge.
ResolverIds(r) == {f[r] : f \in {g \in Resolutions : r \in DOMAIN g}}
MappingExplained ==
  \A r \in Records : map[r] # NoId =>
    \/ map[r] \in ResolverIds(r)
    \/ \E k \in Cases : merges[k] # NoSigner /\ map[r] = Content[k].canonical
    \/ \E k \in Cases : unmerges[k] # NoSigner /\ map[r] = UnmergeId[k] /\ r = Content[k].record

\* No mapping points at a customer that dim_customer_canonical does not hold,
\* the moves of open transactions included: what Apply checked stays true until
\* its commit.
NoDanglingCustomer ==
  /\ \A r \in Records : map[r] # NoId => map[r] \in dim
  /\ \A w \in Workers : tx[w] # Idle /\ tx[w].moved # {} =>
       Target(tx[w].case, tx[w].row.decision) \in
         dim \cup CreatedIds(tx[w].case, tx[w].row.decision)

\* The statements of a decision, between those of others, amount to one step of
\* the ledger: no reviewer, and no resolver run, ever sees or undoes half of one,
\* and a case follows its state machine however decisions race
\* (repository.py:216-246).
Ledger == INSTANCE CaseLedger
LedgerSpec == Ledger!Spec

\* The strengthening of these invariants that steps preserve.  The row an open
\* transaction will commit is a legal next row of its case; once applied, it
\* holds mappings that its decision moves; and what it has locked, no other has.
DecisionPending ==
  \A w \in Workers : tx[w] # Idle =>
    /\ tx[w].row.decision \in Decisions /\ tx[w].row.by \in Signers
    /\ tx[w].row = Decided(queue[tx[w].case], tx[w].row.decision, tx[w].row.by)
    /\ Legal(queue[tx[w].case], tx[w].row.decision)
MovesHeld ==
  \A w \in Workers : tx[w] # Idle =>
    /\ tx[w].pc = "decided" => tx[w].moved = {}
    /\ tx[w].pc = "applied" => tx[w].moved # {} /\ MovesMappings(tx[w].row.decision)
    /\ \A r \in tx[w].moved :
         tx[w].row.decision = "APPROVE_UNMERGE" => r = Content[tx[w].case].record
LocksExclusive ==
  \A v, w \in Workers : v # w /\ tx[v] # Idle /\ tx[w] # Idle =>
    tx[v].case # tx[w].case /\ tx[v].moved \cap tx[w].moved = {}

IndInv ==
  /\ TypeOK /\ DecisionPending /\ MovesHeld /\ LocksExclusive
  /\ ApprovalIsAudited /\ MappingExplained /\ NoDanglingCustomer

\* warehouse/sql/02_identity_tables.sql:191-193: "canonical_customer_id
\* reassignments in identity.customer_identity_map should always have a
\* corresponding audit row."
Audited(r, from, to) ==
  \E k \in Cases :
    \/ merges'[k] # NoSigner /\ from = Content[k].candidate /\ to = Content[k].canonical
    \/ /\ unmerges'[k] # NoSigner /\ r = Content[k].record
       /\ from = Content[k].canonical /\ to = UnmergeId[k]
ReassignmentsAudited ==
  [][\A r \in Records : map[r] # NoId /\ map'[r] # map[r] => Audited(r, map[r], map'[r])]_map
=============================================================================
