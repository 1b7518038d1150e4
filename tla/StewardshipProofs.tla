--------------------------- MODULE StewardshipProofs ---------------------------
(***************************************************************************)
(* Proofs about the two repositories of review cases: the PostgreSQL tables *)
(* of Stewardship, for every number of workers, cases, records and          *)
(* customers, with detection repeated or not; and the CSV file of           *)
(* ReviewFile, for every number of writers and every order of its rows.     *)
(***************************************************************************)
EXTENDS ReviewRepositories, Sequences, TLAPS

\* A transaction that is open is a record of a decision (repository.py:217).
LEMMA OpenTransaction ==
  /\ Idle \notin Transaction
  /\ TypeOK => \A w \in Workers : tx[w] # Idle => tx[w] \in Transaction
<1>1. \A t \in Transaction : t.pc # Idle.pc
  BY DEF Transaction, Idle
<1>2. Idle \notin Transaction
  BY <1>1
<1> QED
  BY <1>2 DEF TypeOK

\* The row that a decision writes has the columns of a case, with the status
\* that DECISION_TO_STATUS gives (stewardship.py:326-337).
LEMMA DecidedRow ==
  ASSUME NEW d \in Decisions, NEW by \in Signers, NEW row \in CaseRow
  PROVE  /\ Decided(row, d, by) \in CaseRow
         /\ DecisionStatus[d] \in Statuses
         /\ Decided(row, d, by).decision = d
         /\ Decided(row, d, by).by = by
         /\ Decided(row, d, by).status = DecisionStatus[d]
<1>1. DecisionStatus[d] \in Statuses
  BY DEF DecisionStatus, Decisions, Statuses
<1> QED
  BY <1>1 DEF Decided, CaseRow

\* Only the two decisions that move mappings approve a case (config.py:44-51).
LEMMA ApprovalsMove ==
  ASSUME NEW d \in Decisions, DecisionStatus[d] = "APPROVED"
  PROVE  d \in {"APPROVE_MERGE", "APPROVE_UNMERGE"}
BY DEF DecisionStatus, Decisions

\* The ids that a decision moves mappings to are customer ids.
LEMMA TargetTyped ==
  ASSUME NEW k \in Cases, NEW d \in Decisions
  PROVE  /\ Target(k, d) \in CustomerIds
         /\ CreatedIds(k, d) \subseteq CustomerIds
         /\ Content[k].canonical \in CustomerIds
BY StewardshipAssumption DEF Target, CreatedIds, CustomerIds

\* What a worker holds open in its transaction, spelled out.
LEMMA OpenFields ==
  ASSUME TypeOK, NEW w \in Workers, tx[w] # Idle
  PROVE  /\ tx[w].pc \in {"decided", "applied"}
         /\ tx[w].case \in Cases
         /\ tx[w].row \in CaseRow
         /\ tx[w].moved \subseteq Records
BY OpenTransaction DEF Transaction

\* Type correctness is preserved, and with it what open transactions found.
LEMMA TypeStep ==
  ASSUME IndInv, [Next]_vars
  PROVE  TypeOK'
<1> USE DEF IndInv
<1>1. ASSUME NEW k \in Cases, CreateCase(k)
      PROVE  TypeOK'
  <2>1. queue' \in [Cases -> CaseRow]
    BY <1>1 DEF TypeOK, CreateCase, Open, CaseRow, Statuses
  <2>2. \A w \in Workers : tx[w] # Idle => Stored(queue'[tx[w].case])
    BY <1>1, OpenFields DEF TypeOK, CreateCase, CaseLocked
  <2> QED
    BY <1>1, <2>1, <2>2 DEF TypeOK, CreateCase
<1>2. ASSUME NEW f \in Resolutions, LoadIdentity(f)
      PROVE  TypeOK'
  <2>1. /\ DOMAIN f \subseteq Records
        /\ \A r \in DOMAIN f : f[r] \in CustomerIds
    BY StewardshipAssumption DEF CustomerIds
  <2>2. map' \in [Records -> CustomerIds \cup {NoId}] /\ dim' \subseteq CustomerIds
    BY <1>2, <2>1 DEF TypeOK, LoadIdentity
  <2>3. \A w \in Workers : tx[w] # Idle => \A r \in tx[w].moved : r \in Records /\ map'[r] = map[r]
    BY <1>2, OpenFields DEF LoadIdentity, RowsLocked
  <2> QED
    BY <1>2, <2>2, <2>3 DEF TypeOK, LoadIdentity
<1>3. ASSUME NEW w \in Workers, NEW k \in Cases, NEW d \in Decisions, NEW by \in Signers,
             Decide(w, k, d, by)
      PROVE  TypeOK'
  <2> DEFINE t == [pc |-> "decided", case |-> k, row |-> Decided(queue[k], d, by), moved |-> {}]
  <2>1. t \in Transaction
    BY DecidedRow DEF TypeOK, Transaction
  <2>2. tx' = [tx EXCEPT ![w] = t]
    BY <1>3 DEF Decide
  <2>3. tx' \in [Workers -> Transaction \cup {Idle}]
    BY <2>1, <2>2 DEF TypeOK
  <2>4. Stored(queue[k])
    BY <1>3 DEF Decide, CaseAvailable
  <2>5. ASSUME NEW v \in Workers, tx'[v] # Idle
        PROVE  /\ Stored(queue[tx'[v].case])
               /\ \A r \in tx'[v].moved : map[r] = Source(tx'[v].case, tx'[v].row.decision)
    BY <2>2, <2>4, <2>5 DEF TypeOK
  <2> QED
    BY <1>3, <2>3, <2>5 DEF TypeOK, Decide
<1>4. ASSUME NEW w \in Workers, Apply(w)
      PROVE  TypeOK'
  <2> DEFINE R == Matching(tx[w].case, tx[w].row.decision)
             t == [tx[w] EXCEPT !.pc = "applied", !.moved = R]
  <2>1. tx[w] # Idle
    BY <1>4 DEF Apply, Idle
  <2>2. tx[w] \in Transaction
    BY <2>1, OpenTransaction DEF TypeOK
  <2>3. R \subseteq Records /\ \A r \in R : map[r] = Source(tx[w].case, tx[w].row.decision)
    BY DEF Matching
  <2>4. /\ t \in Transaction
        /\ t.case = tx[w].case /\ t.row = tx[w].row /\ t.moved = R
    BY <2>2, <2>3 DEF Transaction
  <2>5. tx' = [tx EXCEPT ![w] = t]
    BY <1>4 DEF Apply, TypeOK
  <2>6. tx' \in [Workers -> Transaction \cup {Idle}]
    BY <2>4, <2>5 DEF TypeOK
  <2>7. ASSUME NEW v \in Workers, tx'[v] # Idle
        PROVE  /\ Stored(queue[tx'[v].case])
               /\ \A r \in tx'[v].moved : map[r] = Source(tx'[v].case, tx'[v].row.decision)
    <3> HIDE DEF t, R
    <3> QED BY <2>1, <2>3, <2>4, <2>5, <2>7 DEF TypeOK
  <2> QED
    BY <1>4, <2>6, <2>7 DEF TypeOK, Apply
<1>5. ASSUME NEW w \in Workers, Refuse(w)
      PROVE  TypeOK'
  <2>1. tx' = [tx EXCEPT ![w] = Idle] /\ queue' = queue
    BY <1>5 DEF Refuse, QueueAfterRollback
  <2> QED
    BY <1>5, <2>1 DEF TypeOK, Refuse
<1>6. ASSUME NEW w \in Workers, Commit(w)
      PROVE  TypeOK'
  <2> DEFINE k == tx[w].case
             d == tx[w].row.decision
             by == tx[w].row.by
  <2>1. /\ tx[w] # Idle /\ k \in Cases /\ d \in Decisions /\ by \in Signers
        /\ tx[w].row \in CaseRow
        /\ tx[w].row.status \in Statuses
    BY <1>6, OpenFields, DecidedRow DEF Commit, DecisionPending, TypeOK
  <2>2. queue' = [queue EXCEPT ![k] = tx[w].row] /\ queue' \in [Cases -> CaseRow]
    BY <1>6, <2>1 DEF Commit, TypeOK
  <2>3. map' \in [Records -> CustomerIds \cup {NoId}] /\ dim' \subseteq CustomerIds
    BY <1>6, <2>1, TargetTyped DEF Commit, TypeOK
  <2>4. /\ merges' \in [Cases -> Signers \cup {NoSigner}]
        /\ unmerges' \in [Cases -> Signers \cup {NoSigner}]
    BY <1>6, <2>1 DEF Commit, SignedFor, Signed, TypeOK
  <2>5. tx' = [tx EXCEPT ![w] = Idle] /\ faults' = faults
    BY <1>6 DEF Commit
  <2>6. Stored(tx[w].row)
    BY <2>1 DEF Stored, Statuses
  <2>7. ASSUME NEW v \in Workers, tx'[v] # Idle
        PROVE  /\ Stored(queue'[tx'[v].case])
               /\ \A r \in tx'[v].moved : map'[r] = Source(tx'[v].case, tx'[v].row.decision)
    <3>1. v # w /\ tx'[v] = tx[v] /\ tx[v] # Idle
      BY <2>5, <2>7 DEF TypeOK
    <3>2. Stored(queue'[tx[v].case])
      BY <2>2, <2>6, <3>1, OpenFields DEF TypeOK
    <3>3. \A r \in tx[v].moved : r \in Records /\ r \notin tx[w].moved
      BY <2>1, <3>1, OpenFields DEF LocksExclusive
    <3>4. \A r \in tx[v].moved : map'[r] = map[r]
      BY <1>6, <3>3 DEF Commit
    <3> QED
      BY <3>1, <3>2, <3>4 DEF TypeOK
  <2> QED
    BY <2>2, <2>3, <2>4, <2>5, <2>7 DEF TypeOK
<1>7. ASSUME NEW w \in Workers, Abort(w)
      PROVE  TypeOK'
  <2>1. tx' = [tx EXCEPT ![w] = Idle] /\ faults' \in 0..MaxFaults
    BY <1>7, StewardshipAssumption DEF Abort, TypeOK
  <2> QED
    BY <1>7, <2>1 DEF TypeOK, Abort
<1>8. CASE UNCHANGED vars
  BY <1>8 DEF TypeOK, vars
<1> QED
  BY <1>1, <1>2, <1>3, <1>4, <1>5, <1>6, <1>7, <1>8 DEF Next

\* What holds of a transaction that stays as it is, when its case and the
\* mappings it holds are left alone.
LEMMA OthersPending ==
  ASSUME IndInv, NEW w \in Workers, tx[w] # Idle, tx'[w] = tx[w],
         queue'[tx[w].case] = queue[tx[w].case]
  PROVE  /\ tx'[w].row.decision \in Decisions /\ tx'[w].row.by \in Signers
         /\ tx'[w].row = Decided(queue'[tx'[w].case], tx'[w].row.decision, tx'[w].row.by)
         /\ Legal(queue'[tx'[w].case], tx'[w].row.decision)
BY DEF IndInv, DecisionPending

\* The row locks of "select ... for update" and of the updates keep open
\* transactions apart until they commit (repository.py:217-245).
LEMMA TransactionStep ==
  ASSUME IndInv, [Next]_vars
  PROVE  (DecisionPending /\ MovesHeld /\ LocksExclusive)'
<1> USE DEF IndInv
<1>1. ASSUME NEW k \in Cases, CreateCase(k)
      PROVE  (DecisionPending /\ MovesHeld /\ LocksExclusive)'
  <2>1. \A w \in Workers : tx[w] # Idle => queue'[tx[w].case] = queue[tx[w].case]
    BY <1>1, OpenFields DEF CreateCase, CaseLocked, TypeOK
  <2>2. DecisionPending'
    BY <1>1, <2>1, OthersPending DEF CreateCase, DecisionPending
  <2> QED
    BY <1>1, <2>2 DEF CreateCase, MovesHeld, LocksExclusive
<1>2. ASSUME NEW w \in Workers, NEW k \in Cases, NEW d \in Decisions, NEW by \in Signers,
             Decide(w, k, d, by)
      PROVE  (DecisionPending /\ MovesHeld /\ LocksExclusive)'
  <2> DEFINE t == [pc |-> "decided", case |-> k, row |-> Decided(queue[k], d, by), moved |-> {}]
  <2>1. /\ tx' = [tx EXCEPT ![w] = t] /\ queue' = queue
        /\ t.row.decision = d /\ t.row.by = by
    BY <1>2 DEF Decide, Decided
  <2>2. Legal(queue[k], d) /\ \A v \in Workers : tx[v] # Idle => tx[v].case # k
    BY <1>2 DEF Decide, CaseAvailable, CaseLocked
  <2>3. t.row = Decided(queue[t.case], t.row.decision, t.row.by)
    BY <2>1 DEF Decided
  <2>4. \A v \in Workers : v # w => tx'[v] = tx[v]
    BY <2>1 DEF TypeOK
  <2>5. tx'[w] = t
    BY <2>1 DEF TypeOK
  <2>6. DecisionPending'
    BY <2>1, <2>2, <2>3, <2>4, <2>5 DEF DecisionPending
  <2>7. MovesHeld'
    BY <2>4, <2>5 DEF MovesHeld
  <2>8. LocksExclusive'
    BY <2>2, <2>4, <2>5 DEF LocksExclusive
  <2> QED
    BY <2>6, <2>7, <2>8
<1>3. ASSUME NEW w \in Workers, Apply(w)
      PROVE  (DecisionPending /\ MovesHeld /\ LocksExclusive)'
  <2> DEFINE R == Matching(tx[w].case, tx[w].row.decision)
  <2>1. tx[w] # Idle /\ tx[w] \in Transaction
    BY <1>3, OpenTransaction DEF Apply, Idle
  <2>2. /\ tx'[w].pc = "applied" /\ tx'[w].moved = R
        /\ tx'[w].case = tx[w].case /\ tx'[w].row = tx[w].row
        /\ \A v \in Workers : v # w => tx'[v] = tx[v]
        /\ queue' = queue
    BY <1>3, <2>1 DEF Apply, Transaction, TypeOK
  <2>3. /\ R # {} /\ MovesMappings(tx[w].row.decision)
        /\ \A r \in R : tx[w].row.decision = "APPROVE_UNMERGE" => r = Content[tx[w].case].record
    BY <1>3 DEF Apply, Applicable, Matching
  <2>4. \A v \in Workers : tx[v] # Idle => tx[v].moved \cap R = {}
    BY <1>3 DEF Apply, RowsLocked
  <2>5. DecisionPending'
    BY <2>1, <2>2 DEF DecisionPending
  <2>6. MovesHeld'
    <3> HIDE DEF R
    <3> QED BY <2>1, <2>2, <2>3 DEF MovesHeld
  <2>7. LocksExclusive'
    <3> HIDE DEF R
    <3> QED BY <2>1, <2>2, <2>4 DEF LocksExclusive
  <2> QED
    BY <2>5, <2>6, <2>7
<1>4. ASSUME NEW w \in Workers, Refuse(w) \/ Abort(w)
      PROVE  (DecisionPending /\ MovesHeld /\ LocksExclusive)'
  <2>1. tx' = [tx EXCEPT ![w] = Idle] /\ queue' = queue
    BY <1>4 DEF Refuse, Abort, QueueAfterRollback
  <2>2. tx'[w] = Idle /\ \A v \in Workers : v # w => tx'[v] = tx[v]
    BY <2>1 DEF TypeOK
  <2> QED
    BY <2>1, <2>2 DEF DecisionPending, MovesHeld, LocksExclusive
<1>5. ASSUME NEW w \in Workers, Commit(w)
      PROVE  (DecisionPending /\ MovesHeld /\ LocksExclusive)'
  <2>1. /\ tx[w] # Idle
        /\ tx' = [tx EXCEPT ![w] = Idle]
        /\ queue' = [queue EXCEPT ![tx[w].case] = tx[w].row]
    BY <1>5 DEF Commit
  <2>2. tx'[w] = Idle /\ \A v \in Workers : v # w => tx'[v] = tx[v]
    BY <2>1 DEF TypeOK
  <2>3. \A v \in Workers : v # w /\ tx[v] # Idle => queue'[tx[v].case] = queue[tx[v].case]
    BY <2>1, OpenFields DEF TypeOK, LocksExclusive
  <2>4. DecisionPending'
    BY <2>2, <2>3, OthersPending DEF DecisionPending
  <2> QED
    BY <2>2, <2>4 DEF MovesHeld, LocksExclusive
<1>6. CASE (\E f \in Resolutions : LoadIdentity(f)) \/ UNCHANGED vars
  <2>1. tx' = tx /\ queue' = queue
    BY <1>6 DEF LoadIdentity, vars
  <2> QED
    BY <2>1 DEF DecisionPending, MovesHeld, LocksExclusive
<1> QED
  BY <1>1, <1>2, <1>3, <1>4, <1>5, <1>6 DEF Next

\* What a commit writes: the case follows its row, an approval signs its audit
\* row, and the mappings it holds move to its target (repository.py:230-245).
LEMMA CommitWrites ==
  ASSUME IndInv, NEW w \in Workers, Commit(w)
  PROVE  LET k == tx[w].case
             d == tx[w].row.decision
         IN /\ tx[w] # Idle /\ k \in Cases /\ d \in Decisions
            /\ tx[w].row.status = DecisionStatus[d]
            /\ queue' = [queue EXCEPT ![k] = tx[w].row]
            /\ dim \subseteq dim'
            /\ CreatedIds(k, d) \subseteq dim'
            /\ map' = [r \in Records |-> IF r \in tx[w].moved THEN Target(k, d) ELSE map[r]]
            /\ tx[w].moved # {} => d \in {"APPROVE_MERGE", "APPROVE_UNMERGE"}
            /\ \A j \in Cases : merges[j] # NoSigner => merges'[j] # NoSigner
            /\ \A j \in Cases : unmerges[j] # NoSigner => unmerges'[j] # NoSigner
            /\ d = "APPROVE_MERGE" => merges'[k] # NoSigner
            /\ d = "APPROVE_UNMERGE" => unmerges'[k] # NoSigner
<1> USE DEF IndInv
<1> DEFINE k == tx[w].case
           d == tx[w].row.decision
           by == tx[w].row.by
<1>1. tx[w] # Idle /\ k \in Cases /\ d \in Decisions /\ by \in Signers /\ by # NoSigner
  BY OpenFields, StewardshipAssumption DEF Commit, DecisionPending
<1>2. tx[w].row.status = DecisionStatus[d]
  BY <1>1, DecidedRow DEF DecisionPending, TypeOK
<1>3. \A audit \in [Cases -> Signers \cup {NoSigner}] : \A own \in Decisions :
        /\ \A j \in Cases : audit[j] # NoSigner => SignedFor(audit, d, own, k, by)[j] # NoSigner
        /\ d = own => SignedFor(audit, d, own, k, by)[k] # NoSigner
  BY <1>1 DEF SignedFor, Signed
<1>4. /\ merges' = SignedFor(merges, d, "APPROVE_MERGE", k, by)
      /\ unmerges' = SignedFor(unmerges, d, "APPROVE_UNMERGE", k, by)
  BY DEF Commit
<1>5. "APPROVE_MERGE" \in Decisions /\ "APPROVE_UNMERGE" \in Decisions
  BY DEF Decisions
<1>6. /\ \A j \in Cases : merges[j] # NoSigner => merges'[j] # NoSigner
      /\ \A j \in Cases : unmerges[j] # NoSigner => unmerges'[j] # NoSigner
      /\ d = "APPROVE_MERGE" => merges'[k] # NoSigner
      /\ d = "APPROVE_UNMERGE" => unmerges'[k] # NoSigner
  <2> HIDE DEF d, k, by
  <2> QED BY <1>3, <1>4, <1>5 DEF TypeOK
<1>7. tx[w].moved # {} => d \in {"APPROVE_MERGE", "APPROVE_UNMERGE"}
  BY <1>1, OpenFields DEF MovesHeld, MovesMappings
<1>8. /\ queue' = [queue EXCEPT ![k] = tx[w].row]
      /\ map' = [r \in Records |-> IF r \in tx[w].moved THEN Target(k, d) ELSE map[r]]
      /\ dim' = dim \cup CreatedIds(k, d)
  BY DEF Commit
<1> QED
  BY <1>1, <1>2, <1>6, <1>7, <1>8

\* Approvals stay audited, mappings explained and customers stored.
LEMMA AuditStep ==
  ASSUME IndInv, [Next]_vars
  PROVE  (ApprovalIsAudited /\ MappingExplained /\ NoDanglingCustomer)'
<1> USE DEF IndInv
<1>1. ASSUME NEW k \in Cases, CreateCase(k)
      PROVE  (ApprovalIsAudited /\ MappingExplained /\ NoDanglingCustomer)'
  <2>1. \A j \in Cases : queue'[j] = queue[j] \/ queue'[j].status = "OPEN"
    BY <1>1 DEF CreateCase, Open, TypeOK
  <2> QED
    BY <1>1, <2>1 DEF CreateCase, ApprovalIsAudited, MappingExplained, NoDanglingCustomer,
                      CreatedIds
<1>2. ASSUME NEW f \in Resolutions, LoadIdentity(f)
      PROVE  (ApprovalIsAudited /\ MappingExplained /\ NoDanglingCustomer)'
  <2>1. /\ map' = [r \in Records |-> IF r \in DOMAIN f THEN f[r] ELSE map[r]]
        /\ dim' = dim \cup {f[r] : r \in DOMAIN f}
        /\ UNCHANGED <<queue, merges, unmerges, tx>>
    BY <1>2 DEF LoadIdentity
  <2>2. \A r \in DOMAIN f : f[r] \in ResolverIds(r)
    BY DEF ResolverIds
  <2>3. MappingExplained'
    BY <2>1, <2>2 DEF MappingExplained
  <2>4. NoDanglingCustomer'
    BY <2>1 DEF NoDanglingCustomer, CreatedIds
  <2> QED
    BY <2>1, <2>3, <2>4 DEF ApprovalIsAudited
<1>3. ASSUME NEW w \in Workers, NEW k \in Cases, NEW d \in Decisions, NEW by \in Signers,
             Decide(w, k, d, by)
      PROVE  (ApprovalIsAudited /\ MappingExplained /\ NoDanglingCustomer)'
  <2>1. tx'[w].moved = {} /\ \A v \in Workers : v # w => tx'[v] = tx[v]
    BY <1>3 DEF Decide, TypeOK
  <2>2. UNCHANGED <<queue, map, dim, merges, unmerges>>
    BY <1>3 DEF Decide
  <2>3. NoDanglingCustomer'
    BY <2>1, <2>2 DEF NoDanglingCustomer, CreatedIds
  <2> QED
    BY <2>2, <2>3 DEF ApprovalIsAudited, MappingExplained
<1>4. ASSUME NEW w \in Workers, Apply(w)
      PROVE  (ApprovalIsAudited /\ MappingExplained /\ NoDanglingCustomer)'
  <2>1. tx[w] # Idle /\ tx[w] \in Transaction
    BY <1>4, OpenTransaction DEF Apply, Idle
  <2>2. /\ tx'[w].case = tx[w].case /\ tx'[w].row = tx[w].row
        /\ \A v \in Workers : v # w => tx'[v] = tx[v]
        /\ UNCHANGED <<queue, map, dim, merges, unmerges>>
    BY <1>4, <2>1 DEF Apply, Transaction, TypeOK
  <2>3. Target(tx[w].case, tx[w].row.decision) \in
          dim \cup CreatedIds(tx[w].case, tx[w].row.decision)
    BY <1>4 DEF Apply, Applicable
  <2>4. NoDanglingCustomer'
    BY <2>2, <2>3 DEF NoDanglingCustomer, CreatedIds
  <2> QED
    BY <2>2, <2>4 DEF ApprovalIsAudited, MappingExplained
<1>5. ASSUME NEW w \in Workers, Refuse(w) \/ Abort(w)
      PROVE  (ApprovalIsAudited /\ MappingExplained /\ NoDanglingCustomer)'
  <2>1. tx' = [tx EXCEPT ![w] = Idle] /\ UNCHANGED <<queue, map, dim, merges, unmerges>>
    BY <1>5 DEF Refuse, Abort, QueueAfterRollback
  <2>2. tx'[w] = Idle /\ \A v \in Workers : v # w => tx'[v] = tx[v]
    BY <2>1 DEF TypeOK
  <2>3. \A v \in Workers : tx'[v] # Idle => tx[v] # Idle /\ tx'[v] = tx[v]
    BY <2>2
  <2>4. map' = map /\ dim' = dim
    BY <2>1
  <2>5. NoDanglingCustomer'
    BY <2>3, <2>4 DEF NoDanglingCustomer, CreatedIds
  <2> QED
    BY <2>1, <2>5 DEF ApprovalIsAudited, MappingExplained
<1>6. ASSUME NEW w \in Workers, Commit(w)
      PROVE  (ApprovalIsAudited /\ MappingExplained /\ NoDanglingCustomer)'
  <2> DEFINE k == tx[w].case
             d == tx[w].row.decision
  <2>1. /\ k \in Cases /\ d \in Decisions /\ dim \subseteq dim'
        /\ queue' = [queue EXCEPT ![k] = tx[w].row]
        /\ map' = [r \in Records |-> IF r \in tx[w].moved THEN Target(k, d) ELSE map[r]]
        /\ \A j \in Cases : merges[j] # NoSigner => merges'[j] # NoSigner
        /\ \A j \in Cases : unmerges[j] # NoSigner => unmerges'[j] # NoSigner
        /\ d = "APPROVE_MERGE" => merges'[k] # NoSigner
        /\ d = "APPROVE_UNMERGE" => unmerges'[k] # NoSigner
        /\ tx[w].moved # {} => d \in {"APPROVE_MERGE", "APPROVE_UNMERGE"}
        /\ tx[w] # Idle
    BY <1>6, CommitWrites
  <2>2. ApprovalIsAudited'
    <3>1. tx[w].row.status = DecisionStatus[d] /\ tx[w].row.decision = d
      BY <1>6, CommitWrites
    <3>2. tx[w].row.status = "APPROVED" => d \in {"APPROVE_MERGE", "APPROVE_UNMERGE"}
      BY <2>1, <3>1, ApprovalsMove
    <3>3. ASSUME NEW j \in Cases, queue'[j].status = "APPROVED"
          PROVE  \/ queue'[j].decision = "APPROVE_MERGE" /\ merges'[j] # NoSigner
                 \/ queue'[j].decision = "APPROVE_UNMERGE" /\ unmerges'[j] # NoSigner
      <4>1. CASE j = k
        <5>1. queue'[j] = tx[w].row
          BY <2>1, <4>1 DEF TypeOK
        <5> QED BY <2>1, <3>2, <3>3, <4>1, <5>1
      <4>2. CASE j # k
        <5>1. queue'[j] = queue[j]
          BY <2>1, <4>2 DEF TypeOK
        <5> QED BY <2>1, <3>3, <5>1 DEF ApprovalIsAudited
      <4> QED BY <4>1, <4>2
    <3> QED BY <3>3 DEF ApprovalIsAudited
  <2>3. MappingExplained'
    <3>1. ASSUME NEW r \in Records, r \in tx[w].moved
          PROVE  \/ merges'[k] # NoSigner /\ map'[r] = Content[k].canonical
                 \/ unmerges'[k] # NoSigner /\ map'[r] = UnmergeId[k] /\ r = Content[k].record
      <4>1. map'[r] = Target(k, d) /\ tx[w].moved # {}
        BY <2>1, <3>1
      <4>2. d = "APPROVE_UNMERGE" => r = Content[k].record
        BY <2>1, <3>1 DEF MovesHeld
      <4> QED BY <2>1, <4>1, <4>2 DEF Target
    <3>2. \A r \in Records : r \notin tx[w].moved => map'[r] = map[r]
      BY <2>1
    <3> HIDE DEF k, d
    <3> QED BY <2>1, <3>1, <3>2 DEF MappingExplained
  <2>4. NoDanglingCustomer'
    <3>1. tx[w].moved # {} => Target(k, d) \in dim'
      BY <1>6, <2>1, CommitWrites DEF NoDanglingCustomer
    <3>2. \A r \in Records : map'[r] # NoId => map'[r] \in dim'
      BY <2>1, <3>1 DEF NoDanglingCustomer
    <3>3. tx'[w] = Idle /\ \A v \in Workers : v # w => tx'[v] = tx[v]
      BY <1>6 DEF Commit, TypeOK
    <3> QED BY <2>1, <3>2, <3>3 DEF NoDanglingCustomer, CreatedIds
  <2> QED
    BY <2>2, <2>3, <2>4
<1>7. CASE UNCHANGED vars
  BY <1>7 DEF vars, ApprovalIsAudited, MappingExplained, NoDanglingCustomer, CreatedIds
<1> QED
  BY <1>1, <1>2, <1>3, <1>4, <1>5, <1>6, <1>7 DEF Next

LEMMA InitIndInv == Init => IndInv
<1> SUFFICES ASSUME Init PROVE IndInv
  OBVIOUS
<1>1. Absent \in CaseRow /\ Absent.status # "APPROVED"
  BY DEF Absent, CaseRow
<1>2. TypeOK
  BY <1>1, StewardshipAssumption DEF Init, TypeOK
<1>3. ApprovalIsAudited /\ MappingExplained /\ NoDanglingCustomer
  BY <1>1 DEF Init, ApprovalIsAudited, MappingExplained, NoDanglingCustomer
<1> QED
  BY <1>2, <1>3 DEF Init, IndInv, DecisionPending, MovesHeld, LocksExclusive

\* The inductive invariant holds in every reachable state.
THEOREM SpecIndInv == Spec => []IndInv
<1>1. IndInv /\ [Next]_vars => IndInv'
  BY TypeStep, TransactionStep, AuditStep DEF IndInv
<1> QED
  BY InitIndInv, <1>1, PTL DEF Spec

\* Type correctness; an open transaction finds what it has locked unchanged.
THEOREM SpecTypeOK == Spec => []TypeOK
BY SpecIndInv, PTL DEF IndInv

\* No approval is ever without its audit row (repository.py:230-245).
THEOREM ApprovalsAreAudited == Spec => []ApprovalIsAudited
BY SpecIndInv, PTL DEF IndInv

\* Every mapping comes from the resolver, or from a decision that an audit row
\* records (repository.py:253-337, resolver.py:787-875).
THEOREM MappingsAreExplained == Spec => []MappingExplained
BY SpecIndInv, PTL DEF IndInv

\* No mapping dangles, with decisions and loads interleaved at any statement.
THEOREM CustomersExist == Spec => []NoDanglingCustomer
BY SpecIndInv, PTL DEF IndInv

\* However many reviewers decide a case at once, it moves along the transitions
\* of the state machine only (repository.py:218-229, config.py:34-42).
THEOREM CasesFollowMachine == Spec => StatusFollowsMachine
<1>1. ASSUME IndInv, [Next]_vars
      PROVE  [\A k \in Cases : FollowsMachine(queue[k], queue'[k])]_queue
  <2>1. ASSUME NEW j \in Cases, CreateCase(j)
        PROVE  \A k \in Cases : FollowsMachine(queue[k], queue'[k])
    <3>1. \A k \in Cases : queue'[k] = queue[k] \/ queue'[k] = Open
      BY <1>1, <2>1 DEF CreateCase, IndInv, TypeOK
    <3> QED BY <3>1 DEF FollowsMachine
  <2>2. ASSUME NEW w \in Workers, Commit(w)
        PROVE  \A k \in Cases : FollowsMachine(queue[k], queue'[k])
    <3> DEFINE j == tx[w].case
    <3>1. /\ j \in Cases /\ tx[w].row.status = DecisionStatus[tx[w].row.decision]
          /\ queue' = [queue EXCEPT ![j] = tx[w].row] /\ tx[w] # Idle
      BY <1>1, <2>2, CommitWrites
    <3>2. Stored(queue[j]) /\ tx[w].row.status \in NextStatuses[queue[j].status]
      BY <1>1, <3>1 DEF IndInv, DecisionPending, Legal
    <3>3. queue'[j] = tx[w].row /\ \A k \in Cases : k # j => queue'[k] = queue[k]
      BY <1>1, <3>1 DEF IndInv, TypeOK
    <3> HIDE DEF j
    <3> QED BY <3>2, <3>3 DEF FollowsMachine
  <2>3. ASSUME NEW w \in Workers, Refuse(w)
        PROVE  UNCHANGED queue
    BY <2>3 DEF Refuse, QueueAfterRollback
  <2> QED
    BY <1>1, <2>1, <2>2, <2>3 DEF Next, vars, LoadIdentity, Decide, Apply, Abort
<1> QED
  BY SpecIndInv, <1>1, PTL DEF Spec, StatusFollowsMachine

\* An approval that commits moves a mapping: of two cases about one candidate,
\* approved at the same time, only one reads as approved (repository.py:261, 315).
THEOREM ApprovalsTakeEffect == Spec => ApprovalTakesEffect
<1> DEFINE Effect ==
      \A k \in Cases :
        LET d == queue'[k].decision
        IN /\ queue'[k].status = "APPROVED" /\ queue[k].status # "APPROVED"
           /\ Source(k, d) # Target(k, d)
           => \E r \in Records : map[r] = Source(k, d) /\ map'[r] = Target(k, d)
<1>1. ASSUME IndInv, [Next]_vars
      PROVE  [Effect]_vars
  <2>1. ASSUME NEW w \in Workers, Commit(w)
        PROVE  Effect
    <3> DEFINE j == tx[w].case
               d == tx[w].row.decision
    <3>1. /\ j \in Cases /\ d \in Decisions /\ tx[w].row.status = DecisionStatus[d]
          /\ queue' = [queue EXCEPT ![j] = tx[w].row] /\ tx[w] # Idle
          /\ map' = [r \in Records |-> IF r \in tx[w].moved THEN Target(j, d) ELSE map[r]]
      BY <1>1, <2>1, CommitWrites
    <3>2. queue'[j] = tx[w].row /\ \A k \in Cases : k # j => queue'[k] = queue[k]
      BY <1>1, <3>1 DEF IndInv, TypeOK
    <3>3. ASSUME tx[w].row.status = "APPROVED"
          PROVE  \E r \in Records : map[r] = Source(j, d) /\ map'[r] = Target(j, d)
      <4>1. tx[w].pc = "applied"
        BY <2>1, <3>1, <3>3, ApprovalsMove DEF Commit, MovesMappings
      <4>2. PICK r \in tx[w].moved : TRUE
        BY <1>1, <3>1, <4>1 DEF IndInv, MovesHeld
      <4>3. r \in Records /\ map[r] = Source(j, d)
        BY <1>1, <3>1, <4>2, OpenFields DEF IndInv, TypeOK
      <4> QED BY <3>1, <4>2, <4>3
    <3> HIDE DEF j
    <3> QED BY <3>2, <3>3
  <2>2. ASSUME NEW k \in Cases, CreateCase(k)
        PROVE  Effect
    <3>1. \A j \in Cases : queue'[j] = queue[j] \/ queue'[j].status = "OPEN"
      BY <1>1, <2>2 DEF CreateCase, Open, IndInv, TypeOK
    <3> QED BY <3>1
  <2>3. ASSUME UNCHANGED queue
        PROVE  Effect
    BY <2>3
  <2>4. \/ \E w \in Workers : Commit(w)
        \/ \E k \in Cases : CreateCase(k)
        \/ UNCHANGED queue
    BY <1>1 DEF Next, vars, LoadIdentity, Decide, Apply, Refuse, QueueAfterRollback, Abort
  <2> QED
    BY <2>1, <2>2, <2>3, <2>4
<1> QED
  BY SpecIndInv, <1>1, PTL DEF Spec, ApprovalTakesEffect

-----------------------------------------------------------------------------
(* The ledger.  A decision happens where it commits: what it read is as it    *)
(* found it, and what it has moved in between nobody else could see.          *)

\* A commit is a decision of the ledger, with the mappings it holds.
LEMMA CommitDecides ==
  ASSUME IndInv, NEW w \in Workers, Commit(w)
  PROVE  Ledger!Decision(tx[w].case, tx[w].row.decision, tx[w].row.by)
<1> USE DEF IndInv
<1> DEFINE k == tx[w].case
           d == tx[w].row.decision
           by == tx[w].row.by
           R == tx[w].moved
<1>1. /\ tx[w] # Idle /\ k \in Cases /\ d \in Decisions /\ R \subseteq Records
      /\ tx[w].row = Decided(queue[k], d, by) /\ Legal(queue[k], d)
      /\ tx[w].pc \in {"decided", "applied"}
  BY OpenFields DEF Commit, DecisionPending
<1>2. /\ queue' = [queue EXCEPT ![k] = tx[w].row]
      /\ map' = [r \in Records |-> IF r \in R THEN Target(k, d) ELSE map[r]]
      /\ dim' = dim \cup CreatedIds(k, d)
      /\ merges' = SignedFor(merges, d, "APPROVE_MERGE", k, by)
      /\ unmerges' = SignedFor(unmerges, d, "APPROVE_UNMERGE", k, by)
      /\ MovesMappings(d) => tx[w].pc = "applied"
  BY DEF Commit
<1>3. \A r \in R : map[r] = Source(k, d) /\ (d = "APPROVE_UNMERGE" => r = Content[k].record)
  BY <1>1 DEF TypeOK, MovesHeld
<1>4. MovesMappings(d) => R # {} /\ Target(k, d) \in dim \cup CreatedIds(k, d)
  BY <1>1, <1>2 DEF MovesHeld, NoDanglingCustomer
<1>5. ~MovesMappings(d) => R = {}
  BY <1>1 DEF MovesHeld
<1> HIDE DEF k, d, by, R
<1>6. Ledger!Legal(queue[k], d) /\ queue' = [queue EXCEPT ![k] = Ledger!Decided(queue[k], d, by)]
  BY <1>1, <1>2
  DEF Legal, Stored, Decided, NextStatuses, DecisionStatus,
      Ledger!Legal, Ledger!Stored, Ledger!Decided, Ledger!NextStatuses, Ledger!DecisionStatus
<1>7. CASE d = "APPROVE_MERGE"
  <2>1. /\ Source(k, d) = Content[k].candidate /\ Target(k, d) = Content[k].canonical
        /\ CreatedIds(k, d) = {} /\ MovesMappings(d) /\ d # "APPROVE_UNMERGE"
    BY <1>7 DEF Source, Target, CreatedIds, MovesMappings
  <2>2. dim' = dim /\ unmerges' = unmerges /\ Content[k].canonical \in dim
    BY <1>2, <1>4, <2>1 DEF SignedFor
  <2>3. merges' = Ledger!FirstSigner(merges, k, by)
    BY <1>2, <1>7 DEF SignedFor, Signed, Ledger!FirstSigner
  <2>4. R \in (SUBSET Ledger!OwnersOf(Content[k].candidate)) \ {{}}
    BY <1>1, <1>3, <1>4, <2>1 DEF Ledger!OwnersOf, R
  <2>5. map' = Ledger!Moved(R, Content[k].canonical)
    BY <1>2, <2>1 DEF Ledger!Moved
  <2>6. Ledger!Merged(k, by)
    BY <2>2, <2>3, <2>4, <2>5 DEF Ledger!Merged
  <2> QED
    BY <1>6, <1>7, <2>6 DEF Ledger!Decision, k, d, by
<1>8. CASE d = "APPROVE_UNMERGE"
  <2>1. /\ Source(k, d) = Content[k].canonical /\ Target(k, d) = UnmergeId[k]
        /\ CreatedIds(k, d) = IF Content[k].canonical \in dim THEN {UnmergeId[k]} ELSE {}
        /\ MovesMappings(d) /\ d # "APPROVE_MERGE"
    BY <1>8 DEF Source, Target, CreatedIds, MovesMappings
  <2>2. R = {Content[k].record}
    BY <1>3, <1>4, <1>8, <2>1
  <2>3. Content[k].record \in Ledger!OwnersOf(Content[k].canonical)
    BY <1>1, <1>3, <2>1, <2>2 DEF Ledger!OwnersOf, R
  <2>4. map' = Ledger!Moved({Content[k].record}, UnmergeId[k])
    BY <1>2, <2>1, <2>2 DEF Ledger!Moved
  <2>5. merges' = merges /\ UnmergeId[k] \in dim'
    BY <1>2, <1>4, <2>1 DEF SignedFor
  <2>6. unmerges' = Ledger!FirstSigner(unmerges, k, by)
    BY <1>2, <1>8 DEF SignedFor, Signed, Ledger!FirstSigner
  <2>7. Ledger!Split(k, by)
    BY <1>2, <2>1, <2>3, <2>4, <2>5, <2>6 DEF Ledger!Split
  <2> QED
    BY <1>6, <1>8, <2>7 DEF Ledger!Decision, k, d, by
<1>9. CASE d \notin {"APPROVE_MERGE", "APPROVE_UNMERGE"}
  <2>1. ~MovesMappings(d) /\ CreatedIds(k, d) = {}
    BY <1>9 DEF MovesMappings, CreatedIds
  <2>2. dim' = dim /\ merges' = merges /\ unmerges' = unmerges
    BY <1>2, <1>9, <2>1 DEF SignedFor
  <2>3. map' = map
    BY <1>2, <1>5, <2>1 DEF TypeOK
  <2> QED
    BY <1>6, <1>9, <2>2, <2>3 DEF Ledger!Decision, k, d, by
<1> QED
  BY <1>7, <1>8, <1>9

\* The tables of the repository implement the ledger: no half of a decision is
\* ever there, however statements of others fall between its own
\* (repository.py:216-246).
THEOREM StewardshipImplementsLedger == Spec => LedgerSpec
<1>1. Init => Ledger!Init
  BY DEF Init, Absent, Ledger!Init, Ledger!Absent
<1>2. IndInv /\ [Next]_vars => [Ledger!Next]_(Ledger!ledger)
  <2> SUFFICES ASSUME IndInv, [Next]_vars, (Ledger!ledger)' # Ledger!ledger
               PROVE  Ledger!Next
    OBVIOUS
  <2>1. ASSUME NEW k \in Cases, CreateCase(k) PROVE Ledger!Found(k)
    BY <2>1 DEF CreateCase, Open, Ledger!Found, Ledger!Open
  <2>2. ASSUME NEW f \in Resolutions, LoadIdentity(f) PROVE Ledger!Resolved(f)
    BY <2>2 DEF LoadIdentity, Ledger!Resolved
  <2>3. ASSUME NEW w \in Workers, NEW k \in Cases, NEW d \in Decisions, NEW by \in Signers,
               Decide(w, k, d, by)
        PROVE  FALSE
    BY <2>3 DEF Decide, Ledger!ledger
  <2>4. ASSUME NEW w \in Workers, Apply(w) \/ Refuse(w) \/ Abort(w) PROVE FALSE
    BY <2>4 DEF Apply, Refuse, QueueAfterRollback, Abort, Ledger!ledger
  <2>5. ASSUME NEW w \in Workers, Commit(w)
        PROVE  \E k \in Cases, d \in Decisions, by \in Signers : Ledger!Decision(k, d, by)
    <3>1. tx[w].case \in Cases /\ tx[w].row.decision \in Decisions /\ tx[w].row.by \in Signers
      BY <2>5, OpenFields DEF IndInv, DecisionPending, Commit
    <3> QED
      BY <2>5, <3>1, CommitDecides
  <2>6. CASE UNCHANGED vars
    BY <2>6 DEF vars, Ledger!ledger
  <2> QED
    BY <2>1, <2>2, <2>3, <2>4, <2>5, <2>6 DEF Next, Ledger!Next, Decisions, Ledger!Decisions
<1> QED
  BY <1>1, <1>2, SpecIndInv, PTL DEF Spec, LedgerSpec, Ledger!Spec

-----------------------------------------------------------------------------
(* The file.  A row stands because a writer that nobody overlaps writes what  *)
(* it read, and nothing was promised since it read.                          *)

\* What a call will write of the cases it does not change is what was promised,
\* unless it may have read an older row.
RowsAreKept ==
  \A w \in File!Writers : call[w].pc # "idle" =>
    \A k \in File!FileCases \ (call[w].changes \cup call[w].stale) :
      Stored(promised[k]) => call[w].rows[k] = promised[k]

\* As long as a writer has the file to itself, the file has what it has written.
AloneWrites ==
  \A w \in File!Writers : File!Writing(w) /\ ~call[w].mixed =>
    \A i \in 1..call[w].written : file[CaseOrder[i]] = call[w].rows[CaseOrder[i]]

TogetherIsMixed ==
  \A v, w \in File!Writers : v # w /\ File!Writing(v) /\ File!Writing(w) => call[w].mixed

NothingWritten ==
  \A w \in File!Writers : call[w].pc = "read" => call[w].written = 0

FileInv ==
  /\ File!TypeOK
  /\ RowsAreKept
  /\ AloneWrites
  /\ TogetherIsMixed
  /\ NothingWritten
  /\ DecisionStands

\* What a writer is at, spelled out.
LEMMA Rewriting ==
  ASSUME File!TypeOK, NEW w \in File!Writers
  PROVE  /\ call[w].pc \in {"idle", "read", "open"}
         /\ call[w] = File!Idle <=> call[w].pc = "idle"
         /\ call[w].pc # "idle" =>
              /\ call[w] \in File!Rewrite
              /\ call[w].rows \in File!Rows
              /\ call[w].written \in 0..Len(CaseOrder)
              /\ call[w].changes \subseteq File!FileCases
              /\ call[w].stale \subseteq File!FileCases
              /\ call[w].mixed \in BOOLEAN
<1>1. call[w] \in File!Rewrite \cup {File!Idle}
  BY DEF File!TypeOK
<1>2. File!Idle.pc = "idle" /\ \A c \in File!Rewrite : c.pc \in {"read", "open"}
  BY DEF File!Idle, File!Rewrite
<1>3. call[w] = File!Idle <=> call[w].pc = "idle"
  BY <1>1, <1>2
<1>4. \A c \in File!Rewrite :
        /\ c.rows \in File!Rows /\ c.written \in 0..Len(CaseOrder)
        /\ c.changes \subseteq File!FileCases /\ c.stale \subseteq File!FileCases
        /\ c.mixed \in BOOLEAN
  BY DEF File!Rewrite
<1> QED
  BY <1>1, <1>2, <1>3, <1>4

\* The file that a write leaves has a row for each case; of a writer that has
\* it to itself, what it has written and what was there.
LEMMA WriteLeaves ==
  ASSUME File!TypeOK, NEW w \in File!Writers, File!Writing(w),
         NEW n \in 0..Len(CaseOrder), NEW f \in File!Written(w, n)
  PROVE  /\ f \in File!Rows
         /\ ~call[w].mixed => \A i \in DOMAIN CaseOrder :
              f[CaseOrder[i]] = IF i \in (call[w].written + 1)..n
                                THEN call[w].rows[CaseOrder[i]] ELSE file[CaseOrder[i]]
<1>1. /\ call[w].rows \in File!Rows /\ file \in File!Rows /\ call[w].mixed \in BOOLEAN
      /\ \A i \in DOMAIN CaseOrder : CaseOrder[i] \in File!FileCases
  BY Rewriting DEF File!TypeOK, File!Writing, File!FileCases
<1>2. /\ DOMAIN f = File!FileCases /\ f = [k \in File!FileCases |-> f[k]]
      /\ \A i \in DOMAIN CaseOrder : f[CaseOrder[i]] \in File!Outcomes(w, i, n)
  BY DEF File!Written
<1>3. File!Absent \in File!CaseRow
  BY DEF File!Absent, File!CaseRow
<1>4. ASSUME NEW i \in DOMAIN CaseOrder
      PROVE  /\ File!Outcomes(w, i, n) \subseteq File!CaseRow
             /\ ~call[w].mixed => File!Outcomes(w, i, n) =
                  {IF i \in (call[w].written + 1)..n
                   THEN call[w].rows[CaseOrder[i]] ELSE file[CaseOrder[i]]}
  BY <1>1, <1>3 DEF File!Outcomes, File!Rows
<1>5. \A k \in File!FileCases : f[k] \in File!CaseRow
  BY <1>2, <1>4 DEF File!FileCases
<1> QED
  BY <1>2, <1>4, <1>5 DEF File!Rows

\* A call that starts has written nothing, and keeps no row it may not.
LEMMA StartsKeeps ==
  ASSUME FileInv, NEW w \in File!Writers, call[w] = File!Idle,
         NEW rows \in File!Rows, NEW changes \in SUBSET File!FileCases,
         NEW stale \in SUBSET File!FileCases,
         call' = File!Starts(w, rows, changes, stale), UNCHANGED <<file, promised>>,
         \A k \in File!FileCases \ (changes \cup stale) :
           Stored(promised[k]) => rows[k] = promised[k]
  PROVE  /\ call' \in [File!Writers -> File!Rewrite \cup {File!Idle}]
         /\ RowsAreKept' /\ AloneWrites' /\ TogetherIsMixed' /\ NothingWritten' /\ DecisionStands'
<1> USE DEF FileInv
<1>0. call \in [File!Writers -> File!Rewrite \cup {File!Idle}]
  BY DEF File!TypeOK
<1>1. /\ call'[w] = [pc |-> "read", rows |-> rows, written |-> 0,
                    changes |-> changes, stale |-> stale, mixed |-> FALSE]
      /\ \A v \in File!Writers : v # w => call'[v] = call[v]
      /\ DOMAIN call' = File!Writers
  BY <1>0 DEF File!Starts
<1>2. call'[w] \in File!Rewrite
  <2>1. Len(CaseOrder) \in Nat
    BY FileAssumption DEF File!ReviewFileAssumption
  <2> QED
    BY <1>1, <2>1 DEF File!Rewrite
<1>3. call' \in [File!Writers -> File!Rewrite \cup {File!Idle}]
  BY <1>0, <1>1, <1>2 DEF File!Starts
<1>4. \A v \in File!Writers : File!Writing(v)' <=> File!Writing(v)
  BY <1>1, Rewriting DEF File!Writing
<1>5. RowsAreKept'
  BY <1>1 DEF RowsAreKept
<1>6. AloneWrites'
  BY <1>1, <1>4 DEF AloneWrites, File!Writing
<1>7. TogetherIsMixed'
  BY <1>1, <1>4 DEF TogetherIsMixed, File!Writing
<1>8. NothingWritten'
  BY <1>1 DEF NothingWritten
<1>9. DecisionStands'
  BY <1>4 DEF DecisionStands, File!DecisionStands, File!BeingWritten
<1> QED
  BY <1>3, <1>5, <1>6, <1>7, <1>8, <1>9

\* A decision that starts while nobody writes has read what stands; one that may
\* have read a part of the file answers for its own case only.
LEMMA DecideFileInv ==
  ASSUME FileInv, NEW w \in Workers, NEW k \in File!FileCases, NEW d \in File!Decisions,
         NEW by \in Signers, File!Decide(w, k, d, by)
  PROVE  FileInv'
<1> USE DEF FileInv, File!Decide
<1> DEFINE rows == File!RewrittenRows(k, d, by)
           stale == IF File!BeingWritten THEN File!FileCases ELSE {}
<1>1. w \in File!Writers
  BY DEF File!Writers
<1>2. rows \in File!Rows /\ \A j \in File!FileCases : j # k => rows[j] = file[j]
  <2>1. File!Decided(file[k], d, by) \in File!CaseRow
    BY DEF File!Decided, File!CaseRow, File!DecisionStatus, File!Decisions, File!Statuses
  <2> QED
    BY <2>1 DEF File!RewrittenRows, File!Rows, File!TypeOK
<1>3. ASSUME NEW j \in File!FileCases \ ({k} \cup stale), Stored(promised[j])
      PROVE  rows[j] = promised[j]
  BY <1>2, <1>3 DEF DecisionStands, File!DecisionStands, Stored, File!Stored
<1>4. stale \in SUBSET File!FileCases /\ {k} \in SUBSET File!FileCases
  OBVIOUS
<1>5. call' = File!Starts(w, rows, {k}, stale) /\ call[w] = File!Idle
  OBVIOUS
<1> HIDE DEF rows, stale
<1>6. /\ call' \in [File!Writers -> File!Rewrite \cup {File!Idle}]
      /\ RowsAreKept' /\ AloneWrites' /\ TogetherIsMixed' /\ NothingWritten' /\ DecisionStands'
  BY <1>1, <1>2, <1>3, <1>4, <1>5, StartsKeeps
<1>7. File!TypeOK'
  <2>1. calls' \in 0..MaxCalls
    BY FileAssumption DEF File!TypeOK, File!ReviewFileAssumption
  <2> QED
    BY <1>6, <2>1 DEF File!TypeOK
<1> QED
  BY <1>6, <1>7

\* A detection run answers for every row of the file.
LEMMA DetectFileInv ==
  ASSUME FileInv, NEW found \in Detections, File!Detect(found)
  PROVE  FileInv'
<1> USE DEF FileInv, File!Detect
<1>1. Job \in File!Writers
  BY DEF File!Writers
<1>2. File!DetectedRows(found) \in File!Rows
  BY DEF File!DetectedRows, File!Rows, File!CaseRow, File!Open, File!Absent, File!Statuses
<1>3. /\ call' \in [File!Writers -> File!Rewrite \cup {File!Idle}]
      /\ RowsAreKept' /\ AloneWrites' /\ TogetherIsMixed' /\ NothingWritten' /\ DecisionStands'
  BY <1>1, <1>2, StartsKeeps
<1>4. File!TypeOK'
  <2>1. runs' \in 0..MaxRuns
    BY FileAssumption DEF File!TypeOK, File!ReviewFileAssumption
  <2> QED
    BY <1>3, <2>1 DEF File!TypeOK
<1> QED
  BY <1>3, <1>4

\* Whoever opens the file while it is open makes both writers mixed.
LEMMA OpenFileInv ==
  ASSUME FileInv, NEW w \in File!Writers, File!OpenToWrite(w)
  PROVE  FileInv'
<1> USE DEF FileInv
<1>0. call[w] \in File!Rewrite /\ call[w].written = 0 /\ call[w].pc = "read"
  BY Rewriting DEF NothingWritten, File!OpenToWrite
<1>1. /\ call[w].pc = "read" /\ file' = File!NoRows
      /\ promised' = promised /\ runs' = runs /\ calls' = calls /\ lost' = lost
      /\ DOMAIN call' = File!Writers /\ call' = [v \in File!Writers |-> call'[v]]
      /\ call'[w] = [call[w] EXCEPT !.pc = "open",
                                    !.mixed = \E u \in File!Others(w) : File!Writing(u)]
      /\ \A v \in File!Writers : v # w =>
           call'[v] = IF File!Writing(v) THEN [call[v] EXCEPT !.mixed = TRUE] ELSE call[v]
  BY DEF File!OpenToWrite
<1>2. /\ call'[w] \in File!Rewrite /\ call'[w].pc = "open" /\ call'[w].written = 0
      /\ call'[w].mixed = \E u \in File!Others(w) : File!Writing(u)
      /\ call'[w].rows = call[w].rows /\ call'[w].changes = call[w].changes
      /\ call'[w].stale = call[w].stale
  BY <1>0, <1>1 DEF File!Rewrite
<1>3. ASSUME NEW v \in File!Writers, v # w
      PROVE  /\ call'[v] \in File!Rewrite \cup {File!Idle}
             /\ call'[v].pc = call[v].pc
             /\ File!Writing(v) => call'[v].mixed
             /\ ~File!Writing(v) => call'[v] = call[v]
             /\ call[v].pc # "idle" =>
                  /\ call'[v].rows = call[v].rows /\ call'[v].changes = call[v].changes
                  /\ call'[v].stale = call[v].stale /\ call'[v].written = call[v].written
  <2>1. CASE File!Writing(v)
    <3>1. call[v] \in File!Rewrite
      BY <2>1, Rewriting DEF File!Writing
    <3>2. call'[v] = [call[v] EXCEPT !.mixed = TRUE]
      BY <1>1, <1>3, <2>1
    <3> QED
      BY <2>1, <3>1, <3>2 DEF File!Rewrite
  <2>2. CASE ~File!Writing(v)
    BY <1>1, <1>3, <2>2 DEF File!TypeOK
  <2> QED
    BY <2>1, <2>2
<1>4. File!TypeOK'
  <2>1. file' \in File!Rows
    BY <1>1 DEF File!NoRows, File!Rows, File!CaseRow, File!Absent
  <2>2. call' \in [File!Writers -> File!Rewrite \cup {File!Idle}]
    BY <1>1, <1>2, <1>3
  <2> QED
    BY <1>1, <2>1, <2>2 DEF File!TypeOK
<1>5. RowsAreKept'
  <2> SUFFICES ASSUME NEW v \in File!Writers, call'[v].pc # "idle",
                      NEW k \in File!FileCases \ (call'[v].changes \cup call'[v].stale),
                      Stored(promised[k])
               PROVE  call'[v].rows[k] = promised[k]
    BY <1>1 DEF RowsAreKept
  <2>1. /\ call[v].pc # "idle" /\ call'[v].rows = call[v].rows
        /\ call'[v].changes = call[v].changes /\ call'[v].stale = call[v].stale
    <3>1. CASE v = w
      BY <1>0, <1>2, <3>1
    <3>2. CASE v # w
      BY <1>3, <3>2
    <3> QED
      BY <3>1, <3>2
  <2> QED
    BY <2>1 DEF RowsAreKept
<1>6. AloneWrites'
  <2> SUFFICES ASSUME NEW v \in File!Writers, call'[v].pc = "open", ~call'[v].mixed
               PROVE  1..call'[v].written = {}
    BY DEF AloneWrites, File!Writing
  <2>1. v = w
    BY <1>3 DEF File!Writing
  <2>2. call'[v].written = 0
    BY <1>2, <2>1
  <2> QED
    BY <2>2
<1>7. TogetherIsMixed'
  <2> SUFFICES ASSUME NEW u \in File!Writers, NEW v \in File!Writers, u # v,
                      call'[u].pc = "open", call'[v].pc = "open"
               PROVE  call'[v].mixed
    BY DEF TogetherIsMixed, File!Writing
  <2>1. CASE v = w
    <3>1. u \in File!Others(w) /\ File!Writing(u)
      BY <1>3, <2>1 DEF File!Others, File!Writing
    <3> QED
      BY <1>2, <2>1, <3>1
  <2>2. CASE v # w
    BY <1>3, <2>2 DEF File!Writing
  <2> QED
    BY <2>1, <2>2
<1>8. NothingWritten'
  BY <1>2, <1>3 DEF NothingWritten
<1>9. DecisionStands'
  BY <1>2 DEF DecisionStands, File!DecisionStands, File!BeingWritten, File!Writing
<1> QED
  BY <1>4, <1>5, <1>6, <1>7, <1>8, <1>9

\* A writer that is alone extends what the file has of its rows.
LEMMA WriteFileInv ==
  ASSUME FileInv, NEW w \in File!Writers, File!WriteSome(w)
  PROVE  FileInv'
<1> USE DEF FileInv
<1>1. PICK n \in (call[w].written + 1)..(Len(CaseOrder) - 1) :
        file' \in File!Written(w, n) /\ call' = [call EXCEPT ![w].written = n]
  BY DEF File!WriteSome
<1>2. /\ call[w] \in File!Rewrite /\ call[w].pc = "open" /\ call[w].written \in Nat
      /\ promised' = promised /\ runs' = runs /\ calls' = calls /\ lost' = lost
  BY Rewriting DEF File!WriteSome, File!Writing
<1>3. Len(CaseOrder) \in Nat /\ DOMAIN CaseOrder = 1..Len(CaseOrder)
  BY FileAssumption DEF File!ReviewFileAssumption
<1>4. n \in 0..Len(CaseOrder) /\ n \in Nat /\ n < Len(CaseOrder) /\ call[w].written < n
  BY <1>1, <1>2, <1>3
<1>5. /\ call'[w] = [call[w] EXCEPT !.written = n]
      /\ \A v \in File!Writers : v # w => call'[v] = call[v]
      /\ call' \in [File!Writers -> File!Rewrite \cup {File!Idle}]
  <2>1. [call[w] EXCEPT !.written = n] \in File!Rewrite
    BY <1>2, <1>4 DEF File!Rewrite
  <2> QED
    BY <1>1, <2>1 DEF File!TypeOK
<1>6. /\ call'[w].pc = "open" /\ call'[w].rows = call[w].rows /\ call'[w].mixed = call[w].mixed
      /\ call'[w].changes = call[w].changes /\ call'[w].stale = call[w].stale
      /\ call'[w].written = n
  BY <1>2, <1>5 DEF File!Rewrite
<1>7. /\ file' \in File!Rows
      /\ ~call[w].mixed => \A i \in DOMAIN CaseOrder :
           file'[CaseOrder[i]] = IF i \in (call[w].written + 1)..n
                                 THEN call[w].rows[CaseOrder[i]] ELSE file[CaseOrder[i]]
  BY <1>1, <1>2, <1>4, WriteLeaves DEF File!Writing
<1>8. File!TypeOK'
  BY <1>2, <1>5, <1>7 DEF File!TypeOK
<1>9. \A v \in File!Writers : /\ call'[v].pc = call[v].pc /\ call'[v].rows = call[v].rows
                              /\ call'[v].mixed = call[v].mixed
                              /\ call'[v].changes = call[v].changes
                              /\ call'[v].stale = call[v].stale
  BY <1>2, <1>5, <1>6
<1>10. RowsAreKept'
  BY <1>2, <1>9 DEF RowsAreKept
<1>11. AloneWrites'
  <2> SUFFICES ASSUME NEW v \in File!Writers, call'[v].pc = "open", ~call'[v].mixed,
                      NEW i \in 1..call'[v].written
               PROVE  file'[CaseOrder[i]] = call'[v].rows[CaseOrder[i]]
    BY DEF AloneWrites, File!Writing
  <2>1. v = w
    BY <1>2, <1>9 DEF TogetherIsMixed, File!Writing
  <2>2. i \in 1..n /\ i \in DOMAIN CaseOrder
    BY <1>3, <1>4, <1>6, <2>1
  <2>3. i \in 1..call[w].written => file[CaseOrder[i]] = call[w].rows[CaseOrder[i]]
    BY <1>2, <1>9, <2>1 DEF AloneWrites, File!Writing
  <2>4. i \in 1..call[w].written \/ i \in (call[w].written + 1)..n
    BY <1>2, <1>4, <2>2
  <2> QED
    BY <1>6, <1>7, <1>9, <2>1, <2>2, <2>3, <2>4
<1>12. TogetherIsMixed'
  BY <1>9 DEF TogetherIsMixed, File!Writing
<1>13. NothingWritten'
  BY <1>2, <1>5, <1>6 DEF NothingWritten
<1>14. DecisionStands'
  BY <1>6 DEF DecisionStands, File!DecisionStands, File!BeingWritten, File!Writing
<1> QED
  BY <1>8, <1>10, <1>11, <1>12, <1>13, <1>14

\* What is promised when a file is closed is what its writer, if alone, has
\* written; other calls no longer answer for the cases it has changed.
LEMMA CloseFileInv ==
  ASSUME FileInv, NEW w \in File!Writers, File!Close(w)
  PROVE  FileInv'
<1> USE DEF FileInv
<1>1. /\ call[w] \in File!Rewrite /\ call[w].pc = "open" /\ call[w].written \in Nat
      /\ call[w].rows \in File!Rows /\ call[w].mixed \in BOOLEAN
      /\ call[w].changes \subseteq File!FileCases
      /\ file' \in File!Written(w, Len(CaseOrder)) /\ promised' = File!Standing(w)
      /\ runs' = runs /\ calls' = calls /\ lost' = lost
  BY Rewriting DEF File!Close, File!Writing
<1>2. Len(CaseOrder) \in Nat /\ DOMAIN CaseOrder = 1..Len(CaseOrder)
  BY FileAssumption DEF File!ReviewFileAssumption
<1>3. /\ call'[w] = File!Idle /\ DOMAIN call' = File!Writers
      /\ \A v \in File!Writers : v # w =>
           call'[v] = IF call[v] = File!Idle THEN File!Idle
                      ELSE [call[v] EXCEPT !.stale = @ \cup call[w].changes]
      /\ call' = [v \in File!Writers |-> call'[v]]
  BY DEF File!Close
<1>4. ASSUME NEW v \in File!Writers, v # w
      PROVE  /\ call'[v] \in File!Rewrite \cup {File!Idle}
             /\ call'[v].pc = call[v].pc
             /\ call[v].pc # "idle" =>
                  /\ call'[v].rows = call[v].rows /\ call'[v].changes = call[v].changes
                  /\ call'[v].stale = call[v].stale \cup call[w].changes
                  /\ call'[v].written = call[v].written /\ call'[v].mixed = call[v].mixed
  <2>1. CASE call[v] = File!Idle
    BY <1>3, <1>4, <2>1 DEF File!Idle
  <2>2. CASE call[v] # File!Idle
    <3>1. call[v] \in File!Rewrite /\ call[v].stale \subseteq File!FileCases
      BY <2>2, Rewriting
    <3>2. call'[v] = [call[v] EXCEPT !.stale = call[v].stale \cup call[w].changes]
      BY <1>3, <1>4, <2>2
    <3> QED
      BY <1>1, <3>1, <3>2 DEF File!Rewrite
  <2> QED
    BY <2>1, <2>2
<1>5. call'[w].pc = "idle"
  BY <1>3 DEF File!Idle
<1>6. /\ file' \in File!Rows
      /\ ~call[w].mixed => \A i \in DOMAIN CaseOrder :
           file'[CaseOrder[i]] = IF i \in (call[w].written + 1)..Len(CaseOrder)
                                 THEN call[w].rows[CaseOrder[i]] ELSE file[CaseOrder[i]]
  BY <1>1, <1>2, WriteLeaves DEF File!Writing
<1>7. ~call[w].mixed => \A k \in File!FileCases : file'[k] = call[w].rows[k]
  <2> SUFFICES ASSUME ~call[w].mixed, NEW k \in File!FileCases PROVE file'[k] = call[w].rows[k]
    OBVIOUS
  <2>1. PICK i \in DOMAIN CaseOrder : k = CaseOrder[i]
    BY DEF File!FileCases
  <2>2. i \in 1..call[w].written => file[k] = call[w].rows[k]
    BY <1>1, <2>1 DEF AloneWrites, File!Writing
  <2>3. i \in 1..call[w].written \/ i \in (call[w].written + 1)..Len(CaseOrder)
    BY <1>1, <1>2
  <2> QED
    BY <1>1, <1>2, <1>6, <2>1, <2>2, <2>3
<1>8. promised' \in File!Rows
  BY <1>1 DEF File!Standing, File!Rows, File!CaseRow, File!Absent, File!TypeOK
<1>9. \A k \in File!FileCases : Stored(promised'[k]) =>
        /\ ~call[w].mixed
        /\ \/ k \in call[w].changes /\ promised'[k] = call[w].rows[k]
           \/ /\ k \notin call[w].changes /\ k \notin call[w].stale
              /\ promised'[k] = promised[k]
  BY <1>1 DEF File!Standing, File!Absent, Stored
<1>10. File!TypeOK'
  <2>1. call' \in [File!Writers -> File!Rewrite \cup {File!Idle}]
    BY <1>3, <1>4
  <2> QED
    BY <1>1, <1>6, <1>8, <2>1 DEF File!TypeOK
<1>11. RowsAreKept'
  <2> SUFFICES ASSUME NEW v \in File!Writers, call'[v].pc # "idle",
                      NEW k \in File!FileCases \ (call'[v].changes \cup call'[v].stale),
                      Stored(promised'[k])
               PROVE  call'[v].rows[k] = promised'[k]
    BY DEF RowsAreKept, Stored
  <2>1. v # w /\ call[v].pc # "idle"
    BY <1>4, <1>5
  <2>2. /\ call'[v].rows = call[v].rows /\ k \notin call[v].changes
        /\ k \notin call[v].stale /\ k \notin call[w].changes
    BY <1>4, <2>1
  <2>3. promised'[k] = promised[k]
    BY <1>9, <2>2
  <2> QED
    BY <2>1, <2>2, <2>3 DEF RowsAreKept, Stored
<1>12. AloneWrites' /\ TogetherIsMixed'
  <2>1. \A v \in File!Writers : call'[v].pc = "open" => call'[v].mixed
    <3> SUFFICES ASSUME NEW v \in File!Writers, call'[v].pc = "open" PROVE call'[v].mixed
      OBVIOUS
    <3>1. v # w /\ call[v].pc = "open"
      BY <1>4, <1>5
    <3> QED
      BY <1>1, <1>4, <3>1 DEF TogetherIsMixed, File!Writing
  <2> QED
    BY <2>1 DEF AloneWrites, TogetherIsMixed, File!Writing
<1>13. NothingWritten'
  <2> SUFFICES ASSUME NEW v \in File!Writers, call'[v].pc = "read" PROVE call'[v].written = 0
    BY DEF NothingWritten
  <2>1. v # w
    BY <1>5
  <2> QED
    BY <1>4, <2>1 DEF NothingWritten
<1>14. DecisionStands'
  <2> SUFFICES ASSUME NEW k \in File!FileCases, Stored(promised'[k])
               PROVE  file'[k] = promised'[k]
    BY DEF DecisionStands, File!DecisionStands, File!Stored, Stored
  <2> QED
    BY <1>1, <1>7, <1>9 DEF RowsAreKept
<1> QED
  BY <1>10, <1>11, <1>12, <1>13, <1>14

\* A writer that is lost leaves no promise behind, unless it had not opened the file.
LEMMA CrashFileInv ==
  ASSUME FileInv, NEW w \in File!Writers, File!Crash(w)
  PROVE  FileInv'
<1> USE DEF FileInv
<1>1. /\ file' = file /\ runs' = runs /\ calls' = calls /\ lost < MaxFaults /\ lost' = lost + 1
      /\ promised' = IF File!Writing(w) THEN File!NoRows ELSE promised
      /\ call'[w].pc = "idle" /\ \A v \in File!Writers : v # w => call'[v] = call[v]
      /\ call' \in [File!Writers -> File!Rewrite \cup {File!Idle}]
  BY DEF File!Crash, File!TypeOK, File!Idle
<1>2. \A k \in File!FileCases : Stored(promised'[k]) =>
        ~File!Writing(w) /\ promised'[k] = promised[k]
  BY <1>1 DEF File!NoRows, File!Absent, Stored
<1>3. File!TypeOK'
  <2>1. promised' \in File!Rows
    BY <1>1 DEF File!TypeOK, File!NoRows, File!Rows, File!CaseRow, File!Absent
  <2>2. lost' \in 0..MaxFaults
    BY <1>1, FileAssumption DEF File!TypeOK, File!ReviewFileAssumption
  <2> QED
    BY <1>1, <2>1, <2>2 DEF File!TypeOK
<1>4. RowsAreKept'
  <2> SUFFICES ASSUME NEW v \in File!Writers, call'[v].pc # "idle",
                      NEW k \in File!FileCases \ (call'[v].changes \cup call'[v].stale),
                      Stored(promised'[k])
               PROVE  call'[v].rows[k] = promised'[k]
    BY DEF RowsAreKept, Stored
  <2> QED
    BY <1>1, <1>2 DEF RowsAreKept, Stored
<1>5. AloneWrites' /\ TogetherIsMixed' /\ NothingWritten'
  BY <1>1 DEF AloneWrites, TogetherIsMixed, NothingWritten, File!Writing
<1>6. DecisionStands'
  <2> SUFFICES ASSUME ~File!BeingWritten', NEW k \in File!FileCases, Stored(promised'[k])
               PROVE  file'[k] = promised'[k]
    BY DEF DecisionStands, File!DecisionStands, File!Stored, Stored
  <2>1. ~File!BeingWritten
    BY <1>1, <1>2 DEF File!BeingWritten, File!Writing
  <2> QED
    BY <1>1, <1>2, <2>1 DEF DecisionStands, File!DecisionStands, File!Stored, Stored
<1> QED
  BY <1>3, <1>4, <1>5, <1>6

LEMMA InitFileInv == File!Init => FileInv
<1> SUFFICES ASSUME File!Init PROVE FileInv
  OBVIOUS
<1>1. File!NoRows \in File!Rows /\ \A k \in File!FileCases : ~Stored(File!NoRows[k])
  BY DEF File!NoRows, File!Rows, File!CaseRow, File!Absent, Stored
<1>2. \A w \in File!Writers : call[w] = File!Idle /\ call[w].pc = "idle"
  BY DEF File!Init, File!Idle
<1>3. File!TypeOK
  BY <1>1, FileAssumption DEF File!Init, File!TypeOK, File!ReviewFileAssumption
<1>4. DecisionStands
  BY <1>1 DEF File!Init, DecisionStands, File!DecisionStands, File!Stored, Stored
<1> QED
  BY <1>2, <1>3, <1>4
  DEF FileInv, RowsAreKept, AloneWrites, TogetherIsMixed, NothingWritten, File!Writing

LEMMA FileStep ==
  ASSUME FileInv, [File!Next]_fileVars
  PROVE  FileInv'
<1>1. ASSUME NEW found \in Detections, File!Detect(found) PROVE FileInv'
  BY <1>1, DetectFileInv
<1>2. ASSUME NEW w \in Workers, NEW k \in File!FileCases, NEW d \in File!Decisions,
             NEW by \in Signers, File!Decide(w, k, d, by)
      PROVE  FileInv'
  BY <1>2, DecideFileInv DEF File!Decisions, Decisions
<1>3. ASSUME NEW w \in File!Writers,
             File!OpenToWrite(w) \/ File!WriteSome(w) \/ File!Close(w) \/ File!Crash(w)
      PROVE  FileInv'
  BY <1>3, OpenFileInv, WriteFileInv, CloseFileInv, CrashFileInv
<1>4. CASE UNCHANGED fileVars
  BY <1>4 DEF fileVars, FileInv, File!TypeOK, RowsAreKept, AloneWrites, TogetherIsMixed,
              NothingWritten, DecisionStands, File!DecisionStands, File!BeingWritten,
              File!Writing
<1> QED
  BY <1>1, <1>2, <1>3, <1>4 DEF File!Next

\* What one deployment does to its own repository is a step of it or a stutter,
\* and it leaves the other alone.
LEMMA DeploymentStep ==
  [DeploymentNext]_<<vars, fileVars, dsn>> => [Next]_vars /\ [File!Next]_fileVars
BY DEF DeploymentNext

\* The theorems above hold of the deployments that the runs check.
THEOREM DeploymentsKeepTables == DeploymentSpec => Spec
BY DeploymentStep, PTL DEF DeploymentSpec, DeploymentInit, Spec

THEOREM SpecFileInv == DeploymentSpec => []FileInv
<1>1. DeploymentInit => FileInv
  BY InitFileInv DEF DeploymentInit
<1>2. FileInv /\ [DeploymentNext]_<<vars, fileVars, dsn>> => FileInv'
  BY DeploymentStep, FileStep
<1> QED
  BY <1>1, <1>2, PTL DEF DeploymentSpec

\* Calls that come one after the other lose no decision: a row that was written
\* stands until the next of its case, unless an overlapping call or a lost writer
\* has rewritten the file (repository.py:118-145).
THEOREM DecisionsStand == DeploymentSpec => []DecisionStands
BY SpecFileInv, PTL DEF FileInv
===============================================================================
