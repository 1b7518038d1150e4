---------------------------- MODULE DeliveryProofs ----------------------------
(***************************************************************************)
(* Proofs about Delivery, for any customers, tenants, files and histories:  *)
(* the reconciliation names every mismatch but in its blind spots, and is   *)
(* clean where there is none.                                               *)
(***************************************************************************)
EXTENDS Delivery, FiniteSetTheorems, TLAPS

USE DeliveryAssumption DEF Files

\* Steps that leave the files a report was made of, and the report, alone.
Quiet == UNCHANGED <<pc, files, audit, audited, report>>

Jobs == [rows : Listing, withheld : Listing, next : 1..(Len(FileOrder) + 1)]

(* ------------------------------- types --------------------------------- *)
LEMMA ListingsTyped ==
  /\ Empty \in Listing
  /\ \A list \in Listing : \A S : Only(list, S) \in Listing
BY DEF Empty, Only, Listing

LEMMA NoJobTyped == NoJob \in Jobs
BY ListingsTyped DEF NoJob, Jobs

LEMMA PutFileTyped ==
  ASSUME TypeOK, NEW f \in Files, NEW rows \in Listing, PutFile(f, rows)
  PROVE  /\ exports' \in [Files -> Listing]
         /\ audited' \subseteq Files
         /\ saved' \in [Files -> [Customers -> Ages]]
<1>1. ASSUME NEW g \in Files, NEW c \in Customers PROVE Aged(saved[g][c]) \in Ages
  <2>1. saved \in [Files -> [Customers -> Ages]]
    BY DEF TypeOK
  <2>2. saved[g][c] \in Ages
    BY <2>1
  <2> QED BY <2>2 DEF Aged, Ages
<1>2. saved' \in [Files -> [Customers -> Ages]]
  BY <1>1 DEF PutFile, TypeOK
<1> QED BY <1>2 DEF PutFile, TypeOK

LEMMA InitTyped == Init => TypeOK
<1> SUFFICES ASSUME Init PROVE TypeOK
  OBVIOUS
<1>1. /\ canonical \in Listing
      /\ suppression \in Listing
      /\ exports \in [Files -> Listing]
      /\ job \in Jobs
  BY ListingsTyped, NoJobTyped DEF Init
<1>2. audit \in [Files -> [Customers -> [tenant : Tenants \cup {Absent}, status : Statuses]]]
  BY DEF Init, NoRow, Statuses
<1>3. saved \in [Files -> [Customers -> Ages]]
  BY DEF Init, Ages
<1>4. /\ world \in Worlds
      /\ pc \in Idle
      /\ audited = {}
      /\ changes \in 0..MaxChanges
      /\ faults \in 0..MaxFaults
  BY DEF Init, Idle
<1> QED BY <1>1, <1>2, <1>3, <1>4 DEF TypeOK, Jobs

LEMMA NextFile ==
  ASSUME TypeOK, job.next <= Len(FileOrder)
  PROVE  FileOrder[job.next] \in Files /\ job.next + 1 \in 1..(Len(FileOrder) + 1)
BY DEF TypeOK

LEMMA StepTyped == TypeOK /\ [Next]_vars => TypeOK'
<1> SUFFICES ASSUME TypeOK, [Next]_vars PROVE TypeOK'
  OBVIOUS
<1>0. /\ world.known \in Listing /\ world.withheld \subseteq Customers
      /\ job.rows \in Listing /\ job.withheld \in Listing
  BY DEF TypeOK
<1>1. ASSUME NEW w \in Worlds, Change(w) PROVE TypeOK'
  <2>1. world' \in Worlds /\ changes' \in 0..MaxChanges
    BY <1>1 DEF Change, TypeOK
  <2>2. UNCHANGED <<files, pc, job, syncs, report, faults>>
    BY <1>1 DEF Change
  <2> QED BY <2>1, <2>2 DEF TypeOK, files, syncs
<1>2. CASE Resolve
  BY <1>0, <1>2 DEF Resolve, CanonicalOf, TypeOK, syncs, Idle
<1>3. CASE StartExport
  <2>1. /\ ExportRows(world) \in Listing
        /\ Only(world.known, world.withheld) \in Listing
        /\ 1 \in 1..(Len(FileOrder) + 1)
    BY <1>0, ListingsTyped DEF ExportRows
  <2>2. job' \in [rows : Listing, withheld : Listing, next : 1..(Len(FileOrder) + 1)]
    BY <1>3, <2>1 DEF StartExport
  <2> QED BY <1>3, <2>2 DEF StartExport, TypeOK, files, syncs, Idle
<1>4. CASE WriteFile
  <2>1. job' \in [rows : Listing, withheld : Listing, next : 1..(Len(FileOrder) + 1)]
    BY <1>4, NextFile DEF WriteFile, TypeOK
  <2>2. /\ exports' \in [Files -> Listing]
        /\ audited' \subseteq Files
        /\ saved' \in [Files -> [Customers -> Ages]]
    BY <1>0, <1>4, NextFile, PutFileTyped DEF WriteFile
  <2>3. UNCHANGED <<world, canonical, pc, suppression, audit, report, changes, faults>>
    BY <1>4 DEF WriteFile, PutFile
  <2> QED BY <2>1, <2>2, <2>3 DEF TypeOK
<1>5. CASE WriteSuppression
  BY <1>0, <1>5, NoJobTyped DEF WriteSuppression, TypeOK, syncs, Idle, Jobs
<1>6. CASE Sync
  <2>1. ASSUME NEW f \in Files, NEW c \in Customers
        PROVE  [tenant |-> exports[f][c], status |-> StatusOf(f, c)]
                 \in [tenant : Tenants \cup {Absent}, status : Statuses]
    <3>1. StatusOf(f, c) \in Statuses
      BY DEF StatusOf, Statuses
    <3>2. exports[f][c] \in Tenants \cup {Absent}
      <4>1. exports[f] \in [Customers -> Tenants \cup {Absent}]
        BY DEF TypeOK, Listing
      <4> QED BY <4>1
    <3> QED BY <3>1, <3>2
  <2> QED BY <1>6, <2>1 DEF Sync, TypeOK, files, Idle
<1>7. CASE SaveState
  BY <1>7 DEF SaveState, TypeOK, files, Idle, Ages
<1>8. CASE Reconcile
  BY <1>8 DEF Reconcile, Reconciled, TypeOK, files, syncs, Idle
<1>9. CASE Crash
  <2>1. /\ UNCHANGED <<world, report, changes>>
        /\ faults' \in 0..MaxFaults
        /\ pc' \in Idle
        /\ job' \in Jobs
    BY <1>9, NoJobTyped DEF Crash, TypeOK, Idle
  <2>2. CASE UNCHANGED <<files, syncs>>
    BY <2>1, <2>2 DEF TypeOK, files, syncs, Jobs
  <2>3. CASE /\ job.next <= Len(FileOrder)
             /\ \E part \in Flushed : PutFile(FileOrder[job.next], Only(job.rows, part))
    <3>1. PICK part \in Flushed : PutFile(FileOrder[job.next], Only(job.rows, part))
      BY <2>3
    <3>2. Only(job.rows, part) \in Listing
      BY <1>0, ListingsTyped
    <3>3. /\ exports' \in [Files -> Listing]
          /\ audited' \subseteq Files
          /\ saved' \in [Files -> [Customers -> Ages]]
      BY <2>3, <3>1, <3>2, NextFile, PutFileTyped
    <3>4. UNCHANGED <<canonical, suppression, audit>>
      BY <3>1 DEF PutFile
    <3> QED BY <2>1, <3>3, <3>4 DEF TypeOK, Jobs
  <2> QED BY <1>9, <2>2, <2>3 DEF Crash
<1>10. CASE UNCHANGED vars
  BY <1>10 DEF vars, files, syncs, TypeOK
<1> QED
  BY <1>1, <1>2, <1>3, <1>4, <1>5, <1>6, <1>7, <1>8, <1>9, <1>10 DEF Next

\* The variables of the model keep their types, and the exporter its place in
\* the list of files (exporter.py:204-223, simulator.py:221-446).
THEOREM DeliveryTyped == Spec => []TypeOK
<1> QED BY InitTyped, StepTyped, PTL DEF Spec

(* --------------------------- the export files -------------------------- *)
LEMMA PutFileAudit ==
  ASSUME TypeOK, AuditIsOfFile, NEW f \in Files, NEW rows, PutFile(f, rows)
  PROVE  AuditIsOfFile'
<1> SUFFICES ASSUME NEW g \in audited', NEW c \in Customers
             PROVE  /\ audit'[g][c].tenant = exports'[g][c]
                    /\ exports'[g][c] # Absent => audit'[g][c].status # "absent"
  BY DEF AuditIsOfFile
<1>1. g \in audited /\ g # f /\ g \in Files
  BY DEF PutFile, TypeOK
<1>2. exports'[g] = exports[g] /\ audit' = audit
  BY <1>1 DEF PutFile, TypeOK
<1> QED BY <1>1, <1>2 DEF AuditIsOfFile

(* ---------------------------- a report --------------------------------- *)
LEMMA NoFindings ==
  ASSUME TypeOK, NEW f \in Files, NEW t \in Tenants,
         Findings(f, t) = {}, HeldElsewhere(t) = {}
  PROVE  Shown(f, t) = Due(t)
<1> DEFINE shown == In(exports[f], t)
           known == In(canonical, t)
           held  == In(suppression, t)
<1>1. {"missing_eligible_row"} \X ((known \ held) \ shown) = {}
  BY DEF Findings
<1>2. {"unexpected_exported_row"} \X (shown \ known) = {}
  BY DEF Findings
<1>3. {"privacy_suppressed_row_exported"} \X (held \cap shown) = {}
  BY DEF Findings
<1>4. ASSUME NEW S, NEW k, {k} \X S = {} PROVE S = {}
  <2> SUFFICES ASSUME NEW x \in S PROVE FALSE
    OBVIOUS
  <2>1. <<k, x>> \in {k} \X S
    OBVIOUS
  <2> QED BY <1>4, <2>1
<1>5. (known \ held) \ shown = {} /\ shown \ known = {} /\ held \cap shown = {}
  BY <1>1, <1>2, <1>3, <1>4
<1>6. known \cap Listed(suppression) = known \cap held
  BY DEF HeldElsewhere, Listed, In
<1> HIDE DEF shown, known, held
<1>7. shown = known \ Listed(suppression)
  BY <1>5, <1>6
<1> QED BY <1>7 DEF Shown, Due, shown, known

LEMMA TenantIsNamed ==
  ASSUME TypeOK, Reconcile, NEW f \in Files, NEW t \in Tenants,
         Shown(f, t) # Due(t), HeldElsewhere(t) = {}
  PROVE  \/ \E r \in report' : r.file = f /\ r.tenant = t /\ r.findings # {}
         \/ Shown(f, t) = {} /\ Listed(exports[f]) # {}
<1>1. CASE t \in Examined(f)
  <2> DEFINE r == [file |-> f, tenant |-> t, variance |-> Variance(f, t),
                   findings |-> Findings(f, t)]
  <2>1. r \in report'
    <3> DEFINE OfFile(g) ==
          {[file |-> g, tenant |-> u, variance |-> Variance(g, u),
            findings |-> Findings(g, u)] : u \in Examined(g)}
    <3>1. report' = UNION {OfFile(g) : g \in Files}
      BY DEF Reconcile, Reconciled
    <3>2. r \in OfFile(f)
      BY <1>1
    <3> HIDE DEF OfFile, r
    <3> QED BY <3>1, <3>2
  <2>2. r.file = f /\ r.tenant = t /\ r.findings = Findings(f, t)
    OBVIOUS
  <2>3. Findings(f, t) # {}
    BY NoFindings
  <2> HIDE DEF r
  <2> QED BY <2>1, <2>2, <2>3
<1>2. CASE t \notin Examined(f) /\ Listed(exports[f]) # {}
  <2>1. Shown(f, t) = {}
    BY <1>2 DEF Examined, TenantsIn, Shown, In, Listed
  <2> QED BY <1>2, <2>1
<1>3. CASE t \notin Examined(f) /\ Listed(exports[f]) = {}
  <2>1. Shown(f, t) = {}
    BY <1>3 DEF Shown, In, Listed
  <2>2. In(canonical, t) = {}
    BY <1>3 DEF Examined, TenantsIn, In, Listed
  <2> QED BY <2>1, <2>2 DEF Due
<1> QED BY <1>1, <1>2, <1>3

LEMMA ReportNames ==
  ASSUME TypeOK, Reconcile PROVE MismatchIsNamed'
<1>1. UNCHANGED <<exports, canonical, suppression>>
  BY DEF Reconcile, files
<1> SUFFICES ASSUME NEW f \in Files, NEW t \in Tenants, Shown(f, t)' # Due(t)'
             PROVE  \/ \E r \in report' : r.file = f /\ r.tenant = t /\ r.findings # {}
                    \/ Shown(f, t)' = {} /\ Listed(exports[f])' # {}
                    \/ HeldElsewhere(t)' # {}
  BY DEF MismatchIsNamed
<1>2. /\ Shown(f, t)' = Shown(f, t) /\ Due(t)' = Due(t)
      /\ Listed(exports[f])' = Listed(exports[f]) /\ HeldElsewhere(t)' = HeldElsewhere(t)
  BY <1>1 DEF Shown, Due, HeldElsewhere, In, Listed
<1>3. CASE HeldElsewhere(t) = {}
  BY <1>2, <1>3, TenantIsNamed
<1>4. CASE HeldElsewhere(t) # {}
  BY <1>2, <1>4
<1> QED BY <1>3, <1>4

LEMMA RowsAreShown ==
  ASSUME TypeOK, AuditIsOfFile, audited = Files, NEW f \in Files, NEW t \in Tenants
  PROVE  /\ Rows(f, t, {"inserted", "updated", "failed", "skipped_unchanged"}) = Shown(f, t)
         /\ Attempted(f, t) = Shown(f, t)
<1>1. ASSUME NEW c \in Customers
      PROVE  /\ audit[f][c].status \in Statuses
             /\ audit[f][c].tenant = exports[f][c]
             /\ exports[f][c] # Absent => audit[f][c].status # "absent"
  <2>1. audit[f][c] \in [tenant : Tenants \cup {Absent}, status : Statuses]
    BY DEF TypeOK
  <2> QED BY <2>1 DEF AuditIsOfFile
<1>2. Attempted(f, t) = Shown(f, t)
  BY <1>1 DEF Attempted, Shown, In
<1>3. \A c \in Shown(f, t) :
        audit[f][c].status \in {"inserted", "updated", "failed", "skipped_unchanged"}
  BY <1>1 DEF Shown, In, Statuses
<1> QED BY <1>2, <1>3 DEF Rows

\* In files of one view no tenant's list differs from its customers' own.
LEMMA DueIsOwn ==
  ASSUME Settled, NEW t \in Tenants
  PROVE  /\ In(suppression, t) \subseteq In(canonical, t)
         /\ Due(t) \cap In(suppression, t) = {}
         /\ In(canonical, t) = Due(t) \cup In(suppression, t) \cup HeldElsewhere(t)
BY DEF Settled, Due, In, Listed, HeldElsewhere

LEMMA NoneElsewhere ==
  ASSUME TypeOK, Settled, NEW t \in Tenants
  PROVE  HeldElsewhere(t) = {}
<1> SUFFICES ASSUME NEW c \in HeldElsewhere(t) PROVE FALSE
  OBVIOUS
<1>1. /\ c \in Customers /\ canonical[c] = t
      /\ suppression[c] # t /\ suppression[c] # Absent
  BY DEF HeldElsewhere, In
<1>2. suppression[c] \in Tenants
  BY <1>1 DEF TypeOK, Listing
<1>3. c \in In(suppression, suppression[c])
  BY <1>1 DEF In
<1>4. c \in In(canonical, suppression[c])
  BY <1>2, <1>3 DEF Settled
<1> QED BY <1>1, <1>4 DEF In

\* The counts of the reconciliation of files of one view and the audit of them.
LEMMA CountsBalance ==
  ASSUME TypeOK, AuditIsOfFile, Settled, audited = Files,
         NEW f \in Files, NEW t \in Tenants
  PROVE  Variance(f, t) = 0
<1> DEFINE shown == Shown(f, t)
           held  == In(suppression, t)
<1>1. /\ In(canonical, t) = shown \cup held
      /\ shown \cap held = {}
  <2>1. Shown(f, t) = Due(t)
    BY DEF Settled
  <2> QED BY <2>1, DueIsOwn, NoneElsewhere
<1>2. IsFiniteSet(shown) /\ IsFiniteSet(held)
  <2>1. shown \subseteq Customers /\ held \subseteq Customers
    BY DEF Shown, In
  <2> QED BY <2>1, FS_Subset
<1>3. /\ Cardinality(shown \cup held) = Cardinality(shown) + Cardinality(held)
      /\ Cardinality(shown) \in Nat
      /\ Cardinality(held) \in Nat
  <2>1. Cardinality(shown) \in Nat /\ Cardinality(held) \in Nat
    BY <1>2, FS_CardinalityType
  <2>2. Cardinality({}) = 0
    BY FS_EmptySet
  <2>3. Cardinality(shown \cup held) =
          Cardinality(shown) + Cardinality(held) - Cardinality(shown \cap held)
    BY <1>2, FS_Union
  <2>4. Cardinality(shown \cap held) = 0
    BY <1>1, <2>2, Zenon
  <2> HIDE DEF shown, held
  <2> QED BY <2>1, <2>3, <2>4
<1>4. Dispositions(f, t) = Cardinality(shown) + Cardinality(held)
  <2>1. Dispositions(f, t) =
          Cardinality(shown) + Cardinality(held)
          + Larger(0, Cardinality(shown) - Cardinality(shown))
    BY RowsAreShown DEF Dispositions, Shown
  <2> HIDE DEF shown, held
  <2>2. Larger(0, Cardinality(shown) - Cardinality(shown)) = 0
    BY <1>3 DEF Larger
  <2> QED BY <1>3, <2>1, <2>2
<1>5. Variance(f, t) = Cardinality(shown \cup held) - Dispositions(f, t)
  BY <1>1 DEF Variance
<1> HIDE DEF shown, held
<1> QED BY <1>3, <1>4, <1>5

LEMMA NothingFound ==
  ASSUME TypeOK, Settled, NEW f \in Files, NEW t \in Tenants
  PROVE  Findings(f, t) = {}
<1> DEFINE shown == In(exports[f], t)
           known == In(canonical, t)
           held  == In(suppression, t)
           strays == {c \in shown : canonical[c] \notin {t, Absent}}
<1>1. shown = Due(t)
  BY DEF Settled, Shown
<1>2. (known \ held) \ shown = {} /\ shown \ known = {} /\ held \cap shown = {}
  BY <1>1, DueIsOwn, NoneElsewhere DEF Due
<1>3. strays = {}
  BY <1>2 DEF In
<1>4. Findings(f, t) = ({"missing_eligible_row"} \X ((known \ held) \ shown))
      \cup ({"unexpected_exported_row"} \X (shown \ known))
      \cup ({"privacy_suppressed_row_exported"} \X (held \cap shown))
      \cup ({"wrong_tenant_row"} \X strays)
  BY DEF Findings
<1>5. \A k : {k} \X {} = {}
  OBVIOUS
<1> HIDE DEF shown, known, held, strays
<1> QED BY <1>2, <1>3, <1>4, <1>5

LEMMA ReportIsClean ==
  ASSUME TypeOK, AuditIsOfFile, Reconcile PROVE NoFalseAlarm'
<1> SUFFICES ASSUME Settled, audited = Files, NEW r \in report'
             PROVE  r.variance = 0 /\ r.findings = {}
  <2>1. UNCHANGED <<exports, canonical, suppression, audited>>
    BY DEF Reconcile, Reconciled, files, syncs
  <2>2. Settled' <=> Settled
    BY <2>1 DEF Settled, Shown, Due
  <2> QED BY <2>1, <2>2 DEF NoFalseAlarm
<1> DEFINE Row(f, t) ==
             [file |-> f, tenant |-> t, variance |-> Variance(f, t),
              findings |-> Findings(f, t)]
<1>0. PICK f \in Files : r \in {Row(f, t) : t \in Examined(f)}
  BY DEF Reconcile, Reconciled
<1>1. PICK t \in Examined(f) :
        r = [file |-> f, tenant |-> t, variance |-> Variance(f, t),
             findings |-> Findings(f, t)]
  BY <1>0
<1>2. t \in Tenants
  <2>1. \A list \in Listing : TenantsIn(list) \subseteq Tenants
    BY DEF TenantsIn, Listed, Listing
  <2>2. exports[f] \in Listing /\ canonical \in Listing
    BY DEF TypeOK
  <2> QED BY <1>1, <2>1, <2>2 DEF Examined
<1>3. Variance(f, t) = 0 /\ Findings(f, t) = {}
  BY <1>2, CountsBalance, NothingFound
<1> QED BY <1>1, <1>3

(* --------------------------- the invariant ----------------------------- *)
LEMMA InitInv == Init => IndInv
<1> SUFFICES ASSUME Init PROVE IndInv
  OBVIOUS
<1>1. AuditIsOfFile /\ MismatchIsNamed /\ NoFalseAlarm
  BY DEF Init, AuditIsOfFile, MismatchIsNamed, NoFalseAlarm
<1> QED BY <1>1, InitTyped DEF IndInv

\* The step changes neither the files nor what was made of them.
LEMMA SameReport ==
  ASSUME MismatchIsNamed, NoFalseAlarm, Quiet
  PROVE  MismatchIsNamed' /\ NoFalseAlarm'
<1>1. UNCHANGED <<pc, canonical, exports, suppression, audited, report>>
  BY DEF Quiet, files
<1> QED BY <1>1 DEF MismatchIsNamed, NoFalseAlarm, Settled, Shown, Due, HeldElsewhere

\* The step ends at no report.
LEMMA NoReport ==
  ASSUME pc' # "reported" PROVE MismatchIsNamed' /\ NoFalseAlarm'
BY DEF MismatchIsNamed, NoFalseAlarm

LEMMA SameAudit ==
  ASSUME AuditIsOfFile, UNCHANGED <<exports, audit, audited>>
  PROVE  AuditIsOfFile'
BY DEF AuditIsOfFile

LEMMA StepInv == IndInv /\ [Next]_vars => IndInv'
<1> SUFFICES ASSUME IndInv, [Next]_vars PROVE IndInv'
  OBVIOUS
<1> USE DEF IndInv
<1>0. TypeOK'
  BY StepTyped
<1>1. ASSUME NEW w \in Worlds, Change(w) PROVE IndInv'
  BY <1>0, <1>1, SameReport, SameAudit DEF Change, Quiet, files, syncs
<1>2. CASE Resolve
  BY <1>0, <1>2, NoReport, SameAudit DEF Resolve, syncs
<1>3. CASE StartExport
  BY <1>0, <1>3, NoReport, SameAudit DEF StartExport, files, syncs
<1>4. CASE WriteFile
  <2>1. AuditIsOfFile'
    BY <1>4, NextFile, PutFileAudit DEF WriteFile
  <2> QED BY <1>0, <1>4, <2>1, NoReport DEF WriteFile
<1>5. CASE WriteSuppression
  BY <1>0, <1>5, NoReport, SameAudit DEF WriteSuppression, syncs
<1>6. CASE Sync
  <2>1. AuditIsOfFile'
    BY <1>6 DEF Sync, StatusOf, AuditIsOfFile, files
  <2> QED BY <1>0, <1>6, <2>1, NoReport DEF Sync
<1>7. CASE SaveState
  BY <1>0, <1>7, NoReport, SameAudit DEF SaveState, files
<1>8. CASE Reconcile
  BY <1>0, <1>8, ReportNames, ReportIsClean, SameAudit
  DEF Reconcile, Reconciled, files, syncs
<1>9. CASE Crash
  <2>1. pc' = "idle"
    BY <1>9 DEF Crash
  <2>2. CASE UNCHANGED <<files, syncs>>
    BY <1>0, <2>1, <2>2, NoReport, SameAudit DEF files, syncs
  <2>3. CASE /\ job.next <= Len(FileOrder)
             /\ \E part \in Flushed : PutFile(FileOrder[job.next], Only(job.rows, part))
    BY <1>0, <2>1, <2>3, NoReport, NextFile, PutFileAudit
  <2> QED BY <1>9, <2>2, <2>3 DEF Crash
<1>10. CASE UNCHANGED vars
  BY <1>0, <1>10, SameReport, SameAudit DEF vars, Quiet, files, syncs
<1> QED
  BY <1>1, <1>2, <1>3, <1>4, <1>5, <1>6, <1>7, <1>8, <1>9, <1>10 DEF Next

(* ---------------------------- the theorems ----------------------------- *)

\* The reconciliation names a customer wherever an export file differs from what
\* the files on disk call for, but in a tenant the file has lost all rows of
\* while it has rows of another, and where the list withholds a customer under a
\* tenant it had before (reconciliation.py:137-141, 197-295).
THEOREM MismatchesAreNamed == Spec => []MismatchIsNamed
<1>1. IndInv => MismatchIsNamed
  BY DEF IndInv
<1> QED BY InitInv, StepInv, <1>1, PTL DEF Spec

\* Files of one view and the audit of them balance and give no finding, for any
\* number of customers, tenants and destinations (reconciliation.py:163-173).
THEOREM ReportsAreExact == Spec => []NoFalseAlarm
<1>1. IndInv => NoFalseAlarm
  BY DEF IndInv
<1> QED BY InitInv, StepInv, <1>1, PTL DEF Spec
=============================================================================
