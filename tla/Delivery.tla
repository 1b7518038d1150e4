------------------------------- MODULE Delivery -------------------------------
(***************************************************************************)
(* The files activation leaves behind and who reads them: the resolver's    *)
(* list of customers, the exporter's files and suppression list             *)
(* (reverse_etl/exporter.py), the sync's audit and state                    *)
(* (destinations/simulator.py), and the reconciliation of all of them       *)
(* (reconciliation.py).                                                     *)
(*                                                                         *)
(* The commands run one at a time but in any order: the hourly DAG runs     *)
(* them in sequence, the Makefile and the runbook one by one, and a crash   *)
(* leaves the files of different runs side by side.  How consents decide    *)
(* who is withheld, the retries of a row and the privacy gate are in        *)
(* Activation; here the events are what they resolve to: a tenant for each  *)
(* customer, and those to withhold, which change from outside.              *)
(***************************************************************************)
EXTENDS Integers, Sequences, FiniteSets

CONSTANTS
  Customers,
  Tenants,         \* tenant_unknown among them: of a customer with no active record
  FileOrder,       \* the export files, in the order write_exports has them
  Gated,           \* churn_risk_export.csv, the file the DAG's expectations read
  Flushed,         \* the rows a write that dies may have left in its file
  Rejects,         \* rows the destination of a file refuses, a hash of both parts
  Worlds,          \* what the events and the deletion requests may say
  MaxChanges,      \* bound: changes of what they say
  MaxFaults        \* bound: crashes

Files == {FileOrder[i] : i \in DOMAIN FileOrder}
Absent == "absent"

\* A file of customers: the tenant on the row of each, if it has one.
Listing == [Customers -> Tenants \cup {Absent}]
Empty == [c \in Customers |-> Absent]
In(list, t) == {c \in Customers : list[c] = t}
Listed(list) == {c \in Customers : list[c] # Absent}
Only(list, S) == [c \in Customers |-> IF c \in S THEN list[c] ELSE Absent]

ASSUME DeliveryAssumption ==
  /\ IsFiniteSet(Customers)
  /\ Absent \notin Tenants
  /\ FileOrder \in Seq(Files)
  /\ Gated \in Files
  /\ Flushed \subseteq SUBSET Customers
  /\ Rejects \in [Files -> SUBSET (Customers \X Tenants)]
  /\ Worlds \subseteq [known : Listing, withheld : SUBSET Customers]
  /\ MaxChanges \in Nat
  /\ MaxFaults \in Nat

VARIABLES
  world,        \* customers the events resolve to, and those to withhold
  canonical,    \* dim_customer_canonical.csv
  pc,           \* the command that runs
  job,          \* what the exporter computed, and the file it comes to
  exports,      \* rows of each export file; none of one that does not exist
  suppression,  \* activation_suppression_list.csv
  audit,        \* payload_audit.csv: tenant and status of each row of each file
  audited,      \* files not written since (to state properties)
  saved,        \* destination_sync_state.csv, by age of the payload
  report,       \* activation_reconciliation.csv and its findings
  changes, faults

files == <<canonical, exports, suppression>>
syncs == <<audit, audited, saved>>
vars == <<world, files, pc, job, syncs, report, changes, faults>>

Idle == {"idle", "reported"}
Ages == {"none", "older", "current"}
Statuses == {"absent", "inserted", "updated", "skipped_unchanged", "failed"}

Aged(a) == IF a = "current" THEN "older" ELSE a
NoJob == [rows |-> Empty, withheld |-> Empty, next |-> 1]
NoRow == [tenant |-> Absent, status |-> "absent"]

Init ==
  /\ world \in Worlds
  /\ canonical = Empty
  /\ pc = "idle"
  /\ job = NoJob
  /\ exports = [f \in Files |-> Empty]
  /\ suppression = Empty
  /\ audit = [f \in Files |-> [c \in Customers |-> NoRow]]
  /\ audited = {}
  /\ saved = [f \in Files |-> [c \in Customers |-> "none"]]
  /\ report = {}
  /\ changes = 0
  /\ faults = 0

-----------------------------------------------------------------------------
(* The customers, and the export *)

\* Events are ingested, consents and deletion requests recorded.  A customer may
\* merge away, or lose its last active record and with it the tenant of its row.
Change(w) ==
  /\ changes < MaxChanges
  /\ w # world
  /\ world' = w
  /\ changes' = changes + 1
  /\ UNCHANGED <<files, pc, job, syncs, report, faults>>

\* The resolver writes its customers.
CanonicalOf_Appended(known) ==   \* mutant: customers that merged away stay
  [c \in Customers |-> IF known[c] # Absent THEN known[c] ELSE canonical[c]]
CanonicalOf(known) == known
Resolve ==
  /\ pc \in Idle
  /\ pc' = "idle"
  /\ canonical' = CanonicalOf(world.known)
  /\ UNCHANGED <<world, job, exports, suppression, syncs, report, changes, faults>>

\* The exporter resolves the events again and keeps what it computes.
ExportRows(w) == Only(w.known, Customers \ w.withheld)
StartExport ==
  /\ pc \in Idle
  /\ pc' = "exporting"
  /\ job' = [rows |-> ExportRows(world), withheld |-> Only(world.known, world.withheld),
             next |-> 1]
  /\ UNCHANGED <<world, files, syncs, report, changes, faults>>

\* A file is written anew.  Its rows have a new timestamp, so no payload in the
\* state of the sync equals one of them.
PutFile(f, rows) ==
  /\ exports' = [exports EXCEPT ![f] = rows]
  /\ audited' = audited \ {f}
  /\ saved' = [saved EXCEPT ![f] = [c \in Customers |-> Aged(saved[f][c])]]
  /\ UNCHANGED <<canonical, suppression, audit>>

WriteFile ==
  /\ pc = "exporting"
  /\ job.next <= Len(FileOrder)
  /\ PutFile(FileOrder[job.next], job.rows)
  /\ job' = [job EXCEPT !.next = @ + 1]
  /\ UNCHANGED <<world, pc, report, changes, faults>>

WriteSuppression ==
  /\ pc = "exporting"
  /\ job.next = Len(FileOrder) + 1
  /\ suppression' = job.withheld
  /\ job' = NoJob
  /\ pc' = "idle"
  /\ UNCHANGED <<world, canonical, exports, syncs, report, changes, faults>>

-----------------------------------------------------------------------------
(* The sync *)

\* The destination's bucket is a hash of the tenant too, the key of the state not.
StatusOf(f, c) ==
  IF exports[f][c] = Absent THEN "absent"
  ELSE IF <<c, exports[f][c]>> \in Rejects[f] THEN "failed"
  ELSE IF saved[f][c] = "current" THEN "skipped_unchanged"
  ELSE IF saved[f][c] = "older" THEN "updated"
  ELSE "inserted"

\* payload_audit.csv is written after the last row of the last file.
Sync ==
  /\ pc \in Idle
  /\ pc' = "syncing"
  /\ audit' = [f \in Files |-> [c \in Customers |->
                 [tenant |-> exports[f][c], status |-> StatusOf(f, c)]]]
  /\ audited' = Files
  /\ UNCHANGED <<world, files, job, saved, report, changes, faults>>

\* destination_sync_state.csv is the last file of the sync.
SaveState ==
  /\ pc = "syncing"
  /\ saved' = [f \in Files |-> [c \in Customers |->
                 IF audit[f][c].status \in {"absent", "failed"} THEN saved[f][c]
                 ELSE "current"]]
  /\ pc' = "idle"
  /\ UNCHANGED <<world, files, job, audit, audited, report, changes, faults>>

-----------------------------------------------------------------------------
(* The reconciliation *)

TenantsIn(list) == {list[c] : c \in Listed(list)}

\* _tenants_for: the tenants of the export, or of every customer if it has none.
Examined_OnlyExported(f) == TenantsIn(exports[f])   \* mutant: an empty export is not examined
Examined(f) ==
  IF Listed(exports[f]) # {} THEN TenantsIn(exports[f]) ELSE TenantsIn(canonical)

Attempted(f, t) == {c \in Customers : audit[f][c].tenant = t}
Rows(f, t, statuses) == {c \in Attempted(f, t) : audit[f][c].status \in statuses}
Larger(a, b) == IF a > b THEN a ELSE b

\* A row exported and not attempted is skipped.
Dispositions_NoDuplicates(f, t) ==   \* mutant: a row sent before is in no count
  Cardinality(Rows(f, t, {"inserted", "updated", "failed"}))
  + Cardinality(In(suppression, t))
  + Larger(0, Cardinality(In(exports[f], t)) - Cardinality(Attempted(f, t)))
Dispositions(f, t) ==
  Cardinality(Rows(f, t, {"inserted", "updated", "failed", "skipped_unchanged"}))
  + Cardinality(In(suppression, t))
  + Larger(0, Cardinality(In(exports[f], t)) - Cardinality(Attempted(f, t)))
Variance(f, t) == Cardinality(In(canonical, t)) - Dispositions(f, t)

\* The other findings have no occasion: the exporter withholds a customer without
\* an identifier to match, and writes one row for a customer.
Findings(f, t) ==
  LET shown == In(exports[f], t)
      known == In(canonical, t)
      held  == In(suppression, t)
  IN  ({"missing_eligible_row"} \X ((known \ held) \ shown))
      \cup ({"unexpected_exported_row"} \X (shown \ known))
      \cup ({"privacy_suppressed_row_exported"} \X (held \cap shown))
      \cup ({"wrong_tenant_row"} \X {c \in shown : canonical[c] \notin {t, Absent}})

Reconciled ==
  UNION {{[file |-> f, tenant |-> t, variance |-> Variance(f, t), findings |-> Findings(f, t)] :
            t \in Examined(f)} : f \in Files}

\* The command: reconcile, and the report in place of the one before.
Reconcile ==
  /\ pc \in Idle
  /\ pc' = "reported"
  /\ report' = Reconciled
  /\ UNCHANGED <<world, files, job, syncs, changes, faults>>

-----------------------------------------------------------------------------
(* Crashes, and the schedule *)

\* A command dies: between two of its files, or with a part of the rows of one.
Crash ==
  /\ pc \notin Idle
  /\ faults < MaxFaults
  /\ faults' = faults + 1
  /\ pc' = "idle"
  /\ job' = NoJob
  /\ \/ UNCHANGED <<files, syncs>>
     \/ /\ pc = "exporting"
        /\ job.next <= Len(FileOrder)
        /\ \E part \in Flushed : PutFile(FileOrder[job.next], Only(job.rows, part))
  /\ UNCHANGED <<world, report, changes>>

Next ==
  \/ \E w \in Worlds : Change(w)
  \/ Resolve \/ StartExport \/ WriteFile \/ WriteSuppression
  \/ Sync \/ SaveState \/ Reconcile
  \/ Crash

Spec == Init /\ [][Next]_vars

\* The DAG's expectations come between its resolver and its exporter, and ask for
\* a row in the export of an earlier run; an hour that fails them ends there.
GateOpen == Listed(exports[Gated]) # {}

\* A command that started comes to its end.  The hourly DAG starts the resolver
\* each time, and what comes after the expectations while they hold, whatever an
\* operator runs in between.
FairSpec ==
  /\ Spec
  /\ WF_vars(WriteFile \/ WriteSuppression \/ SaveState)
  /\ SF_vars(Resolve)
  /\ SF_vars(GateOpen /\ StartExport)
  /\ SF_vars(GateOpen /\ Sync)
  /\ SF_vars(GateOpen /\ Reconcile)

-----------------------------------------------------------------------------
(* Properties *)

\* Types; the files an exporter has not come to are as it found them.
TypeOK ==
  /\ world \in Worlds
  /\ canonical \in Listing
  /\ pc \in Idle \cup {"exporting", "syncing"}
  /\ job \in [rows : Listing, withheld : Listing, next : 1..(Len(FileOrder) + 1)]
  /\ exports \in [Files -> Listing]
  /\ suppression \in Listing
  /\ audit \in [Files -> [Customers -> [tenant : Tenants \cup {Absent}, status : Statuses]]]
  /\ audited \subseteq Files
  /\ saved \in [Files -> [Customers -> Ages]]
  /\ changes \in 0..MaxChanges
  /\ faults \in 0..MaxFaults

\* Customers of a tenant that no row of the list withholds, whatever its tenant.
Due(t) == In(canonical, t) \ Listed(suppression)
Shown(f, t) == In(exports[f], t)
HeldElsewhere(t) == {c \in In(canonical, t) : suppression[c] \notin {t, Absent}}

\* Whatever commands ran before it in whatever order, and whichever of them died:
\* if an export file is not what the customer and suppression files on disk call
\* for in a tenant, the reconciliation names a customer of that tenant.  It has two
\* blind spots: a tenant the file has no row of while it has some of another
\* (reconciliation.py:137, where docs/activation_reconciliation.md promises the
\* check for each tenant), and a customer the list withholds under the tenant it
\* had before (reconciliation.py:119, 141).
MismatchIsNamed ==
  pc = "reported" =>
    \A f \in Files, t \in Tenants :
      Shown(f, t) # Due(t) =>
        \/ \E r \in report : r.file = f /\ r.tenant = t /\ r.findings # {}
        \/ Shown(f, t) = {} /\ Listed(exports[f]) # {}
        \/ HeldElsewhere(t) # {}

\* Files of one view: what every file shows is what the customers and the
\* suppression list call for, and the list has no one the customers lack.
Settled ==
  \A t \in Tenants :
    /\ In(suppression, t) \subseteq In(canonical, t)
    /\ \A f \in Files : Shown(f, t) = Due(t)

\* The reconciliation of such files is clean to the last count, whether rows were
\* sent, refused, skipped, or the sync died before it saved its state
\* (reconciliation.py:8-10).  It needs the audit to be of the files on disk: after
\* an export and before its sync the counts of the last sync are added to it.
NoFalseAlarm ==
  pc = "reported" /\ Settled /\ audited = Files =>
    \A r \in report : r.variance = 0 /\ r.findings = {}

\* The strengthening steps preserve: the audit of a file not written since has a
\* row for each of its rows, under the same tenant.
AuditIsOfFile ==
  \A f \in audited, c \in Customers :
    /\ audit[f][c].tenant = exports[f][c]
    /\ exports[f][c] # Absent => audit[f][c].status # "absent"

IndInv == TypeOK /\ AuditIsOfFile /\ MismatchIsNamed /\ NoFalseAlarm

\* Once events, consents and crashes come to rest, the exports become what they
\* call for, and every report from then on says so: no leftover of an earlier run
\* or of a crash makes it go on about a mismatch.  Or the file the expectations
\* read stays without a row, and the DAG stops before its exporter for good: an
\* hour in which everybody is withheld is enough, and no later consent ends it.
Clean == \A r \in report : r.variance = 0 /\ r.findings = {}
ReportsSettle ==
  \/ <>[](report # {} /\ Clean /\ \A f \in Files : exports[f] = ExportRows(world))
  \/ <>[]~GateOpen
=============================================================================
