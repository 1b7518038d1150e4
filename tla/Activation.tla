------------------------------ MODULE Activation ------------------------------
(***************************************************************************)
(* Privacy-gated activation: consent events and deletion requests on one    *)
(* side (privacy/), the hourly run of export, gate and destination sync on  *)
(* the other (reverse_etl/exporter.py, scripts/verify_activation_privacy.py,*)
(* reverse_etl/destinations/simulator.py, ordered by airflow/dags), and the *)
(* files between them, which a crash of any task may leave as they are.     *)
(*                                                                         *)
(* One destination stands for the four, whose rows and keys do not meet.    *)
(* Left out: the scores of a row, the logs, and the contents of a payload,  *)
(* of which only its difference from the last one sent matters: a row holds *)
(* export_timestamp, so its hash is new in every export.                    *)
(***************************************************************************)
EXTENDS Naturals, FiniteSets

CONSTANTS
  Records,            \* records of marketing_engagement
  Customers,          \* canonical ids
  Resolutions,        \* the customer of each record, as resolver runs may find it
  Reachable,          \* customers with an email or a phone
  Class,              \* how the destination answers a customer's row
  MaxRetries,         \* max_retries of the DestinationConfig
  MaxTime,            \* bound: times of consent events
  MaxFaults           \* bound: tasks that crash

Classes == {"plain", "invalid", "limited", "flaky"}

ASSUME ActivationAssumption ==
  /\ Resolutions \subseteq [Records -> Customers]
  /\ Resolutions # {}
  /\ Reachable \subseteq Customers
  /\ Class \in [Customers -> Classes]
  /\ MaxRetries \in Nat \ {0}
  /\ MaxTime \in Nat
  /\ MaxFaults \in Nat

Times == 1..MaxTime
ConsentEvent == [record : Records, at : Times, granted : BOOLEAN]

VARIABLES
  consents,   \* marketing events landed, in no order: readers sort by time
  owner,      \* the customer of each record, as the landed events resolve
  listed,     \* customers in dim_customer_canonical.csv, which the API reads
  deletions,  \* customers in deletion_requests.csv
  pc,         \* stage of the current run
  computed,   \* suppressed customers the exporter holds before it writes them
  exports,    \* customers in the export files
  suppressed, \* customers in activation_suppression_list.csv
  todo,       \* rows the sync has not come to
  memory,     \* destination_state in the sync process
  saved,      \* destination_sync_state.csv
  dest,       \* what the destination was sent last, per customer
  sent,       \* how often it was sent the row of this export
  faults

inputs == <<consents, owner, listed, deletions>>
files == <<exports, suppressed>>
vars == <<consents, owner, listed, deletions, pc, computed, exports, suppressed,
          todo, memory, saved, dest, sent, faults>>

Stages == {"idle", "writing", "exported", "approved", "syncing", "synced"}
Payload == {"none", "older", "current"}   \* relative to the export on disk

-----------------------------------------------------------------------------
\* build_consent_history: the newest event of any record of the customer wins.
Known == {owner[r] : r \in Records}
EventsOf(c) == {e \in consents : owner[e.record] = c}
Granted(c) ==
  \E e \in EventsOf(c) : e.granted /\ \A f \in EventsOf(c) : f.at <= e.at

\* suppression_reason, and the deletion scopes it is given.
Withheld(c, requests) == c \in requests \/ ~Granted(c) \/ c \notin Reachable
SuppressedNow(requests) == {c \in Known : Withheld(c, requests)}

\* exporter.main reads deletion_requests.csv.
RequestsRead_Never == {}   \* mutant: the requests are left out, as in run_local_pipeline.py
RequestsRead == deletions

\* _classify_attempt, and the retry loop around it.
Outcome(c, attempt) ==
  CASE Class[c] = "invalid"                 -> "permanent"
    [] Class[c] = "limited" /\ attempt < 2  -> "retry"
    [] Class[c] = "flaky" /\ attempt < 3    -> "retry"
    [] OTHER                                -> "ok"
Succeeds_OneAttemptLess(c) ==   \* mutant: range(1, max_retries)
  \E a \in 1..(MaxRetries - 1) :
    Outcome(c, a) = "ok" /\ \A b \in 1..(a - 1) : Outcome(c, b) = "retry"
Succeeds(c) ==
  \E a \in 1..MaxRetries :
    Outcome(c, a) = "ok" /\ \A b \in 1..(a - 1) : Outcome(c, b) = "retry"

Aged(p) == IF p = "current" THEN "older" ELSE p

Init ==
  /\ consents = {}
  /\ owner \in Resolutions
  /\ listed = {}
  /\ deletions = {}
  /\ pc = "idle"
  /\ computed = {}
  /\ exports = {}
  /\ suppressed = {}
  /\ todo = {}
  /\ memory = [c \in Customers |-> "none"]
  /\ saved = [c \in Customers |-> "none"]
  /\ dest = [c \in Customers |-> "none"]
  /\ sent = [c \in Customers |-> 0]
  /\ faults = 0

-----------------------------------------------------------------------------
run == <<pc, computed, files, todo, memory, saved, dest, sent, faults>>

\* A consent event lands, early or late; no two have the same place in the
\* order by (event_timestamp, event_id).
LandConsent(r, t, g) ==
  /\ \A e \in consents : e.at # t
  /\ consents' = consents \cup {[record |-> r, at |-> t, granted |-> g]}
  /\ UNCHANGED <<owner, listed, deletions, run>>

\* The resolver finds other customers: new evidence merges or renames them.
Resolve(f) ==
  /\ owner' = f
  /\ UNCHANGED <<consents, listed, deletions, run>>

\* The resolve_identity task writes what it found.
WriteIdentity ==
  /\ listed' = Known
  /\ UNCHANGED <<consents, owner, deletions, run>>

\* POST /privacy/delete-request for a customer of dim_customer_canonical.csv,
\* which may be behind the events by a run of the resolver.
RequestDeletion(c) ==
  /\ c \in listed
  /\ deletions' = deletions \cup {c}
  /\ UNCHANGED <<consents, owner, listed, run>>

\* The exporter computes its rows and writes the export files.  Their timestamp
\* is new, so what was sent before is older than these rows.
ExportRows == Known \ SuppressedNow(RequestsRead)
Export ==
  /\ pc = "idle"
  /\ pc' = "writing"
  /\ computed' = SuppressedNow(RequestsRead)
  /\ exports' = ExportRows
  /\ saved' = [c \in Customers |-> Aged(saved[c])]
  /\ dest' = [c \in Customers |-> Aged(dest[c])]
  /\ sent' = [c \in Customers |-> 0]
  /\ UNCHANGED <<inputs, suppressed, todo, memory, faults>>

\* write_privacy_activation_outputs.
Publish ==
  /\ pc = "writing"
  /\ pc' = "exported"
  /\ suppressed' = computed
  /\ computed' = {}
  /\ UNCHANGED <<inputs, exports, todo, memory, saved, dest, sent, faults>>

\* verify_activation_privacy.py: a leak fails the run.
Gate ==
  /\ pc = "exported"
  /\ pc' = IF suppressed \cap exports = {} THEN "approved" ELSE "idle"
  /\ UNCHANGED <<inputs, computed, files, todo, memory, saved, dest, sent, faults>>

\* _load_existing_state.
Loaded_Nothing == [c \in Customers |-> "none"]   \* mutant: the state file is not read
Loaded == saved
RowsToSync == exports
StartSync ==
  /\ pc = "approved"
  /\ pc' = "syncing"
  /\ todo' = RowsToSync
  /\ memory' = Loaded
  /\ UNCHANGED <<inputs, computed, files, saved, dest, sent, faults>>

\* A row whose hash the state holds is skipped.
Unchanged(c) == memory[c] = "current"
Recorded_AlsoFailed(c) == TRUE   \* mutant: the state is updated before the attempt
Recorded(c) == Succeeds(c)

\* One row of the export with all its attempts.
SyncRow(c) ==
  /\ pc = "syncing"
  /\ c \in todo
  /\ todo' = todo \ {c}
  /\ memory' = IF Recorded(c) THEN [memory EXCEPT ![c] = "current"] ELSE memory
  /\ IF Succeeds(c) /\ ~Unchanged(c)
       THEN /\ dest' = [dest EXCEPT ![c] = "current"]
            /\ sent' = [sent EXCEPT ![c] = @ + 1]
       ELSE UNCHANGED <<dest, sent>>
  /\ UNCHANGED <<inputs, pc, computed, files, saved, faults>>

\* destination_sync_state.csv is written once, after the last row.
FinishSync ==
  /\ pc = "syncing"
  /\ todo = {}
  /\ pc' = "synced"
  /\ saved' = memory
  /\ memory' = [c \in Customers |-> "none"]
  /\ UNCHANGED <<inputs, computed, files, todo, dest, sent, faults>>

\* The sync task is cleared and runs again on the same export.
Rerun ==
  /\ pc = "synced"
  /\ pc' = "approved"
  /\ UNCHANGED <<inputs, computed, files, todo, memory, saved, dest, sent, faults>>

\* The next hourly run.
NextRun ==
  /\ pc = "synced"
  /\ pc' = "idle"
  /\ UNCHANGED <<inputs, computed, files, todo, memory, saved, dest, sent, faults>>

\* A task dies.  It is retried from its start, or its run is given up.
Crash ==
  /\ pc \in {"writing", "syncing"}
  /\ faults < MaxFaults
  /\ pc' \in IF pc = "syncing" THEN {"approved", "idle"} ELSE {"idle"}
  /\ computed' = {}
  /\ todo' = {}
  /\ memory' = [c \in Customers |-> "none"]
  /\ faults' = faults + 1
  /\ UNCHANGED <<inputs, files, saved, dest, sent>>

Pipeline ==
  Export \/ Publish \/ Gate \/ StartSync \/ (\E c \in Customers : SyncRow(c)) \/ FinishSync

Next ==
  \/ \E r \in Records, t \in Times, g \in BOOLEAN : LandConsent(r, t, g)
  \/ \E c \in Customers : RequestDeletion(c)
  \/ (\E f \in Resolutions : Resolve(f)) \/ WriteIdentity
  \/ Pipeline \/ Rerun \/ NextRun \/ Crash

Spec == Init /\ [][Next]_vars

\* Airflow carries a run to its end and starts one every hour, whatever an
\* operator runs again in between.
FairSpec == Spec /\ WF_vars(Pipeline) /\ SF_vars(NextRun)
-----------------------------------------------------------------------------
(* Properties *)

\* Types; the sync only has rows of the export before it.
TypeOK ==
  /\ consents \subseteq ConsentEvent
  /\ owner \in [Records -> Customers]
  /\ listed \subseteq Customers
  /\ deletions \subseteq Customers
  /\ pc \in Stages
  /\ computed \subseteq Customers
  /\ exports \subseteq Customers
  /\ suppressed \subseteq Customers
  /\ todo \subseteq exports
  /\ memory \in [Customers -> Payload]
  /\ saved \in [Customers -> Payload]
  /\ dest \in [Customers -> Payload]
  /\ sent \in [Customers -> Nat]
  /\ faults \in 0..MaxFaults

\* From the end of an export on, the export files and the suppression list on
\* disk come from one view of consents and deletions, whatever crashed between
\* their writes: the gate never has to stop a run (exporter.py:383-398).
FilesAgree ==
  pc \notin {"idle", "writing"} => suppressed \cap exports = {}

\* A row is skipped only if the destination holds exactly that row, also after a
\* crash that lost the state of a run (simulator.py:265-267, 428-445).
SkipIsSound ==
  \A c \in Customers :
    /\ saved[c] = "current" => dest[c] = "current"
    /\ memory[c] = "current" => dest[c] = "current"

\* The destination is sent one payload again only after a crash
\* (ACT-UAT-004 of docs/activation_reconciliation.md, for any number of reruns).
SentOncePerCrash ==
  \A c \in Customers : sent[c] <= 1 + faults

\* When a sync ends, the destination holds every row of the export but those it
\* rejects for good: every transient failure is over within max_retries.
SyncIsComplete ==
  pc = "synced" =>
    \A c \in exports : dest[c] = "current" \/ Class[c] = "invalid"

\* The strengthening of these invariants that steps preserve: what the exporter
\* has still to write agrees with what it wrote; only a running sync has rows
\* to do and a state in memory; a row is sent once more than there were crashes
\* only while the state in use holds it; and a sync has sent the rows it came to.
ComputedAgrees == pc = "writing" => computed \cap exports = {}
MemoryIsLocal ==
  pc # "syncing" => todo = {} /\ \A c \in Customers : memory[c] = "none"
Held(c) == IF pc = "syncing" THEN memory[c] = "current" ELSE saved[c] = "current"
SentIsHeld ==
  \A c \in Customers : sent[c] <= faults + (IF Held(c) THEN 1 ELSE 0)
PassedIsSent ==
  pc \in {"syncing", "synced"} =>
    \A c \in exports \ todo : dest[c] = "current" \/ ~Succeeds(c)

IndInv ==
  /\ TypeOK /\ ComputedAgrees /\ MemoryIsLocal /\ SentIsHeld /\ PassedIsSent
  /\ FilesAgree /\ SkipIsSound

\* docs/activation_reconciliation.md, ACT-UAT-002: a deletion request makes a
\* customer activation-ineligible.  Under FairSpec the exports stop naming it.
DeletionTakesEffect ==
  \A c \in Customers : [](c \in deletions => <>[](c \notin exports))

\* A customer who asked for deletion, or whose newest consent event withholds it.
Refused(c) ==
  \/ c \in deletions
  \/ \E e \in EventsOf(c) : ~e.granted /\ \A f \in EventsOf(c) : f.at <= e.at

\* identity_resolution/stewardship.py:177-178: "identity merges never override
\* or clear an existing suppression; suppression state always survives a merge".
SuppressionSurvivesMerge ==
  [][\A r \in Records : Refused(owner[r]) => owner'[r] \in SuppressedNow(deletions)']_owner
=============================================================================
