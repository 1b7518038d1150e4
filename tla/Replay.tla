-------------------------------- MODULE Replay --------------------------------
(***************************************************************************)
(* The jobs that move CDC records from files into PostgreSQL: ingest_file     *)
(* (ingestion/loader.py), a replay of selected records (ingestion/replay.py)  *)
(* and the repair of rejected ones (ingestion/dlq_reprocessor.py).  Jobs run  *)
(* side by side, a job may die between any two of its commits and file        *)
(* writes, and any job may be run again.                                      *)
(*                                                                         *)
(* A record is known by its line in the input file, and a file is the set of  *)
(* records it holds.  What is wrong with a record is in its form, table and     *)
(* version; contents that                                                   *)
(* no step looks at are left out.  Job names are numbers, so that a run is    *)
(* the pair of a job and how often it was started.                            *)
(***************************************************************************)
EXTENDS Integers, FiniteSets

CONSTANTS
  Jobs,        \* names of the jobs
  Kind,        \* job -> "ingest", "replay" or "dlq"
  Path,        \* job -> the file a replay writes and then ingests
  Wanted,      \* job -> [batches, tables] a replay selects; {} selects all
  Resets,      \* jobs called with --reset-checkpoints
  Ids, Tables, Batches, Hashes, Places,
  Inputs,      \* the input files there may be
  MaxRuns,     \* bound: job -> times it is started
  MaxFaults,   \* bound: crashes
  NoRow        \* no event has this id in the warehouse

NoTable == "no source_table"
NoBatch == "no batch_id"
NoHash == "no event_hash"       \* the hash is computed, from the id among others
NoPlace == "no kafka offset"

(* Forms: "ok"; "upsert", "incomplete" (a customers payload without its        *)
(* required fields) and "no_batch" (the field is missing), which a repair       *)
(* mends; "no_time" (no event_timestamp), which it does not.  A batch_id or      *)
(* source_table that is there may still be null.                               *)
Forms == {"ok", "upsert", "incomplete", "no_batch", "no_time"}

\* Schema versions: the number 1, the text "1", another number, null, other text.
Versions == {"number", "text", "other", "null", "words"}

\* An id is its place in the order of the ids; a place is a topic, a partition
\* and an offset.
Record == [line : Nat, id : Ids, at : Nat, table : Tables \cup {NoTable},
           batch : Batches \cup {NoBatch}, repaired : BOOLEAN,
           hash : Hashes \cup {NoHash}, place : Places \cup {NoPlace},
           version : Versions, form : Forms]

Paths == {Path[j] : j \in Jobs}

ASSUME ReplayAssumption ==
  /\ Jobs \subseteq Nat \ {0}
  /\ Ids \subseteq Nat
  /\ Kind \in [Jobs -> {"ingest", "replay", "dlq"}]
  /\ Wanted \in [Jobs -> [batches : SUBSET Batches, tables : SUBSET Tables]]
  /\ Resets \subseteq Jobs
  /\ Inputs \subseteq SUBSET Record
  /\ MaxRuns \in [Jobs -> Nat] /\ MaxFaults \in Nat
  /\ NoRow \notin Record

VARIABLES
  input,       \* the input file
  rejectFile,  \* rejected_events.jsonl of the ingest directory
  files,       \* replay files: path -> records, and the replay_batch_id they carry
  raw,         \* raw.raw_cdc_events: id -> the record stored, or NoRow
  rejections,  \* raw.rejected_events: <<run, record>>
  loads,       \* audit.ingestion_log: rows of the committed runs
  checkpoints, \* tables that have a row in audit.watermark_checkpoint
  alerts,      \* checkpoint_reset_for_replay rows of pipeline_alert
  replays,     \* audit.replay_run_log
  repairs,     \* audit.dlq_reprocess_log
  pc,          \* job -> what it does next
  runs,        \* job -> how often it was started
  chosen,      \* job -> the records a replay selected
  work,        \* job -> the records it has read
  author,      \* job -> the replay_batch_id it found in its replay file
  landed,      \* job -> those of its records that passed normalize_records
  faults       \* crashes so far

vars == <<input, rejectFile, files, raw, rejections, loads, checkpoints, alerts,
          replays, repairs, pc, runs, chosen, work, author, landed, faults>>
warehouse == <<raw, rejections, loads, checkpoints, alerts, replays, repairs>>
memory == <<runs, chosen, work, author, landed>>

This(j) == <<j, runs[j]>>
Steps == {"idle", "write", "reset", "read", "normalize", "local", "rejected",
          "load", "log", "audit", "done", "failed"}
Resting == {"idle", "done", "failed"}

-----------------------------------------------------------------------------
(* Records.                                                                *)

\* normalize_event accepts it.
Valid(r) == r.form = "ok" /\ r.table # NoTable /\ r.version \in {"number", "text"}

\* The keys of build_deduplication_log.
Duplicate(r, s) ==
  \/ r.id = s.id
  \/ r.hash = s.hash /\ r.hash # NoHash
  \/ r.place = s.place /\ r.place # NoPlace

\* A list is in file order; a replay file is sorted by (event_timestamp, event_id).
Before(j, r, s) ==
  IF Kind[j] = "replay"
  THEN \/ r.at < s.at
       \/ r.at = s.at /\ r.id < s.id
       \/ r.at = s.at /\ r.id = s.id /\ r.line < s.line
  ELSE r.line < s.line

\* filter_idempotent_events: a valid record passes unless one that passed before
\* it has one of its keys.
PassesFilter(j, A) ==
  \A r \in work[j] :
    r \in A <=> Valid(r) /\ ~\E s \in A : Before(j, s, r) /\ Duplicate(s, r)
Rejected(j) == {r \in work[j] : ~Valid(r)}

\* select_replay_records: the conditions that are given all hold.
Selected(j, S) ==
  {r \in S : /\ Wanted[j].batches # {} => r.batch \in Wanted[j].batches
             /\ Wanted[j].tables # {} => r.table \in Wanted[j].tables}

\* repair_rejected_event.  Other forms come through as they are; the batch id is
\* made a text of its own.
Repaired(r) ==
  [r EXCEPT !.repaired = TRUE,
            !.form = IF r.form \in {"upsert", "incomplete", "no_batch"} THEN "ok" ELSE r.form]

\* build_ingestion_summaries: a row for each batch, table and schema version as
\* the records have them.  What landed is counted under its normalized values
\* (a null batch_id has become "None", a version a number), what was rejected
\* under version 1.
Received(r) == <<r.repaired, r.batch, r.table, r.version>>
Normalized(r) == <<r.repaired, IF r.batch = NoBatch THEN "None" ELSE r.batch, r.table, "number">>
LandedOf(j, g) == {r \in landed[j] : Normalized(r) = g}
RejectedOf(j, g) == {r \in Rejected(j) : <<r.repaired, r.batch, r.table>> = <<g[1], g[2], g[3]>>}

StatusOf_Landed(L, X) ==   \* mutant: anything landed is a success
  IF L # {} THEN "success" ELSE "failed"
StatusOf(L, X) ==
  IF X # {} /\ L # {} THEN "partial_success" ELSE IF X # {} THEN "failed" ELSE "success"

\* The row holds counts; the list it speaks of is kept for the properties.
Summaries(j) ==
  {[run |-> This(j), of |-> work[j], group |-> g, status |-> StatusOf(LandedOf(j, g), RejectedOf(j, g))] :
     g \in {Received(r) : r \in work[j]}}

\* The groups are sorted, and null, text and numbers do not compare; a version
\* that is no number cannot be written into a row either.
BatchIsNull(r) == r.batch = NoBatch /\ ~r.repaired
VersionType == [number |-> "int", other |-> "int", null |-> "none", text |-> "str", words |-> "str"]
Unsortable(j) ==
  \E r, s \in work[j] :
    \/ BatchIsNull(r) /\ ~BatchIsNull(s)
    \/ /\ r.batch = s.batch /\ r.repaired = s.repaired
       /\ \/ r.table = NoTable /\ s.table # NoTable
          \/ r.table = s.table /\ VersionType[r.version] # VersionType[s.version]
Unsummarized(j) == Unsortable(j) \/ \E r \in work[j] : r.version = "words"

-----------------------------------------------------------------------------
Init ==
  /\ input \in Inputs
  /\ rejectFile = {}
  /\ files = [p \in Paths |-> [by |-> <<0, 0>>, records |-> {}]]
  /\ raw = [i \in Ids |-> NoRow]
  /\ rejections = {}
  /\ loads = {}
  /\ checkpoints = Tables
  /\ alerts = {}
  /\ replays = {}
  /\ repairs = {}
  /\ pc = [j \in Jobs |-> "idle"]
  /\ runs = [j \in Jobs |-> 0]
  /\ chosen = [j \in Jobs |-> {}]
  /\ work = [j \in Jobs |-> {}]
  /\ author = [j \in Jobs |-> <<0, 0>>]
  /\ landed = [j \in Jobs |-> {}]
  /\ faults = 0

Goto(j, step) == pc' = [pc EXCEPT ![j] = step]

\* A job is started, for the first time or again, and reads its input.  A
\* replay parses the timestamp of every record before it selects any.
Start(j) ==
  /\ pc[j] \in Resting /\ runs[j] < MaxRuns[j]
  /\ runs' = [runs EXCEPT ![j] = @ + 1]
  /\ \/ /\ Kind[j] = "ingest"
        /\ work' = [work EXCEPT ![j] = input]
        /\ Goto(j, "normalize")
        /\ UNCHANGED chosen
     \/ /\ Kind[j] = "dlq"
        /\ work' = [work EXCEPT ![j] = {Repaired(r) : r \in rejectFile}]
        /\ Goto(j, "normalize")
        /\ UNCHANGED chosen
     \/ /\ Kind[j] = "replay"
        /\ IF \E r \in input : r.form = "no_time"
           THEN Goto(j, "failed") /\ UNCHANGED <<work, chosen>>
           ELSE /\ chosen' = [chosen EXCEPT ![j] = Selected(j, input)]
                /\ work' = [work EXCEPT ![j] = {}]
                /\ Goto(j, "write")
  /\ UNCHANGED <<input, rejectFile, files, warehouse, author, landed, faults>>

\* write_replay_records.  The default path is the same for every replay.
WriteReplayFile(j) ==
  /\ pc[j] = "write"
  /\ files' = [files EXCEPT ![Path[j]] = [by |-> This(j), records |-> chosen[j]]]
  /\ Goto(j, IF j \in Resets THEN "reset" ELSE "read")
  /\ UNCHANGED <<input, rejectFile, warehouse, memory, faults>>

\* reset_watermark_checkpoints, one transaction: the rows and the alert.
ResetCheckpoints(j) ==
  /\ pc[j] = "reset"
  /\ checkpoints' = IF Wanted[j].tables = {} THEN {} ELSE checkpoints \ Wanted[j].tables
  /\ alerts' = alerts \cup {[run |-> This(j), tables |-> Wanted[j].tables]}
  /\ Goto(j, "read")
  /\ UNCHANGED <<input, rejectFile, files, raw, rejections, loads, replays, repairs, memory, faults>>

\* A replay ingests what its path holds by now.
ReadReplayFile(j) ==
  /\ pc[j] = "read"
  /\ work' = [work EXCEPT ![j] = files[Path[j]].records]
  /\ author' = [author EXCEPT ![j] = files[Path[j]].by]
  /\ Goto(j, "normalize")
  /\ UNCHANGED <<input, rejectFile, files, warehouse, runs, chosen, landed, faults>>

\* normalize_records and build_ingestion_summaries: nothing is written yet.
Normalize(j) ==
  /\ pc[j] = "normalize"
  /\ \E A \in SUBSET {r \in work[j] : Valid(r)} :
       PassesFilter(j, A) /\ landed' = [landed EXCEPT ![j] = A]
  /\ Goto(j, IF Unsummarized(j) THEN "failed" ELSE "local")
  /\ UNCHANGED <<input, rejectFile, files, warehouse, runs, chosen, work, author, faults>>

\* write_local_audit writes the landed events (a file no job reads), then the
\* rejected ones, each file emptied first.  A replay and a repair write to
\* directories of their own.
WriteLocal(j) ==
  /\ pc[j] = "local"
  /\ Goto(j, "rejected")
  /\ rejectFile' = IF Kind[j] = "ingest" THEN {} ELSE rejectFile
  /\ UNCHANGED <<input, files, warehouse, memory, faults>>

WriteRejected(j) ==
  /\ pc[j] = "rejected"
  /\ Goto(j, "load")
  /\ rejectFile' = IF Kind[j] = "ingest" THEN Rejected(j) ELSE rejectFile
  /\ UNCHANGED <<input, files, warehouse, memory, faults>>

\* load_to_postgres, one transaction: events by insert ... on conflict (event_id)
\* do nothing, rejections by plain insert, a log row for each summary.
Inserted(i, A) ==
  IF raw[i] = NoRow /\ \E r \in A : r.id = i THEN CHOOSE r \in A : r.id = i ELSE raw[i]

\* The hash of an event that would be inserted is that of another one stored:
\* a unique index of raw.raw_cdc_events, of which the conflict clause says nothing.
HashTaken(A) ==
  \E r \in A, i \in Ids :
    /\ raw[r.id] = NoRow /\ r.hash # NoHash
    /\ raw[i] # NoRow /\ raw[i].hash = r.hash

AfterLoad == [ingest |-> "done", replay |-> "log", dlq |-> "audit"]

Load(j) ==
  /\ pc[j] = "load" /\ ~HashTaken(landed[j])
  /\ raw' = [i \in Ids |-> Inserted(i, landed[j])]
  /\ rejections' = rejections \cup {<<This(j), r>> : r \in Rejected(j)}
  /\ loads' = loads \cup Summaries(j)
  /\ Goto(j, AfterLoad[Kind[j]])
  /\ UNCHANGED <<input, rejectFile, files, checkpoints, alerts, replays, repairs, memory, faults>>

\* The transaction is rolled back, and the job ends with the exception.
LoadRaises_Logged(j) ==   \* mutant: a replay goes on to its log when its ingestion raised
  /\ pc[j] = "load" /\ HashTaken(landed[j])
  /\ Goto(j, IF Kind[j] = "replay" THEN "log" ELSE "failed")
  /\ UNCHANGED <<input, rejectFile, files, warehouse, memory, faults>>

LoadRaises(j) ==
  /\ pc[j] = "load" /\ HashTaken(landed[j])
  /\ Goto(j, "failed")
  /\ UNCHANGED <<input, rejectFile, files, warehouse, memory, faults>>

\* log_replay_run; the manifest is written with it, beside the replay file.
\* The row counts what was selected; what was ingested, and whose file it was,
\* is kept for the properties.
LogReplay(j) ==
  /\ pc[j] = "log"
  /\ replays' = replays \cup {[run |-> This(j), selected |-> chosen[j],
                               ingested |-> work[j], author |-> author[j]]}
  /\ Goto(j, "done")
  /\ UNCHANGED <<input, rejectFile, files, raw, rejections, loads, checkpoints, alerts, repairs, memory, faults>>

\* load_dlq_reprocess_audit: one status for all records of the run.
RepairStatus(j) ==
  IF landed[j] = {} THEN "failed" ELSE IF Rejected(j) = {} THEN "success" ELSE "partial_success"

AuditRepairs(j) ==
  /\ pc[j] = "audit"
  /\ repairs' = repairs \cup
       {[run |-> This(j), of |-> work[j], event |-> r, status |-> RepairStatus(j)] : r \in work[j]}
  /\ Goto(j, "done")
  /\ UNCHANGED <<input, rejectFile, files, raw, rejections, loads, checkpoints, alerts, replays, memory, faults>>

\* The process dies; what it committed and wrote stays.
Crash(j) ==
  /\ faults < MaxFaults /\ pc[j] \notin Resting
  /\ faults' = faults + 1
  /\ Goto(j, "idle")
  /\ UNCHANGED <<input, rejectFile, files, warehouse, memory>>

Next ==
  \E j \in Jobs :
    \/ Start(j)
    \/ WriteReplayFile(j) \/ ResetCheckpoints(j) \/ ReadReplayFile(j)
    \/ Normalize(j) \/ WriteLocal(j) \/ WriteRejected(j)
    \/ Load(j) \/ LoadRaises(j)
    \/ LogReplay(j) \/ AuditRepairs(j)
    \/ Crash(j)

Spec == Init /\ [][Next]_vars

-----------------------------------------------------------------------------
(* Properties.                                                             *)

TypeOK ==
  /\ input \in Inputs
  /\ rejectFile \subseteq Record
  /\ files \in [Paths -> [by : Nat \X Nat, records : SUBSET Record]]
  /\ raw \in [Ids -> Record \cup {NoRow}]
  /\ checkpoints \subseteq Tables
  /\ pc \in [Jobs -> Steps]
  /\ runs \in [Jobs -> Nat]
  /\ chosen \in [Jobs -> SUBSET Record]
  /\ work \in [Jobs -> SUBSET Record]
  /\ author \in [Jobs -> Nat \X Nat]
  /\ landed \in [Jobs -> SUBSET Record]

\* It, or a duplicate of it in the list S, has its id in the warehouse.
Represented(r, S) == \E s \in S : (s = r \/ Duplicate(s, r)) /\ raw[s.id] # NoRow
Stored(S) == \A r \in S : Valid(r) => Represented(r, S)

\* A replay that is logged has its selection in the warehouse: none of its loads
\* was rolled back or lost, whatever the other jobs stored before.  (A file that
\* another replay wrote to the path between its write and its read is the one
\* exception: then it is what it read.)
LoggedReplayIsStored ==
  \A e \in replays : Stored(IF e.author = e.run THEN e.selected ELSE e.ingested)

\* A checkpoint that is gone has an alert naming the run that removed it,
\* also when that run died before it ingested, logged or wrote its manifest.
ResetIsAudited ==
  \A t \in Tables \ checkpoints :
    \E a \in alerts : t \in a.tables \/ a.tables = {}

\* The logs speak the truth, for every file, replay and repair.  For each group
\* of a list: with "success" every record of it is stored, itself or its
\* duplicate; with "failed" every one is malformed, a duplicate, or was counted
\* under another group; the malformed ones are kept (loader.py:86-125).  Of a
\* repair: with "success" each of its events is stored, itself or its duplicate
\* (dlq_reprocessor.py:98-119).
LogIsHonest ==
  /\ \A e \in loads : \A r \in e.of :
       Received(r) = e.group =>
         /\ e.status = "success" => Valid(r) /\ Represented(r, e.of)
         /\ e.status = "failed" =>
              ~Valid(r) \/ Normalized(r) # e.group \/ \E s \in e.of : s # r /\ Duplicate(s, r)
         /\ ~Valid(r) => <<e.run, r>> \in rejections
  /\ \A e \in repairs : e.status = "success" => Represented(e.event, e.of)

-----------------------------------------------------------------------------
\* "Contract failures are written to the rejected events path": a malformed
\* record is set aside and does not stop the ingestion of its file.  (The other
\* reason to fail, a hash that is taken, is left aside.)
MalformedIsQuarantined ==
  \A j \in Jobs :
    Kind[j] = "ingest" /\ pc[j] = "failed" => ~Unsummarized(j)
=============================================================================
