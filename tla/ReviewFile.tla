----------------------------- MODULE ReviewFile -----------------------------
(***************************************************************************)
(* The review queue as a CSV file: FileReviewCaseRepository of              *)
(* identity_resolution/repository.py, which the API uses when no            *)
(* STEWARDSHIP_DSN is set, and the detection run of                         *)
(* identity_resolution/stewardship.py, which writes the same file.          *)
(*                                                                         *)
(* A decision reads the whole file, changes one row and writes the whole    *)
(* file; the endpoints are plain functions, which FastAPI runs in threads,  *)
(* and nothing locks the file.  Opening it for writing empties it; its rows *)
(* appear as the buffer fills, the last of them when it is closed.          *)
(* External: the file.  Two writers that have it open at once write over    *)
(* each other; what becomes of a row is then left open.  Left out: tenants, *)
(* and create_case, which only tests call here.                             *)
(***************************************************************************)
EXTENDS ReviewCases, Naturals, Sequences

CONSTANTS
  Workers,      \* threads of the API
  Job,          \* the detection run, one at a time
  CaseOrder,    \* the review cases, in the order of the file's rows
  Detections,   \* the sets of weak links and of conflicts a run may find
  MaxRuns,      \* bound: detection runs
  MaxCalls,     \* bound: decisions that rewrite the file
  MaxFaults     \* bound: writers lost before they have closed the file

FileCases == {CaseOrder[i] : i \in DOMAIN CaseOrder}
Writers == Workers \cup {Job}

ReviewFileAssumption ==
  /\ Job \notin Workers
  /\ CaseOrder \in Seq(FileCases)
  /\ \A i, j \in DOMAIN CaseOrder : CaseOrder[i] = CaseOrder[j] => i = j
  /\ \A found \in Detections : found.links \cup found.conflicts \subseteq FileCases
  /\ MaxRuns \in Nat /\ MaxCalls \in Nat /\ MaxFaults \in Nat
  /\ NoSigner \notin Signers

VARIABLES
  file,      \* the row of each case a reader finds
  call,      \* the rewrite each writer is at
  promised,  \* history: the row last given to each case, while it must stand
  runs, calls, faults

fileVars == <<file, call, promised, runs, calls, faults>>

Idle == [pc |-> "idle"]
Rows == [FileCases -> CaseRow]
NoRows == [k \in FileCases |-> Absent]

\* rows: what the writer will write; written: how many of them it has;
\* changes: the cases whose row it means to change; stale: cases of which it may not have
\* read the latest row; mixed: another writer had the file open meanwhile.
Rewrite == [pc : {"read", "open"}, rows : Rows, written : 0..Len(CaseOrder),
            changes : SUBSET FileCases, stale : SUBSET FileCases, mixed : BOOLEAN]

-----------------------------------------------------------------------------
Writing(w) == call[w].pc = "open"
Others(w) == Writers \ {w}
Found(k) == Stored(file[k])
BeingWritten == \E w \in Writers : Writing(w)

Starts(w, rows, changes, stale) ==
  [call EXCEPT ![w] = [pc |-> "read", rows |-> rows, written |-> 0,
                       changes |-> changes, stale |-> stale, mixed |-> FALSE]]

Init ==
  /\ file = NoRows
  /\ call = [w \in Writers |-> Idle]
  /\ promised = NoRows
  /\ runs = 0
  /\ calls = 0
  /\ faults = 0

\* decide, up to its write.  A case that is not found, that repeats its decision
\* or that refuses it is answered without a write.
RewrittenRows_OnlyCase(k, d, by) ==   \* mutant: the rows that were filtered are written
  [NoRows EXCEPT ![k] = Decided(file[k], d, by)]
RewrittenRows(k, d, by) == [file EXCEPT ![k] = Decided(file[k], d, by)]

Decide(w, k, d, by) ==
  /\ call[w] = Idle
  /\ calls < MaxCalls
  /\ calls' = calls + 1
  /\ Found(k)
  /\ ~Repeats(file[k], d, by)
  /\ Legal(file[k], d)
  /\ call' = Starts(w, RewrittenRows(k, d, by), {k},
                    IF BeingWritten THEN FileCases ELSE {})
  /\ UNCHANGED <<file, promised, runs, faults>>

\* A run reads events, not the file: every case it finds is OPEN, and a case it
\* does not find is not in its file.  Ids derive from what is found, so a case
\* found again keeps its id.
DetectedRows(found) ==
  [k \in FileCases |-> IF k \in found.links \cup found.conflicts THEN Open ELSE Absent]

Detect(found) ==
  /\ call[Job] = Idle
  /\ runs < MaxRuns
  /\ call' = Starts(Job, DetectedRows(found), FileCases, {})
  /\ runs' = runs + 1
  /\ UNCHANGED <<file, promised, calls, faults>>

\* open(path, "w").
OpenToWrite(w) ==
  /\ call[w].pc = "read"
  /\ file' = NoRows
  /\ call' = [v \in Writers |->
       IF v = w THEN [call[w] EXCEPT !.pc = "open",
                                     !.mixed = \E u \in Others(w) : Writing(u)]
       ELSE IF Writing(v) THEN [call[v] EXCEPT !.mixed = TRUE]
       ELSE call[v]]
  /\ UNCHANGED <<promised, runs, calls, faults>>

\* The file once w has written its rows up to the n-th.
Outcomes(w, i, n) ==
  LET k == CaseOrder[i]
  IN {IF i \in (call[w].written + 1)..n THEN call[w].rows[k] ELSE file[k]}
     \cup (IF call[w].mixed THEN {file[k], Absent} ELSE {})
Written(w, n) ==
  {f \in [FileCases -> UNION {Outcomes(w, i, n) : i \in DOMAIN CaseOrder}] :
     \A i \in DOMAIN CaseOrder : f[CaseOrder[i]] \in Outcomes(w, i, n)}

\* The buffer is full: some of the rows reach the file.
WriteSome(w) ==
  /\ Writing(w)
  /\ \E n \in (call[w].written + 1)..(Len(CaseOrder) - 1) :
       /\ file' \in Written(w, n)
       /\ call' = [call EXCEPT ![w].written = n]
  /\ UNCHANGED <<promised, runs, calls, faults>>

\* What must stand once w has closed the file: what it changed, and what it had
\* read as it was promised.
Standing(w) ==
  [k \in FileCases |-> IF call[w].mixed THEN Absent
                       ELSE IF k \in call[w].changes THEN call[w].rows[k]
                       ELSE IF k \in call[w].stale THEN Absent
                       ELSE promised[k]]

\* The rest is written, the file closed and the call answered.
Close(w) ==
  /\ Writing(w)
  /\ file' \in Written(w, Len(CaseOrder))
  /\ promised' = Standing(w)
  /\ call' = [v \in Writers |->
       IF v = w THEN Idle
       ELSE IF call[v] = Idle THEN Idle
       ELSE [call[v] EXCEPT !.stale = @ \cup call[w].changes]]
  /\ UNCHANGED <<runs, calls, faults>>

\* The writer is lost; what it had written stays.
Crash(w) ==
  /\ call[w] # Idle
  /\ faults < MaxFaults
  /\ faults' = faults + 1
  /\ call' = [call EXCEPT ![w] = Idle]
  /\ promised' = IF Writing(w) THEN NoRows ELSE promised
  /\ UNCHANGED <<file, runs, calls>>

Next ==
  \/ \E found \in Detections : Detect(found)
  \/ \E w \in Workers, k \in FileCases, d \in Decisions, by \in Signers : Decide(w, k, d, by)
  \/ \E w \in Writers : OpenToWrite(w) \/ WriteSome(w) \/ Close(w) \/ Crash(w)

Spec == Init /\ [][Next]_fileVars
-----------------------------------------------------------------------------
TypeOK ==
  /\ file \in Rows
  /\ call \in [Writers -> Rewrite \cup {Idle}]
  /\ promised \in Rows
  /\ runs \in 0..MaxRuns
  /\ calls \in 0..MaxCalls
  /\ faults \in 0..MaxFaults

\* A decision the API has answered, and a case nobody has decided yet, are in
\* the file as they were written until the case is decided or detected again,
\* unless one of these has rewritten the file since: a call that had read it
\* before that row was in it, or while a writer had it open; two writers at
\* once; a writer that was lost on the way (repository.py:118-145).  So calls
\* that come one after the other lose nothing: only those that overlap may.
DecisionStands ==
  ~BeingWritten => \A k \in FileCases : Stored(promised[k]) => file[k] = promised[k]
=============================================================================
