----------------------------- MODULE ReplayProofs -----------------------------
(***************************************************************************)
(* Proofs about Replay, for any jobs, files and bounds.  What a load leaves   *)
(* behind is the heart of them: every valid record a job has read passes the  *)
(* filter or has one of its keys in common with one that does, and a load     *)
(* that commits stores all that passed under their ids.  The last part is      *)
(* about the contract under which a replay is validated again (ContractGate),  *)
(* for any fields, values and contracts.                                     *)
(***************************************************************************)
EXTENDS Replay, ContractGate, TLAPS

\* A file read back by the run that wrote it holds what that run selected.
OwnFiles ==
  \A j \in Jobs : Kind[j] = "replay" =>
    /\ pc[j] \in {"reset", "read"} /\ files[Path[j]].by = This(j) => files[Path[j]].records = chosen[j]
    /\ pc[j] \in {"normalize", "local", "rejected", "load", "log"} /\ author[j] = This(j)
         => work[j] = chosen[j]

\* What is held as landed has passed the filter.
Filtered ==
  \A j \in Jobs :
    pc[j] \in {"local", "rejected", "load"} => landed[j] \subseteq work[j] /\ PassesFilter(j, landed[j])

\* After its load, what a job has read is stored.
LoadedIsStored == \A j \in Jobs : pc[j] \in {"log", "audit"} => Stored(work[j])

\* Who is where: only replays get to their steps, only repairs to the audit.
StepsOfKind ==
  \A j \in Jobs :
    /\ pc[j] \in {"write", "reset", "read", "log"} => Kind[j] = "replay"
    /\ pc[j] = "audit" => Kind[j] = "dlq"

\* Logs speak of lists of records.
LogRows ==
  /\ \A e \in replays : e.selected \in SUBSET Record /\ e.ingested \in SUBSET Record
  /\ \A e \in loads : e.of \in SUBSET Record
  /\ \A e \in repairs : e.of \in SUBSET Record

IInv ==
  /\ TypeOK
  /\ StepsOfKind
  /\ OwnFiles
  /\ Filtered
  /\ LoadedIsStored
  /\ LogRows
  /\ LoggedReplayIsStored
  /\ ResetIsAudited
  /\ LogIsHonest

\* What a repair makes is a record.
LEMMA RepairedRecord ==
  ASSUME NEW r \in Record
  PROVE  Repaired(r) \in Record
BY DEF Repaired, Record, Forms

\* A load stores every event that passed under its id, and disturbs no other.
LEMMA LoadStores ==
  ASSUME TypeOK, NEW j \in Jobs, Load(j)
  PROVE  /\ raw' \in [Ids -> Record \cup {NoRow}]
         /\ \A i \in Ids : raw[i] # NoRow => raw'[i] # NoRow
         /\ \A r \in landed[j] : raw'[r.id] # NoRow
<1>1. landed[j] \in SUBSET Record /\ raw \in [Ids -> Record \cup {NoRow}]
  BY DEF TypeOK
<1>2. raw' = [i \in Ids |-> Inserted(i, landed[j])]
  BY DEF Load
<1>3. \A i \in Ids : Inserted(i, landed[j]) \in Record \cup {NoRow}
  <2> SUFFICES ASSUME NEW i \in Ids PROVE Inserted(i, landed[j]) \in Record \cup {NoRow}
    OBVIOUS
  <2>1. CASE \E r \in landed[j] : r.id = i
    <3>1. (CHOOSE r \in landed[j] : r.id = i) \in landed[j]
      BY <2>1
    <3> QED
      BY <3>1, <1>1 DEF Inserted
  <2>2. CASE ~\E r \in landed[j] : r.id = i
    BY <2>2, <1>1 DEF Inserted
  <2> QED
    BY <2>1, <2>2
<1>4. \A i \in Ids : raw[i] # NoRow => raw'[i] # NoRow
  BY <1>2 DEF Inserted
<1>5. ASSUME NEW r \in landed[j] PROVE raw'[r.id] # NoRow
  <2>1. (CHOOSE s \in landed[j] : s.id = r.id) \in landed[j]
    OBVIOUS
  <2>2. (CHOOSE s \in landed[j] : s.id = r.id) # NoRow
    BY <2>1, <1>1, ReplayAssumption
  <2>3. r.id \in Ids
    BY <1>1 DEF Record
  <2> QED
    BY <1>2, <2>2, <2>3 DEF Inserted
<1> QED
  BY <1>2, <1>3, <1>4, <1>5

\* Of what the job read, a valid record passed or a duplicate of it did.
LEMMA LoadRepresents ==
  ASSUME TypeOK, Filtered, NEW j \in Jobs, Load(j)
  PROVE  Stored(work[j])'
<1>1. /\ \A r \in work[j] : r \in landed[j] <=> Valid(r) /\ ~\E s \in landed[j] : Before(j, s, r) /\ Duplicate(s, r)
      /\ work' = work
  BY DEF Filtered, PassesFilter, Load, memory
<1>2. \A r \in landed[j] : raw'[r.id] # NoRow
  BY LoadStores
<1>3. landed[j] \subseteq work[j]
  BY DEF Filtered, Load
<1> SUFFICES ASSUME NEW r \in work[j], Valid(r)
             PROVE  \E s \in work[j] : (s = r \/ Duplicate(s, r)) /\ raw'[s.id] # NoRow
  BY <1>1 DEF Stored, Represented
<1>4. CASE r \in landed[j]
  BY <1>4, <1>2
<1>5. CASE r \notin landed[j]
  <2>1. PICK s \in landed[j] : Duplicate(s, r)
    BY <1>1, <1>5
  <2> QED
    BY <2>1, <1>2, <1>3
<1> QED
  BY <1>4, <1>5

\* What is stored stays stored, and rejections are kept.
LEMMA Monotone ==
  ASSUME TypeOK, [Next]_vars
  PROVE  /\ \A i \in Ids : raw[i] # NoRow => raw'[i] # NoRow
         /\ rejections \subseteq rejections'
<1>1. ASSUME NEW j \in Jobs, Load(j)
      PROVE  (\A i \in Ids : raw[i] # NoRow => raw'[i] # NoRow) /\ rejections \subseteq rejections'
  BY <1>1, LoadStores DEF Load
<1>2. CASE UNCHANGED <<raw, rejections>>
  BY <1>2
<1> QED
  BY <1>1, <1>2 DEF Next, vars, warehouse, Start, WriteReplayFile, ResetCheckpoints, ReadReplayFile,
     Normalize, WriteLocal, WriteRejected, LoadRaises, LogReplay, AuditRepairs, Crash

\* So what is represented stays represented.
LEMMA RepresentedStays ==
  ASSUME TypeOK, [Next]_vars, NEW S \in SUBSET Record, NEW r, Represented(r, S)
  PROVE  Represented(r, S)'
<1>1. PICK s \in S : (s = r \/ Duplicate(s, r)) /\ raw[s.id] # NoRow
  BY DEF Represented
<1>2. s.id \in Ids
  BY DEF Record
<1>3. raw'[s.id] # NoRow
  BY <1>1, <1>2, Monotone
<1> QED
  BY <1>1, <1>3 DEF Represented, Duplicate

LEMMA StoredStays ==
  ASSUME TypeOK, [Next]_vars, NEW S \in SUBSET Record, Stored(S)
  PROVE  Stored(S)'
BY RepresentedStays DEF Stored, Valid

-----------------------------------------------------------------------------
(* The jobs.                                                               *)
Held == TypeOK /\ StepsOfKind /\ OwnFiles /\ Filtered

LEMMA InitHeld == Init => Held
<1> SUFFICES ASSUME Init PROVE Held
  OBVIOUS
<1>1. TypeOK
  BY ReplayAssumption DEF Init, TypeOK, Steps
<1> QED
  BY <1>1 DEF Init, Held, StepsOfKind, OwnFiles, Filtered

LEMMA StartHeld ==
  ASSUME Held, NEW j \in Jobs, Start(j)
  PROVE  Held'
<1>1. TypeOK /\ input \in SUBSET Record /\ rejectFile \in SUBSET Record
  BY ReplayAssumption DEF Held, TypeOK
<1>2. {Repaired(r) : r \in rejectFile} \in SUBSET Record
  BY <1>1, RepairedRecord
<1>3. Selected(j, input) \in SUBSET Record
  BY <1>1 DEF Selected
<1>4. /\ UNCHANGED <<input, rejectFile, files, raw, checkpoints, author, landed>>
      /\ pc' \in [Jobs -> Steps] /\ runs' \in [Jobs -> Nat]
      /\ \A k \in Jobs : k # j =>
           pc'[k] = pc[k] /\ work'[k] = work[k] /\ chosen'[k] = chosen[k] /\ runs'[k] = runs[k]
      /\ pc'[j] \in {"normalize", "write", "failed"}
      /\ pc'[j] = "normalize" => Kind[j] # "replay"
      /\ pc'[j] = "write" => Kind[j] = "replay"
  BY <1>1 DEF Start, Goto, warehouse, TypeOK, Steps
<1>5. chosen' \in [Jobs -> SUBSET Record] /\ work' \in [Jobs -> SUBSET Record]
  BY <1>1, <1>2, <1>3 DEF Start, TypeOK
<1>6. TypeOK'
  BY <1>1, <1>4, <1>5 DEF TypeOK
<1>7. (StepsOfKind /\ OwnFiles)'
  BY <1>4 DEF Held, StepsOfKind, OwnFiles, This
<1>8. Filtered'
  BY <1>4 DEF Held, Filtered, PassesFilter, Before
<1> QED
  BY <1>6, <1>7, <1>8 DEF Held

LEMMA WriteHeld ==
  ASSUME Held, NEW j \in Jobs, WriteReplayFile(j)
  PROVE  Held'
<1>1. TypeOK /\ Kind[j] = "replay" /\ chosen[j] \in SUBSET Record /\ Path[j] \in Paths
  BY DEF Held, TypeOK, StepsOfKind, WriteReplayFile, Paths
<1>2. files' = [files EXCEPT ![Path[j]] = [by |-> This(j), records |-> chosen[j]]]
  BY DEF WriteReplayFile
<1>3. /\ UNCHANGED <<input, rejectFile, raw, checkpoints, runs, chosen, work, author, landed>>
      /\ \A k \in Jobs : k # j => pc'[k] = pc[k]
      /\ pc'[j] \in {"reset", "read"} /\ pc' \in [Jobs -> Steps]
  BY <1>1 DEF WriteReplayFile, Goto, warehouse, memory, TypeOK, Steps
<1>4. This(j) \in Nat \X Nat
  BY <1>1, ReplayAssumption DEF This, TypeOK
<1>5. TypeOK'
  BY <1>1, <1>2, <1>3, <1>4 DEF TypeOK
<1>6. OwnFiles'
  <2> SUFFICES ASSUME NEW k \in Jobs, Kind[k] = "replay"
               PROVE  /\ pc'[k] \in {"reset", "read"} /\ files'[Path[k]].by = This(k)
                           => files'[Path[k]].records = chosen[k]
                      /\ pc'[k] \in {"normalize", "local", "rejected", "load", "log"} /\ author[k] = This(k)
                           => work[k] = chosen[k]
    BY <1>3 DEF OwnFiles, This
  <2>1. CASE k = j
    <3>1. Path[k] \in Paths
      BY DEF Paths
    <3>2. files'[Path[j]].records = chosen[j]
      BY <1>1, <1>2 DEF TypeOK
    <3> QED
      BY <2>1, <3>2, <1>3
  <2>2. CASE k # j
    <3>1. This(k) # This(j)
      BY <2>2 DEF This
    <3>2. Path[k] \in Paths
      BY DEF Paths
    <3>3. \/ files'[Path[k]] = files[Path[k]]
          \/ files'[Path[k]].by = This(j)
      BY <3>2, <1>1, <1>2 DEF TypeOK
    <3> QED
      BY <2>2, <3>1, <3>3, <1>3 DEF Held, OwnFiles
  <2> QED
    BY <2>1, <2>2
<1>7. (StepsOfKind /\ Filtered)'
  BY <1>1, <1>3 DEF Held, StepsOfKind, Filtered, PassesFilter
<1> QED
  BY <1>5, <1>6, <1>7 DEF Held

LEMMA ReadHeld ==
  ASSUME Held, NEW j \in Jobs, ReadReplayFile(j)
  PROVE  Held'
<1>1. /\ UNCHANGED <<input, rejectFile, files, raw, checkpoints, runs, chosen, landed>>
      /\ \A k \in Jobs : k # j => pc'[k] = pc[k] /\ work'[k] = work[k] /\ author'[k] = author[k]
      /\ pc[j] = "read" /\ pc'[j] = "normalize" /\ pc' \in [Jobs -> Steps]
      /\ work' = [work EXCEPT ![j] = files[Path[j]].records]
      /\ work'[j] = files[Path[j]].records
      /\ Path[j] \in Paths
  BY DEF Held, TypeOK, ReadReplayFile, Goto, warehouse, Steps, Paths
<1>2. /\ files[Path[j]].by \in Nat \X Nat /\ files[Path[j]].records \in SUBSET Record
      /\ author' = [author EXCEPT ![j] = files[Path[j]].by]
  BY <1>1 DEF Held, TypeOK, ReadReplayFile
<1>3. author'[j] = files[Path[j]].by
  BY <1>2 DEF Held, TypeOK
<1>4. TypeOK'
  BY <1>1, <1>2 DEF Held, TypeOK
<1>5. StepsOfKind' /\ Filtered'
  BY <1>1 DEF Held, StepsOfKind, Filtered, PassesFilter
<1>6. OwnFiles'
  BY <1>1, <1>3 DEF Held, OwnFiles, This
<1> QED
  BY <1>4, <1>5, <1>6 DEF Held

LEMMA NormalizeHeld ==
  ASSUME Held, NEW j \in Jobs, Normalize(j)
  PROVE  Held'
<1>1. PICK A \in SUBSET {r \in work[j] : Valid(r)} : PassesFilter(j, A) /\ landed' = [landed EXCEPT ![j] = A]
  BY DEF Normalize
<1>2. /\ UNCHANGED <<input, rejectFile, files, raw, checkpoints, runs, chosen, work, author>>
      /\ \A k \in Jobs : k # j => pc'[k] = pc[k]
      /\ pc[j] = "normalize" /\ pc'[j] \in {"local", "failed"} /\ pc' \in [Jobs -> Steps]
  BY DEF Held, TypeOK, Normalize, Goto, warehouse, Steps
<1>3. A \in SUBSET Record /\ A \subseteq work[j]
  BY <1>1 DEF Held, TypeOK
<1>4. landed' \in [Jobs -> SUBSET Record] /\ landed'[j] = A /\ \A k \in Jobs : k # j => landed'[k] = landed[k]
  BY <1>1, <1>3 DEF Held, TypeOK
<1>5. TypeOK'
  BY <1>2, <1>4 DEF Held, TypeOK
<1>6. (StepsOfKind /\ OwnFiles)'
  BY <1>2 DEF Held, StepsOfKind, OwnFiles, This
<1>7. Filtered'
  BY <1>1, <1>2, <1>3, <1>4 DEF Held, Filtered, PassesFilter
<1> QED
  BY <1>5, <1>6, <1>7 DEF Held

\* Steps that change no more of a job than where it is.
LEMMA OtherHeld ==
  ASSUME Held, NEW j \in Jobs,
         \/ ResetCheckpoints(j) \/ WriteLocal(j) \/ WriteRejected(j) \/ Load(j)
         \/ LoadRaises(j) \/ LogReplay(j) \/ AuditRepairs(j) \/ Crash(j)
  PROVE  Held'
<1>1. /\ UNCHANGED <<input, files, runs, chosen, work, author, landed>>
      /\ \A k \in Jobs : k # j => pc'[k] = pc[k]
  BY DEF Held, TypeOK, ResetCheckpoints, WriteLocal, WriteRejected, Load, LoadRaises, LogReplay,
     AuditRepairs, Crash, Goto, memory
<1>2. /\ pc' \in [Jobs -> Steps]
      /\ \/ pc'[j] \in {"idle", "failed", "done"}
         \/ pc[j] = "reset" /\ pc'[j] = "read"
         \/ pc[j] \in {"local", "rejected"} /\ pc'[j] \in {"rejected", "load"}
         \/ pc[j] = "load" /\ pc'[j] = "log" /\ Kind[j] = "replay"
         \/ pc[j] = "load" /\ pc'[j] = "audit" /\ Kind[j] = "dlq"
  <2>1. CASE Load(j)
    <3>1. Kind[j] \in {"ingest", "replay", "dlq"}
      BY ReplayAssumption
    <3>2. pc[j] = "load" /\ pc' = [pc EXCEPT ![j] = AfterLoad[Kind[j]]]
      BY <2>1 DEF Load, Goto
    <3>3. \/ Kind[j] = "ingest" /\ AfterLoad[Kind[j]] = "done"
          \/ Kind[j] = "replay" /\ AfterLoad[Kind[j]] = "log"
          \/ Kind[j] = "dlq" /\ AfterLoad[Kind[j]] = "audit"
      BY <3>1 DEF AfterLoad
    <3> QED
      BY <3>2, <3>3 DEF Held, TypeOK, Steps
  <2>2. CASE ~Load(j)
    BY <2>2 DEF Held, TypeOK, ResetCheckpoints, WriteLocal, WriteRejected, LoadRaises, LogReplay,
       AuditRepairs, Crash, Goto, Steps
  <2> QED
    BY <2>1, <2>2
<1>3. raw' \in [Ids -> Record \cup {NoRow}]
  <2>1. CASE Load(j)
    BY <2>1, LoadStores DEF Held
  <2>2. CASE ~Load(j)
    BY <2>2 DEF Held, TypeOK, ResetCheckpoints, WriteLocal, WriteRejected, LoadRaises, LogReplay,
       AuditRepairs, Crash, warehouse
  <2> QED
    BY <2>1, <2>2
<1>4. rejectFile' \in SUBSET Record /\ checkpoints' \subseteq Tables
  BY DEF Held, TypeOK, Rejected, ResetCheckpoints, WriteLocal, WriteRejected, Load, LoadRaises,
     LogReplay, AuditRepairs, Crash, warehouse
<1>5. TypeOK'
  BY <1>1, <1>2, <1>3, <1>4 DEF Held, TypeOK
<1>6. StepsOfKind'
  BY <1>1, <1>2 DEF Held, StepsOfKind
<1>7. OwnFiles'
  BY <1>1, <1>2 DEF Held, OwnFiles, This
<1>8. Filtered'
  BY <1>1, <1>2 DEF Held, Filtered, PassesFilter
<1> QED
  BY <1>5, <1>6, <1>7, <1>8 DEF Held

LEMMA NextHeld == Held /\ [Next]_vars => Held'
<1> SUFFICES ASSUME Held, [Next]_vars PROVE Held'
  OBVIOUS
<1>1. CASE UNCHANGED vars
  BY <1>1 DEF Held, TypeOK, StepsOfKind, OwnFiles, Filtered, PassesFilter, This, vars, warehouse
<1>2. ASSUME NEW j \in Jobs,
             \/ ResetCheckpoints(j) \/ WriteLocal(j) \/ WriteRejected(j) \/ Load(j)
             \/ LoadRaises(j) \/ LogReplay(j) \/ AuditRepairs(j) \/ Crash(j)
      PROVE  Held'
  BY <1>2, OtherHeld
<1> QED
  BY <1>1, <1>2, StartHeld, WriteHeld, ReadHeld, NormalizeHeld DEF Next

-----------------------------------------------------------------------------
(* What is stored, and the logs.                                           *)
LEMMA LoadedStep ==
  ASSUME IInv, [Next]_vars
  PROVE  LoadedIsStored'
<1> SUFFICES ASSUME NEW k \in Jobs, pc'[k] \in {"log", "audit"} PROVE Stored(work[k])'
  BY DEF LoadedIsStored
<1>1. CASE Load(k)
  BY <1>1, LoadRepresents DEF IInv
<1>2. CASE ~Load(k)
  <2>1. pc[k] = pc'[k] /\ work'[k] = work[k]
    <3>1. CASE UNCHANGED vars
      BY <3>1 DEF vars
    <3>2. ASSUME NEW j \in Jobs, j # k,
                 \/ Start(j) \/ WriteReplayFile(j) \/ ResetCheckpoints(j) \/ ReadReplayFile(j)
                 \/ Normalize(j) \/ WriteLocal(j) \/ WriteRejected(j) \/ Load(j) \/ LoadRaises(j)
                 \/ LogReplay(j) \/ AuditRepairs(j) \/ Crash(j)
          PROVE  pc[k] = pc'[k] /\ work'[k] = work[k]
      BY <3>2 DEF IInv, TypeOK, Start, WriteReplayFile, ResetCheckpoints, ReadReplayFile, Normalize,
         WriteLocal, WriteRejected, Load, LoadRaises, LogReplay, AuditRepairs, Crash, Goto, memory
    <3>3. ~(\/ Start(k) \/ WriteReplayFile(k) \/ ResetCheckpoints(k) \/ ReadReplayFile(k)
            \/ Normalize(k) \/ WriteLocal(k) \/ WriteRejected(k) \/ LoadRaises(k)
            \/ LogReplay(k) \/ AuditRepairs(k) \/ Crash(k))
      BY DEF IInv, TypeOK, Start, WriteReplayFile, ResetCheckpoints, ReadReplayFile, Normalize,
         WriteLocal, WriteRejected, LoadRaises, LogReplay, AuditRepairs, Crash, Goto
    <3> QED
      BY <3>1, <3>2, <3>3, <1>2 DEF Next
  <2>2. work[k] \in SUBSET Record /\ Stored(work[k])
    BY <2>1 DEF IInv, TypeOK, LoadedIsStored
  <2>3. \A r \in work[k] : Valid(r) => Represented(r, work[k])'
    <3>1. TypeOK
      BY DEF IInv
    <3>2. ASSUME NEW r \in work[k], Valid(r) PROVE \E s \in work[k] : (s = r \/ Duplicate(s, r)) /\ raw'[s.id] # NoRow
      <4>1. PICK s \in work[k] : (s = r \/ Duplicate(s, r)) /\ raw[s.id] # NoRow
        BY <2>2, <3>2 DEF Stored, Represented
      <4>2. s.id \in Ids
        BY <2>2 DEF Record
      <4> QED
        BY <3>1, <4>1, <4>2, Monotone
    <3> QED
      BY <2>1, <3>2 DEF Represented, Duplicate
  <2> QED
    BY <2>1, <2>3 DEF Stored, Represented, Valid
<1> QED
  BY <1>1, <1>2

\* Which job adds to which log.
LEMMA LogsGrow ==
  ASSUME [Next]_vars
  PROVE  /\ replays' = replays \/ \E j \in Jobs : LogReplay(j)
         /\ loads' = loads \/ \E j \in Jobs : Load(j)
         /\ repairs' = repairs \/ \E j \in Jobs : AuditRepairs(j)
         /\ (checkpoints' = checkpoints /\ alerts' = alerts) \/ \E j \in Jobs : ResetCheckpoints(j)
BY DEF Next, vars, warehouse, Start, WriteReplayFile, ResetCheckpoints, ReadReplayFile,
   Normalize, WriteLocal, WriteRejected, Load, LoadRaises, LogReplay, AuditRepairs, Crash

LEMMA ReplaysStep ==
  ASSUME IInv, [Next]_vars, NEW e \in replays'
  PROVE  /\ e.selected \in SUBSET Record /\ e.ingested \in SUBSET Record
         /\ Stored(IF e.author = e.run THEN e.selected ELSE e.ingested)'
<1>1. CASE e \in replays
  <2>1. /\ e.selected \in SUBSET Record /\ e.ingested \in SUBSET Record
        /\ Stored(IF e.author = e.run THEN e.selected ELSE e.ingested)
    BY <1>1 DEF IInv, LogRows, LoggedReplayIsStored
  <2> DEFINE S == IF e.author = e.run THEN e.selected ELSE e.ingested
  <2>2. S \in SUBSET Record /\ Stored(S)
    BY <2>1
  <2>3. \A r \in S : Valid(r) => Represented(r, S)'
    BY <2>2, RepresentedStays DEF IInv, Stored
  <2> QED
    BY <2>1, <2>3 DEF Stored, Represented, Valid
<1>2. CASE e \notin replays
  <2>1. PICK j \in Jobs : LogReplay(j)
    BY <1>2, LogsGrow
  <2>2. e = [run |-> This(j), selected |-> chosen[j], ingested |-> work[j], author |-> author[j]]
    BY <1>2, <2>1 DEF LogReplay
  <2>3. e.run = This(j) /\ e.selected = chosen[j] /\ e.ingested = work[j] /\ e.author = author[j]
    BY <2>2
  <2>4. pc[j] = "log" /\ Kind[j] = "replay" /\ raw' = raw
    BY <2>1 DEF LogReplay, IInv, StepsOfKind
  <2>5. chosen[j] \in SUBSET Record /\ work[j] \in SUBSET Record /\ Stored(work[j])
    BY <2>4 DEF IInv, TypeOK, LoadedIsStored
  <2>6. (IF e.author = e.run THEN e.selected ELSE e.ingested) = work[j]
    BY <2>3, <2>4 DEF IInv, OwnFiles
  <2>7. \A r \in work[j] : Valid(r) => \E s \in work[j] : (s = r \/ Duplicate(s, r)) /\ raw'[s.id] # NoRow
    BY <2>4, <2>5 DEF Stored, Represented
  <2> QED
    BY <2>3, <2>5, <2>6, <2>7 DEF Stored, Represented
<1> QED
  BY <1>1, <1>2

\* What a row of the load log says of a record of its group.
RowHolds(e, r) ==
  /\ e.status = "success" => Valid(r) /\ Represented(r, e.of)
  /\ e.status = "failed" =>
       ~Valid(r) \/ Normalized(r) # e.group \/ \E s \in e.of : s # r /\ Duplicate(s, r)
  /\ ~Valid(r) => <<e.run, r>> \in rejections

\* No record comes before itself.
LEMMA BeforeIsStrict ==
  ASSUME NEW j \in Jobs, NEW r \in Record
  PROVE  ~Before(j, r, r)
<1>1. r.line \in Nat /\ r.at \in Nat /\ r.id \in Nat
  BY ReplayAssumption DEF Record
<1> QED
  BY <1>1 DEF Before

\* The rows a job logs with its load are true of the list it read.
LEMMA SummariesHold ==
  ASSUME IInv, NEW j \in Jobs, Load(j), NEW e \in Summaries(j)
  PROVE  /\ e.of \in SUBSET Record
         /\ \A r \in e.of : Received(r) = e.group => RowHolds(e, r)'
<1>1. PICK g : e = [run |-> This(j), of |-> work[j], group |-> g,
                    status |-> StatusOf(LandedOf(j, g), RejectedOf(j, g))]
  BY DEF Summaries
<1>2. /\ e.run = This(j) /\ e.of = work[j] /\ e.group = g
      /\ e.status = StatusOf(LandedOf(j, g), RejectedOf(j, g))
  BY <1>1
<1>3. work[j] \in SUBSET Record /\ landed[j] \subseteq work[j] /\ PassesFilter(j, landed[j])
  BY DEF IInv, TypeOK, Filtered, Load
<1>4. \A r \in work[j] : Valid(r) => \E s \in work[j] : (s = r \/ Duplicate(s, r)) /\ raw'[s.id] # NoRow
  BY LoadRepresents DEF IInv, Stored, Represented, Load, memory
<1> SUFFICES ASSUME NEW r \in work[j], Received(r) = g PROVE RowHolds(e, r)'
  BY <1>2, <1>3
<1>5. <<r.repaired, r.batch, r.table>> = <<g[1], g[2], g[3]>>
  BY DEF Received
<1>6. ASSUME e.status = "success" PROVE Valid(r) /\ Represented(r, e.of)'
  <2>1. RejectedOf(j, g) = {}
    BY <1>2, <1>6 DEF StatusOf
  <2>2. Valid(r)
    BY <1>5, <2>1 DEF RejectedOf, Rejected
  <2> QED
    BY <1>2, <1>4, <2>2 DEF Represented
<1>7. ASSUME e.status = "failed"
      PROVE  ~Valid(r) \/ Normalized(r) # g \/ \E s \in work[j] : s # r /\ Duplicate(s, r)
  <2>1. LandedOf(j, g) = {}
    BY <1>2, <1>7 DEF StatusOf
  <2>2. CASE Valid(r) /\ Normalized(r) = g
    <3>1. r \notin landed[j]
      BY <2>1, <2>2 DEF LandedOf
    <3>2. PICK s \in landed[j] : Before(j, s, r) /\ Duplicate(s, r)
      BY <3>1, <2>2, <1>3 DEF PassesFilter
    <3>3. s # r
      BY <3>2, <1>3, BeforeIsStrict
    <3> QED
      BY <3>2, <3>3, <1>3
  <2> QED
    BY <2>2
<1>8. ASSUME ~Valid(r) PROVE <<e.run, r>> \in rejections'
  BY <1>2, <1>8 DEF Load, Rejected
<1> QED
  BY <1>2, <1>6, <1>7, <1>8 DEF RowHolds, Valid, Normalized, Duplicate

LEMMA LoadsStep ==
  ASSUME IInv, [Next]_vars, NEW e \in loads'
  PROVE  /\ e.of \in SUBSET Record
         /\ \A r \in e.of : Received(r) = e.group => RowHolds(e, r)'
<1>1. CASE e \in loads
  <2>1. e.of \in SUBSET Record /\ \A r \in e.of : Received(r) = e.group => RowHolds(e, r)
    BY <1>1 DEF IInv, LogRows, LogIsHonest, RowHolds
  <2>2. ASSUME NEW r, Represented(r, e.of) PROVE Represented(r, e.of)'
    BY <2>1, <2>2, RepresentedStays DEF IInv
  <2>3. rejections \subseteq rejections'
    BY Monotone DEF IInv
  <2>4. ASSUME NEW r \in e.of, RowHolds(e, r) PROVE RowHolds(e, r)'
    BY <2>2, <2>3, <2>4 DEF RowHolds, Valid, Normalized, Duplicate
  <2> QED
    BY <2>1, <2>4
<1>2. CASE e \notin loads
  <2>1. PICK j \in Jobs : Load(j)
    BY <1>2, LogsGrow
  <2>2. e \in Summaries(j)
    BY <1>2, <2>1 DEF Load
  <2> QED
    BY <2>1, <2>2, SummariesHold
<1> QED
  BY <1>1, <1>2

\* A repair says success when nothing of it was rejected, after its load.
LEMMA RepairsStep ==
  ASSUME IInv, [Next]_vars, NEW e \in repairs'
  PROVE  e.of \in SUBSET Record /\ (e.status = "success" => Represented(e.event, e.of)')
<1>1. CASE e \in repairs
  <2>1. e.of \in SUBSET Record /\ (e.status = "success" => Represented(e.event, e.of))
    BY <1>1 DEF IInv, LogRows, LogIsHonest
  <2> QED
    BY <2>1, RepresentedStays DEF IInv
<1>2. CASE e \notin repairs
  <2>1. PICK j \in Jobs : AuditRepairs(j)
    BY <1>2, LogsGrow
  <2>2. PICK r \in work[j] : e = [run |-> This(j), of |-> work[j], event |-> r, status |-> RepairStatus(j)]
    BY <1>2, <2>1 DEF AuditRepairs
  <2>3. e.of = work[j] /\ e.event = r /\ e.status = RepairStatus(j)
    BY <2>2
  <2>4. raw' = raw /\ work[j] \in SUBSET Record /\ Stored(work[j])
    BY <2>1 DEF AuditRepairs, IInv, TypeOK, LoadedIsStored
  <2>5. ASSUME e.status = "success" PROVE \E s \in work[j] : (s = r \/ Duplicate(s, r)) /\ raw'[s.id] # NoRow
    <3>1. Valid(r)
      BY <2>3, <2>5 DEF RepairStatus, Rejected
    <3> QED
      BY <3>1, <2>4 DEF Stored, Represented
  <2> QED
    BY <2>3, <2>4, <2>5 DEF Represented
<1> QED
  BY <1>1, <1>2

\* A reset and its alert are one transaction.
LEMMA ResetStep ==
  ASSUME IInv, [Next]_vars
  PROVE  ResetIsAudited'
<1>1. CASE checkpoints' = checkpoints /\ alerts' = alerts
  BY <1>1 DEF IInv, ResetIsAudited
<1>2. ASSUME NEW j \in Jobs, ResetCheckpoints(j) PROVE ResetIsAudited'
  <2> DEFINE a == [run |-> This(j), tables |-> Wanted[j].tables]
  <2>1. /\ alerts' = alerts \cup {a} /\ a.tables = Wanted[j].tables
        /\ checkpoints' = IF Wanted[j].tables = {} THEN {} ELSE checkpoints \ Wanted[j].tables
    BY <1>2 DEF ResetCheckpoints
  <2> HIDE DEF a
  <2> SUFFICES ASSUME NEW t \in Tables \ checkpoints'
               PROVE  \E b \in alerts' : t \in b.tables \/ b.tables = {}
    BY DEF ResetIsAudited
  <2>2. CASE t \in Tables \ checkpoints
    BY <2>1, <2>2 DEF IInv, ResetIsAudited
  <2>3. CASE t \in checkpoints
    BY <2>1, <2>3
  <2> QED
    BY <2>2, <2>3
<1> QED
  BY <1>1, <1>2, LogsGrow

LEMMA InitIInv == Init => IInv
<1> SUFFICES ASSUME Init PROVE IInv
  OBVIOUS
<1>1. Held
  BY InitHeld
<1> QED
  BY <1>1 DEF Init, IInv, Held, LoadedIsStored, LogRows, LoggedReplayIsStored, ResetIsAudited, LogIsHonest

LEMMA NextIInv == IInv /\ [Next]_vars => IInv'
<1> SUFFICES ASSUME IInv, [Next]_vars PROVE IInv'
  OBVIOUS
<1>1. Held'
  BY NextHeld DEF IInv, Held
<1>2. LoadedIsStored' /\ ResetIsAudited'
  BY LoadedStep, ResetStep
<1>3. LogRows'
  BY ReplaysStep, LoadsStep, RepairsStep DEF LogRows
<1>4. LoggedReplayIsStored'
  BY ReplaysStep DEF LoggedReplayIsStored
<1>5. LogIsHonest'
  BY LoadsStep, RepairsStep DEF LogIsHonest, RowHolds
<1> QED
  BY <1>1, <1>2, <1>3, <1>4, <1>5 DEF IInv, Held

LEMMA SpecIInv == Spec => []IInv
BY InitIInv, NextIInv, PTL DEF Spec

-----------------------------------------------------------------------------

\* The variables keep their types.
THEOREM ReplayTyped == Spec => []TypeOK
<1>1. IInv => TypeOK
  BY DEF IInv
<1> QED
  BY <1>1, SpecIInv, PTL

\* A logged replay has stored what it selected, each record itself or by a
\* duplicate the filter kept; if another replay took its file, what it read.
THEOREM ReplayIsStored == Spec => []LoggedReplayIsStored
<1>1. IInv => LoggedReplayIsStored
  BY DEF IInv
<1> QED
  BY <1>1, SpecIInv, PTL

\* No checkpoint disappears without an alert, whatever crashes.
THEOREM ResetHasAlert == Spec => []ResetIsAudited
<1>1. IInv => ResetIsAudited
  BY DEF IInv
<1> QED
  BY <1>1, SpecIInv, PTL

\* The load log and the repair log say what was stored, whatever else ran
\* beside a job and wherever it died.
THEOREM LogsAreHonest == Spec => []LogIsHonest
<1>1. IInv => LogIsHonest
  BY DEF IInv
<1> QED
  BY <1>1, SpecIInv, PTL

-----------------------------------------------------------------------------
(* The contract gate.  FieldLemma: without a breaking finding, a field rejects *)
(* a value it accepted before only in a blind spot.  Chains of changes follow  *)
(* because Conforms says something of each field alone; a process with an old  *)
(* contract is one more payload-accepting end of the chain, so the invariant   *)
(* says of what it would accept what the property says of what is stored.      *)

FieldHolds(c, f, x) == RequiredHolds(c, f, x) /\ TypeHolds(c, f, x) /\ EnumHolds(c, f, x)

Excused(v) == \E f \in Fields : <<f, v[f]>> \in tightened

CachesAreOfTheChain ==
  \A p \in Processes, v \in Payloads :
    cached[p] # Unread /\ Conforms(cached[p], v) => Conforms(contract, v) \/ Excused(v)

GateInv == GateTypeOK /\ StoredStaysValid /\ CachesAreOfTheChain

-----------------------------------------------------------------------------
LEMMA PassesNoBreaking ==
  ASSUME NEW c, NEW d, Passes(c, d), c # d, c # NoContract, d # NoContract
  PROVE  /\ \A x \in RequiredFindings(c, d) : x.compatibility # "breaking"
         /\ \A x \in TypeFindings(c, d) : x.compatibility # "breaking"
         /\ \A x \in EnumFindings(c, d) : x.compatibility # "breaking"
BY DEF Passes, Findings

LEMMA BreakingIsEmpty ==
  ASSUME NEW change, NEW S, NEW T, Finding(change, "breaking", S) \subseteq T,
         \A x \in T : x.compatibility # "breaking"
  PROVE  S = {}
<1> SUFFICES ASSUME NEW f \in S PROVE FALSE
  OBVIOUS
<1>1. [change |-> change, compatibility |-> "breaking", field |-> f] \in T
  BY DEF Finding
<1> QED
  BY <1>1

\* What the absence of a breaking finding says of two contracts.
LEMMA PassedShape ==
  ASSUME NEW c \in Contract, NEW d \in Contract, Passes(c, d)
  PROVE  /\ d.required = c.required
         /\ \A f \in Fields : f \in Typed(c) /\ f \in Typed(d) => d.types[f] = c.types[f]
         /\ \A f \in Fields : f \in Listed(c) => c.enums[f] \subseteq ListOf(d, f)
<1>1. CASE c = d
  BY <1>1 DEF ListOf
<1>2. CASE c # d
  <2>1. c # NoContract /\ d # NoContract
    BY GateAssumption
  <2>2. /\ \A x \in RequiredFindings(c, d) : x.compatibility # "breaking"
        /\ \A x \in TypeFindings(c, d) : x.compatibility # "breaking"
        /\ \A x \in EnumFindings(c, d) : x.compatibility # "breaking"
    BY <1>2, <2>1, PassesNoBreaking
  <2>3. c.required \ d.required = {} /\ d.required \ c.required = {}
    <3>1. Finding("removed_required_field", "breaking", c.required \ d.required) \subseteq RequiredFindings(c, d)
      BY DEF RequiredFindings
    <3>2. Finding("added_required_field", "breaking", d.required \ c.required) \subseteq RequiredFindings(c, d)
      BY DEF RequiredFindings
    <3> QED
      BY <3>1, <3>2, <2>2, BreakingIsEmpty
  <2>4. {f \in Typed(c) \cap Typed(d) : d.types[f] # c.types[f]} = {}
    <3>1. Finding("type_changed", "breaking", {f \in Typed(c) \cap Typed(d) : d.types[f] # c.types[f]})
            \subseteq TypeFindings(c, d)
      BY DEF TypeFindings
    <3> QED
      BY <3>1, <2>2, BreakingIsEmpty
  <2>5. {f \in Listed(c) : c.enums[f] \ ListOf(d, f) # {}} = {}
    <3>1. Finding("removed_enum_value", "breaking", {f \in Listed(c) : c.enums[f] \ ListOf(d, f) # {}})
            \subseteq EnumFindings(c, d)
      BY DEF EnumFindings
    <3> QED
      BY <3>1, <2>2, BreakingIsEmpty
  <2>6. d.required = c.required
    BY <2>3 DEF Contract
  <2> QED
    BY <2>4, <2>5, <2>6
<1> QED
  BY <1>1, <1>2

LEMMA FieldLemma ==
  ASSUME NEW c \in Contract, NEW d \in Contract, Passes(c, d),
         NEW f \in Fields, NEW x \in Cell, FieldHolds(c, f, x), ~FieldHolds(d, f, x)
  PROVE  BlindSpot(c, d, f, x)
<1>1. /\ d.required = c.required
      /\ f \in Typed(c) /\ f \in Typed(d) => d.types[f] = c.types[f]
      /\ f \in Listed(c) => c.enums[f] \subseteq ListOf(d, f)
  BY PassedShape
<1>2. c # NoContract /\ d # NoContract
  BY GateAssumption
<1>3. CASE ~RequiredHolds(d, f, x)
  BY <1>1, <1>3 DEF FieldHolds, RequiredHolds
<1>4. CASE ~TypeHolds(d, f, x)
  <2>1. CASE f \in Typed(d) /\ x = Null /\ f \notin d.nullable
    <3>1. CASE f \in Typed(c)
      BY <2>1, <3>1, <1>2 DEF FieldHolds, TypeHolds, BlindSpot
    <3>2. CASE f \notin Typed(c)
      BY <2>1, <3>2, <1>2, GateAssumption DEF BlindSpot
    <3> QED
      BY <3>1, <3>2
  <2>2. CASE f \in Typed(d) /\ Given(x) /\ d.types[f] \notin Matches[x]
    <3>1. f \notin Typed(c)
      BY <2>2, <1>1 DEF FieldHolds, TypeHolds
    <3> QED
      BY <2>2, <3>1, <1>2 DEF BlindSpot, Given
  <2> QED
    BY <2>1, <2>2, <1>4 DEF TypeHolds
<1>5. CASE ~EnumHolds(d, f, x)
  <2>1. f \in Listed(d) /\ Given(x) /\ x \notin d.enums[f]
    BY <1>5 DEF EnumHolds
  <2>2. f \notin Listed(c)
    BY <2>1, <1>1 DEF FieldHolds, EnumHolds, ListOf
  <2> QED
    BY <2>1, <2>2, <1>2 DEF BlindSpot
<1> QED
  BY <1>3, <1>4, <1>5 DEF FieldHolds

\* A payload that a gated change puts an end to has a field in a blind spot.
LEMMA PayloadLemma ==
  ASSUME NEW c \in Contracts, NEW d \in Contracts, Passes(c, d),
         NEW v \in Payloads, Conforms(c, v), ~Conforms(d, v)
  PROVE  \E f \in Fields : BlindSpot(c, d, f, v[f])
<1>1. d # NoContract /\ d \in Contract
  BY GateAssumption DEF Conforms
<1>2. PICK f \in Fields : ~FieldHolds(d, f, v[f])
  BY <1>1 DEF Conforms, FieldHolds
<1>3. CASE c = NoContract
  BY <1>1, <1>2, <1>3 DEF BlindSpot
<1>4. CASE c # NoContract
  <2>1. c \in Contract /\ v[f] \in Cell
    BY <1>4, GateAssumption
  <2>2. FieldHolds(c, f, v[f])
    BY <1>4 DEF Conforms, FieldHolds
  <2> QED
    BY <1>1, <1>2, <2>1, <2>2, FieldLemma
<1> QED
  BY <1>3, <1>4

-----------------------------------------------------------------------------
LEMMA AdoptGate ==
  ASSUME GateInv, NEW d \in Contracts, Adopt(d)
  PROVE  GateInv'
<1>1. /\ contract \in Contracts /\ contract' = d /\ cached' = cached /\ stored' = stored
      /\ Passes(contract, d)
      /\ tightened' = tightened \cup BlindSpots(contract, d)
  BY DEF GateInv, GateTypeOK, Adopt
<1>2. GateTypeOK'
  BY <1>1 DEF GateInv, GateTypeOK, BlindSpots
<1>3. ASSUME NEW v \in Payloads, Conforms(contract, v) \/ Excused(v)
      PROVE  Conforms(contract', v) \/ Excused(v)'
  <2>1. CASE Excused(v)
    BY <2>1, <1>1 DEF Excused
  <2>2. CASE Conforms(contract, v) /\ ~Conforms(d, v)
    <3>1. PICK f \in Fields : BlindSpot(contract, d, f, v[f])
      BY <2>2, <1>1, PayloadLemma
    <3>2. v[f] \in Cell
      BY GateAssumption
    <3>3. <<f, v[f]>> \in BlindSpots(contract, d)
      BY <3>1, <3>2 DEF BlindSpots
    <3> QED
      BY <3>3, <1>1 DEF Excused
  <2> QED
    BY <2>1, <2>2, <1>3, <1>1
<1>4. StoredStaysValid'
  BY <1>1, <1>3 DEF GateInv, GateTypeOK, StoredStaysValid, Excused
<1>5. CachesAreOfTheChain'
  BY <1>1, <1>3 DEF GateInv, CachesAreOfTheChain
<1> QED
  BY <1>2, <1>4, <1>5 DEF GateInv

LEMMA ReadGate ==
  ASSUME GateInv, NEW p \in Processes, Read(p) \/ Exit(p)
  PROVE  GateInv'
<1>1. /\ contract' = contract /\ stored' = stored /\ tightened' = tightened
      /\ \A q \in Processes : cached'[q] = cached[q] \/ cached'[q] \in {contract, Unread}
      /\ cached' \in [Processes -> Contracts \cup {Unread}]
  BY DEF GateInv, GateTypeOK, Read, Exit
<1>2. GateTypeOK' /\ StoredStaysValid'
  BY <1>1 DEF GateInv, GateTypeOK, StoredStaysValid
<1>3. CachesAreOfTheChain'
  BY <1>1 DEF GateInv, CachesAreOfTheChain, Excused
<1> QED
  BY <1>2, <1>3 DEF GateInv

LEMMA AcceptGate ==
  ASSUME GateInv, NEW p \in Processes, NEW v \in Payloads, Accept(p, v)
  PROVE  GateInv'
<1>1. /\ contract' = contract /\ cached' = cached /\ tightened' = tightened
      /\ stored' = stored \cup {v} /\ cached[p] # Unread /\ Conforms(cached[p], v)
  BY DEF Accept
<1>2. Conforms(contract, v) \/ Excused(v)
  BY <1>1 DEF GateInv, CachesAreOfTheChain
<1>3. GateTypeOK' /\ CachesAreOfTheChain'
  BY <1>1 DEF GateInv, GateTypeOK, CachesAreOfTheChain, Excused
<1>4. StoredStaysValid'
  BY <1>1, <1>2 DEF GateInv, StoredStaysValid, Excused
<1> QED
  BY <1>3, <1>4 DEF GateInv

LEMMA SpecGateInv == GateSpec => []GateInv
<1>1. GateInit => GateInv
  BY GateAssumption DEF GateInit, GateInv, GateTypeOK, StoredStaysValid, CachesAreOfTheChain
<1>2. GateInv /\ [GateNext]_gateVars => GateInv'
  <2> SUFFICES ASSUME GateInv, [GateNext]_gateVars PROVE GateInv'
    OBVIOUS
  <2>1. CASE UNCHANGED gateVars
    BY <2>1 DEF gateVars, GateInv, GateTypeOK, StoredStaysValid, CachesAreOfTheChain, Excused
  <2> QED
    BY <2>1, AdoptGate, ReadGate, AcceptGate DEF GateNext
<1> QED
  BY <1>1, <1>2, PTL DEF GateSpec

-----------------------------------------------------------------------------

\* The variables keep their types.
THEOREM GateTyped == GateSpec => []GateTypeOK
<1>1. GateInv => GateTypeOK
  BY DEF GateInv
<1> QED
  BY <1>1, SpecGateInv, PTL

\* Through any chain of gated changes, and with processes that hold contracts
\* of any age, a stored payload is accepted again but for blind spots.
THEOREM ReplayIsAccepted == GateSpec => []StoredStaysValid
<1>1. GateInv => StoredStaysValid
  BY DEF GateInv
<1> QED
  BY <1>1, SpecGateInv, PTL

\* A change that passes the gate rejects nothing new outside its blind spots.
THEOREM GateSound == GateSpec => GateIsSound
<1>1. GateInv /\ [GateNext]_gateVars =>
        [\A v \in Payloads :
           Conforms(contract, v) /\ ~Conforms(contract', v)
             => \E f \in Fields : BlindSpot(contract, contract', f, v[f])]_gateVars
  <2> SUFFICES ASSUME GateInv, GateNext, NEW v \in Payloads, Conforms(contract, v), ~Conforms(contract', v)
               PROVE  \E f \in Fields : BlindSpot(contract, contract', f, v[f])
    BY DEF gateVars
  <2>1. contract' # contract
    OBVIOUS
  <2>2. PICK d \in Contracts : Adopt(d)
    BY <2>1 DEF GateNext, Read, Exit, Accept
  <2> QED
    BY <2>2, PayloadLemma DEF GateInv, GateTypeOK, Adopt
<1> QED
  BY <1>1, SpecGateInv, PTL DEF GateSpec, GateIsSound
=============================================================================
