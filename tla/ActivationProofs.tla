--------------------------- MODULE ActivationProofs ---------------------------
(***************************************************************************)
(* Proofs about Activation, for every set of customers and records, every   *)
(* behaviour of the destination, and any number of crashes.                 *)
(***************************************************************************)
EXTENDS Activation, TLAPS

\* The customers an export knows, suppresses and exports.
LEMMA ExportTyped ==
  ASSUME TypeOK
  PROVE  /\ Known \subseteq Customers
         /\ SuppressedNow(RequestsRead) \subseteq Customers
         /\ ExportRows \subseteq Customers
         /\ SuppressedNow(RequestsRead) \cap ExportRows = {}
BY DEF TypeOK, Known, SuppressedNow, ExportRows

\* A payload that has aged is a payload, and not the current one.
LEMMA AgedTyped ==
  \A p \in Payload : Aged(p) \in Payload /\ Aged(p) # "current"
BY DEF Aged, Payload

\* Type correctness; only a running sync has rows to do.
LEMMA TypeStep ==
  ASSUME TypeOK, MemoryIsLocal, [Next]_vars
  PROVE  TypeOK'
<1> USE DEF inputs, files, run
<1>1. ASSUME NEW r \in Records, NEW t \in Times, NEW g \in BOOLEAN, LandConsent(r, t, g)
      PROVE  TypeOK'
  <2>1. consents' \subseteq ConsentEvent
    BY <1>1 DEF TypeOK, LandConsent, ConsentEvent
  <2> QED BY <1>1, <2>1 DEF TypeOK, LandConsent
<1>2. ASSUME NEW c \in Customers, RequestDeletion(c)
      PROVE  TypeOK'
  BY <1>2 DEF TypeOK, RequestDeletion
<1>3. ASSUME NEW f \in Resolutions, Resolve(f)
      PROVE  TypeOK'
  <2>1. owner' \in [Records -> Customers]
    BY <1>3, ActivationAssumption DEF Resolve
  <2> QED BY <1>3, <2>1 DEF TypeOK, Resolve
<1>4. CASE WriteIdentity
  BY <1>4, ExportTyped DEF TypeOK, WriteIdentity
<1>5. CASE Export
  <2>1. /\ saved' \in [Customers -> Payload] /\ dest' \in [Customers -> Payload]
        /\ sent' \in [Customers -> Nat]
    BY <1>5, AgedTyped DEF TypeOK, Export
  <2>2. computed' \subseteq Customers /\ exports' \subseteq Customers /\ pc' \in Stages
    BY <1>5, ExportTyped DEF Export, Stages
  <2>3. todo' = {}
    BY <1>5 DEF Export, MemoryIsLocal
  <2> QED BY <1>5, <2>1, <2>2, <2>3 DEF TypeOK, Export
<1>6. CASE Publish
  BY <1>6 DEF TypeOK, Publish, Stages
<1>7. CASE Gate
  BY <1>7 DEF TypeOK, Gate, Stages
<1>8. CASE StartSync
  BY <1>8 DEF TypeOK, StartSync, Stages, RowsToSync, Loaded
<1>9. ASSUME NEW c \in Customers, SyncRow(c)
      PROVE  TypeOK'
  <2>1. memory' \in [Customers -> Payload]
    BY <1>9 DEF TypeOK, SyncRow, Payload
  <2>2. dest' \in [Customers -> Payload] /\ sent' \in [Customers -> Nat]
    BY <1>9 DEF TypeOK, SyncRow, Payload
  <2> QED BY <1>9, <2>1, <2>2 DEF TypeOK, SyncRow
<1>10. CASE FinishSync
  BY <1>10 DEF TypeOK, FinishSync, Stages, Payload
<1>11. CASE Rerun \/ NextRun
  BY <1>11 DEF TypeOK, Rerun, NextRun, Stages
<1>12. CASE Crash
  <2>1. faults' \in 0..MaxFaults
    BY <1>12, ActivationAssumption DEF TypeOK, Crash
  <2> QED BY <1>12, <2>1 DEF TypeOK, Crash, Stages, Payload
<1>13. CASE UNCHANGED vars
  BY <1>13 DEF TypeOK, vars
<1> QED
  BY <1>1, <1>2, <1>3, <1>4, <1>5, <1>6, <1>7, <1>8, <1>9, <1>10, <1>11, <1>12, <1>13
  DEF Next, Pipeline
-----------------------------------------------------------------------------
\* The steps of the world around a run: nothing of the run changes.
Outside ==
  \/ \E r \in Records, t \in Times, g \in BOOLEAN : LandConsent(r, t, g)
  \/ \E c \in Customers : RequestDeletion(c)
  \/ \E f \in Resolutions : Resolve(f)
  \/ WriteIdentity
  \/ UNCHANGED vars

LEMMA OutsideLeavesRun ==
  ASSUME Outside
  PROVE  UNCHANGED run
BY DEF Outside, LandConsent, RequestDeletion, Resolve, WriteIdentity, vars, run, files, inputs

LEMMA NextCases ==
  ASSUME [Next]_vars
  PROVE  \/ Outside
         \/ Export \/ Publish \/ Gate \/ StartSync
         \/ \E c \in Customers : SyncRow(c)
         \/ FinishSync \/ Rerun \/ NextRun \/ Crash
BY DEF Next, Pipeline, Outside

\* The export files and the list are of one view before the gate sees them
\* (exporter.py:383-398).
LEMMA FilesStep ==
  ASSUME IndInv, [Next]_vars
  PROVE  (ComputedAgrees /\ FilesAgree /\ MemoryIsLocal)'
<1> USE DEF IndInv, inputs, files
<1>1. CASE Outside
  BY <1>1, OutsideLeavesRun DEF run, ComputedAgrees, FilesAgree, MemoryIsLocal
<1>2. CASE Export
  <2>1. computed' \cap exports' = {} /\ pc' = "writing"
    BY <1>2, ExportTyped DEF Export
  <2> QED BY <1>2, <2>1 DEF Export, ComputedAgrees, FilesAgree, MemoryIsLocal
<1>3. CASE Publish \/ Gate
  BY <1>3 DEF Publish, Gate, ComputedAgrees, FilesAgree, MemoryIsLocal
<1>4. CASE StartSync
  BY <1>4 DEF StartSync, ComputedAgrees, FilesAgree, MemoryIsLocal
<1>5. ASSUME NEW c \in Customers, SyncRow(c)
      PROVE  (ComputedAgrees /\ FilesAgree /\ MemoryIsLocal)'
  BY <1>5 DEF SyncRow, ComputedAgrees, FilesAgree, MemoryIsLocal
<1>6. CASE FinishSync \/ Rerun \/ NextRun \/ Crash
  BY <1>6 DEF FinishSync, Rerun, NextRun, Crash, ComputedAgrees, FilesAgree, MemoryIsLocal
<1> QED
  BY <1>1, <1>2, <1>3, <1>4, <1>5, <1>6, NextCases

\* What the state says of a row the destination has seen, and a row is sent
\* again only when a crash lost the state that held it
\* (simulator.py:265-297, 428-445).
LEMMA SyncStep ==
  ASSUME IndInv, [Next]_vars
  PROVE  (SkipIsSound /\ SentIsHeld /\ PassedIsSent)'
<1> USE DEF IndInv, inputs, files
<1>1. CASE Outside
  BY <1>1, OutsideLeavesRun DEF run, SkipIsSound, SentIsHeld, Held, PassedIsSent, Succeeds, Outcome
<1>2. CASE Export
  <2>1. \A c \in Customers : saved'[c] # "current" /\ sent'[c] = 0 /\ memory'[c] = "none"
    BY <1>2, AgedTyped DEF Export, TypeOK, MemoryIsLocal
  <2>2. pc' = "writing" /\ faults' \in Nat
    BY <1>2, ActivationAssumption DEF Export, TypeOK
  <2> QED BY <2>1, <2>2 DEF SkipIsSound, SentIsHeld, Held, PassedIsSent
<1>3. CASE Publish \/ Gate
  <2>1. /\ UNCHANGED <<saved, memory, dest, sent, faults>>
        /\ pc # "syncing" /\ pc' \notin {"syncing", "synced"}
    BY <1>3 DEF Publish, Gate
  <2> QED BY <2>1 DEF SkipIsSound, SentIsHeld, Held, PassedIsSent
<1>4. CASE StartSync
  <2>1. /\ UNCHANGED <<saved, dest, sent, faults, exports>> /\ memory' = saved
        /\ pc = "approved" /\ pc' = "syncing" /\ todo' = exports
    BY <1>4 DEF StartSync, Loaded, RowsToSync
  <2> QED BY <2>1 DEF SkipIsSound, SentIsHeld, Held, PassedIsSent
<1>5. ASSUME NEW c \in Customers, SyncRow(c)
      PROVE  (SkipIsSound /\ SentIsHeld /\ PassedIsSent)'
  <2>1. /\ pc = "syncing" /\ pc' = "syncing" /\ c \in todo /\ todo' = todo \ {c}
        /\ UNCHANGED <<saved, faults, exports>>
    BY <1>5 DEF SyncRow
  <2>2. \A e \in Customers \ {c} : /\ memory'[e] = memory[e] /\ dest'[e] = dest[e]
                                  /\ sent'[e] = sent[e]
    BY <1>5 DEF SyncRow, TypeOK
  <2>3. faults \in Nat /\ sent[c] \in Nat /\ exports \subseteq Customers
    BY ActivationAssumption DEF TypeOK
  <2>4. CASE Succeeds(c) /\ memory[c] # "current"
    <3>1. memory'[c] = "current" /\ dest'[c] = "current" /\ sent'[c] = sent[c] + 1
      BY <1>5, <2>4 DEF SyncRow, Recorded, Unchanged, TypeOK
    <3>2. sent'[c] <= faults + 1
      BY <2>1, <2>3, <2>4, <3>1 DEF SentIsHeld, Held
    <3>3. SkipIsSound' /\ SentIsHeld'
      BY <2>1, <2>2, <3>1, <3>2 DEF SkipIsSound, SentIsHeld, Held
    <3>4. PassedIsSent'
      BY <2>1, <2>2, <2>3, <3>1 DEF PassedIsSent, Succeeds, Outcome
    <3> QED BY <3>3, <3>4
  <2>5. CASE Succeeds(c) /\ memory[c] = "current"
    <3>1. memory'[c] = "current" /\ dest'[c] = "current" /\ sent'[c] = sent[c]
      BY <1>5, <2>5 DEF SyncRow, Recorded, Unchanged, SkipIsSound, TypeOK
    <3>2. SkipIsSound' /\ SentIsHeld'
      BY <2>1, <2>2, <2>5, <3>1 DEF SkipIsSound, SentIsHeld, Held
    <3>3. PassedIsSent'
      BY <2>1, <2>2, <2>3, <3>1 DEF PassedIsSent, Succeeds, Outcome
    <3> QED BY <3>2, <3>3
  <2>6. CASE ~Succeeds(c)
    <3>1. memory' = memory /\ dest' = dest /\ sent' = sent
      BY <1>5, <2>6 DEF SyncRow, Recorded
    <3>2. SkipIsSound' /\ SentIsHeld'
      BY <2>1, <3>1 DEF SkipIsSound, SentIsHeld, Held
    <3>3. PassedIsSent'
      BY <2>1, <2>6, <3>1 DEF PassedIsSent, Succeeds, Outcome
    <3> QED BY <3>2, <3>3
  <2> QED BY <2>4, <2>5, <2>6
<1>6. CASE FinishSync
  <2>1. /\ pc = "syncing" /\ todo = {} /\ pc' = "synced" /\ saved' = memory
        /\ \A c \in Customers : memory'[c] = "none"
        /\ UNCHANGED <<exports, todo, dest, sent, faults>>
    BY <1>6 DEF FinishSync
  <2> QED BY <2>1 DEF SkipIsSound, SentIsHeld, Held, PassedIsSent, Succeeds, Outcome
<1>7. CASE Rerun \/ NextRun
  <2>1. pc = "synced" /\ pc' \in {"approved", "idle"} /\ UNCHANGED <<saved, memory, dest, sent, faults>>
    BY <1>7 DEF Rerun, NextRun
  <2> QED BY <2>1 DEF SkipIsSound, SentIsHeld, Held, PassedIsSent
<1>8. CASE Crash
  <2>1. /\ pc' \in {"approved", "idle"} /\ UNCHANGED <<saved, dest, sent>>
        /\ \A c \in Customers : memory'[c] = "none"
        /\ faults' = faults + 1
    BY <1>8 DEF Crash
  <2>2. \A c \in Customers : sent[c] \in Nat /\ faults \in Nat /\ sent[c] <= faults + 1
    BY ActivationAssumption DEF TypeOK, SentIsHeld
  <2> QED BY <2>1, <2>2 DEF SkipIsSound, SentIsHeld, Held, PassedIsSent
<1> QED
  BY <1>1, <1>2, <1>3, <1>4, <1>5, <1>6, <1>7, <1>8, NextCases

\* With three attempts every row but an invalid one is delivered
\* (_classify_attempt; the destinations have max_retries = 3).
LEMMA ThreeAttemptsDeliver ==
  ASSUME MaxRetries >= 3, NEW c \in Customers, Class[c] # "invalid"
  PROVE  Succeeds(c)
<1>1. Class[c] \in Classes /\ MaxRetries \in Nat
  BY ActivationAssumption
<1>2. 1 \in 1..MaxRetries /\ 2 \in 1..MaxRetries /\ 3 \in 1..MaxRetries
  BY <1>1
<1>3. CASE Class[c] = "plain"
  <2>1. Outcome(c, 1) = "ok" /\ 1..(1 - 1) = {}
    BY <1>3 DEF Outcome
  <2> QED BY <1>2, <2>1 DEF Succeeds
<1>4. CASE Class[c] = "limited"
  <2>1. Outcome(c, 2) = "ok" /\ Outcome(c, 1) = "retry" /\ 1..(2 - 1) = {1}
    BY <1>4 DEF Outcome
  <2> QED BY <1>2, <2>1 DEF Succeeds
<1>5. CASE Class[c] = "flaky"
  <2>1. /\ Outcome(c, 3) = "ok" /\ Outcome(c, 2) = "retry" /\ Outcome(c, 1) = "retry"
        /\ 1..(3 - 1) = {1, 2}
    BY <1>5 DEF Outcome
  <2> QED BY <1>2, <2>1 DEF Succeeds
<1> QED
  BY <1>1, <1>3, <1>4, <1>5 DEF Classes
-----------------------------------------------------------------------------
LEMMA InitIndInv == Init => IndInv
<1> SUFFICES ASSUME Init PROVE IndInv
  OBVIOUS
<1>1. TypeOK
  BY ActivationAssumption DEF Init, TypeOK, Stages, Payload
<1>2. FilesAgree /\ SkipIsSound /\ ComputedAgrees /\ MemoryIsLocal /\ SentIsHeld /\ PassedIsSent
  BY DEF Init, FilesAgree, SkipIsSound, ComputedAgrees, MemoryIsLocal, SentIsHeld, Held, PassedIsSent
<1> QED
  BY <1>1, <1>2 DEF IndInv

\* The inductive invariant holds in every reachable state.
THEOREM SpecIndInv == Spec => []IndInv
<1>1. IndInv /\ [Next]_vars => IndInv'
  BY TypeStep, FilesStep, SyncStep DEF IndInv
<1> QED
  BY InitIndInv, <1>1, PTL DEF Spec

\* Type correctness; the sync only has rows of the export before it.
THEOREM SpecTypeOK == Spec => []TypeOK
BY SpecIndInv, PTL DEF IndInv

\* Whatever crashes between the writes of the exporter, the files a sync starts
\* from are of one view of consents and deletions (exporter.py:383-398).
THEOREM ExportFilesAgree == Spec => []FilesAgree
BY SpecIndInv, PTL DEF IndInv

\* A row is only skipped when the destination holds it (simulator.py:265-267).
THEOREM SkipsAreSound == Spec => []SkipIsSound
BY SpecIndInv, PTL DEF IndInv

\* Of one export, n crashes send a row at most n + 1 times (simulator.py:428-445).
THEOREM ResendsNeedCrashes == Spec => []SentOncePerCrash
<1>1. IndInv => SentOncePerCrash
  <2> SUFFICES ASSUME IndInv, NEW c \in Customers
               PROVE  sent[c] <= 1 + faults
    BY DEF SentOncePerCrash
  <2> QED BY ActivationAssumption DEF IndInv, TypeOK, SentIsHeld
<1> QED
  BY SpecIndInv, <1>1, PTL

\* With max_retries of at least three, as all destinations have, a finished sync
\* has delivered every row but the invalid ones (simulator.py:104-109, 257-297).
THEOREM SyncsAreComplete ==
  ASSUME MaxRetries >= 3
  PROVE  Spec => []SyncIsComplete
<1>1. IndInv => SyncIsComplete
  <2> SUFFICES ASSUME IndInv, pc = "synced", NEW c \in exports
               PROVE  dest[c] = "current" \/ Class[c] = "invalid"
    BY DEF SyncIsComplete
  <2>1. c \in Customers /\ c \in exports \ todo
    BY DEF IndInv, TypeOK, MemoryIsLocal
  <2>2. dest[c] = "current" \/ ~Succeeds(c)
    BY <2>1 DEF IndInv, PassedIsSent
  <2> QED BY <2>1, <2>2, ThreeAttemptsDeliver
<1> QED
  BY SpecIndInv, <1>1, PTL
=============================================================================
