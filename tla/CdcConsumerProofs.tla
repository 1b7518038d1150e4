--------------------------- MODULE CdcConsumerProofs ---------------------------
(***************************************************************************)
(* Proofs about CdcConsumer, for every set of consumers and partitions,     *)
(* every traffic, batch size and message limit.                             *)
(***************************************************************************)
EXTENDS CdcConsumer, FiniteSetTheorems, WellFoundedInduction, TLAPS

\* Every nonempty set of naturals has a least element.
LEMMA LeastNatural ==
  ASSUME NEW T, T \subseteq Nat, T # {}
  PROVE  \E m \in T : \A n \in T : m <= n
<1>1. IsWellFoundedOn(OpToRel(<, Nat), Nat)
  BY NatLessThanWellFounded
<1>2. PICK m \in T : \A n \in T : ~(<<n, m>> \in OpToRel(<, Nat))
  BY <1>1, WFMin
<1>3. \A n \in T : ~(n < m)
  BY <1>2 DEF OpToRel
<1> QED BY <1>3

\* The index of the first event with id e in a batch that holds one exists, and
\* it carries that id (Inserted in loader.py:131-165 takes the row from there).
LEMMA FirstOfId ==
  ASSUME TypeOK, NEW c \in Consumers, NEW e \in EventIdsOf(c)
  PROVE  /\ FirstIndex(c, e) \in DOMAIN batch[c]
         /\ First(c, e) \in Events(c)
         /\ Msg(First(c, e)).id = e
<1> DEFINE Carries(i) == IsEvent(batch[c][i]) /\ Msg(batch[c][i]).id = e
<1> DEFINE T == {i \in DOMAIN batch[c] : Carries(i)}
<1>1. T \subseteq Nat
  BY DEF TypeOK
<1>2. T # {}
  BY DEF EventIdsOf, Events, Places
<1>3. PICK m \in T : \A n \in T : m <= n
  <2> HIDE DEF T
  <2> QED BY <1>1, <1>2, LeastNatural
<1>4. \E i \in DOMAIN batch[c] : Carries(i) /\ \A j \in DOMAIN batch[c] : Carries(j) => i <= j
  BY <1>3
<1>5. FirstIndex(c, e) \in DOMAIN batch[c] /\ Carries(FirstIndex(c, e))
  BY <1>4 DEF FirstIndex
<1> QED
  BY <1>5 DEF First, Events, Places

\* What a batch holds was delivered and is a message.
LEMMA PlacesTyped ==
  ASSUME TypeOK, BatchDelivered, NEW c \in Consumers, NEW x \in Places(c)
  PROVE  x \in Position /\ x[2] <= Len(log[x[1]]) /\ Msg(x) \in Message
<1>1. x \in Position
  BY DEF Places, TypeOK
<1>2. x[2] <= Len(log[x[1]])
  BY DEF BatchDelivered
<1> QED
  BY <1>1, <1>2, ConsumerAssumption DEF Msg, Position, TypeOK

\* The rows an event batch inserts are rows of raw_cdc_events, one per new id.
LEMMA InsertedRows ==
  ASSUME TypeOK, ReadWithinLog, BatchDelivered, NEW c \in Consumers
  PROVE  /\ Inserted(c) \subseteq Row
         /\ \A r \in Inserted(c) : r.id \in EventIdsOf(c) \ RawIds
         /\ \A e \in EventIdsOf(c) \ RawIds : \E r \in Inserted(c) : r.id = e
         /\ \A r, s \in Inserted(c) : r.id = s.id => r = s
<1>1. ASSUME NEW e \in EventIdsOf(c)
      PROVE  [id |-> e, hash |-> Msg(First(c, e)).hash, at |-> First(c, e)] \in Row
  <2>1. First(c, e) \in Events(c) /\ Msg(First(c, e)).id = e
    BY FirstOfId
  <2>2. First(c, e) \in Places(c)
    BY <2>1 DEF Events
  <2>3. First(c, e) \in Position /\ Msg(First(c, e)) \in Message
    BY <2>2, PlacesTyped
  <2> QED
    BY <2>1, <2>3 DEF Row, Message
<1>2. Inserted(c) \subseteq Row
  BY <1>1 DEF Inserted
<1>3. \A r \in Inserted(c) : r.id \in EventIdsOf(c) \ RawIds
  BY DEF Inserted
<1>4. ASSUME NEW e \in EventIdsOf(c) \ RawIds
      PROVE  \E r \in Inserted(c) : r.id = e
  <2> DEFINE w == [id |-> e, hash |-> Msg(First(c, e)).hash, at |-> First(c, e)]
  <2>1. w \in Inserted(c)
    BY DEF Inserted
  <2>2. w.id = e
    OBVIOUS
  <2> QED
    BY <2>1, <2>2
<1> DEFINE RowOf(e) == [id |-> e, hash |-> Msg(First(c, e)).hash, at |-> First(c, e)]
<1>5. ASSUME NEW r \in Inserted(c)
      PROVE  r = RowOf(r.id)
  <2>1. PICK e \in EventIdsOf(c) \ RawIds :
             r = [id |-> e, hash |-> Msg(First(c, e)).hash, at |-> First(c, e)]
    BY DEF Inserted
  <2>2. r.id = e
    BY <2>1
  <2> QED
    BY <2>1, <2>2
<1>6. \A r, s \in Inserted(c) : r.id = s.id => r = s
  <2> HIDE DEF RowOf
  <2> QED BY <1>5
<1> QED
  BY <1>2, <1>3, <1>4, <1>6

-----------------------------------------------------------------------------
\* A step never unstores a delivered message: rows are only added and the log is
\* only appended to.
LEMMA StoredStable ==
  ASSUME IndInv, [Next]_vars, NEW x \in Position, x[2] <= Len(log[x[1]])
  PROVE  /\ x[2] <= Len(log'[x[1]])
         /\ Msg(x)' = Msg(x)
         /\ Stored(x) => Stored(x)'
<1> USE DEF IndInv
<1>1. x[1] \in Partitions /\ x[2] \in 1..MaxLog /\ x = <<x[1], x[2]>>
  BY DEF Position
<1>2. CASE \E p \in Partitions, m \in Traffic : Produce(p, m)
  <2> PICK p \in Partitions, m \in Traffic : Produce(p, m)
    BY <1>2
  <2>1. UNCHANGED <<raw, rejected>>
    BY DEF Produce, tables
  <2>2. x[2] <= Len(log'[x[1]]) /\ log'[x[1]][x[2]] = log[x[1]][x[2]]
    BY <1>1, ConsumerAssumption DEF Produce, TypeOK
  <2> QED
    BY <2>1, <2>2 DEF Msg, Stored, RawIds
<1>3. CASE \E c \in Consumers : Load(c)
  <2> PICK c \in Consumers : Load(c)
    BY <1>3
  <2>1. log' = log /\ RawIds \subseteq RawIds'
    BY DEF Load, RawIds
  <2>2. rejected[x] > 0 => rejected'[x] > 0
    <3> DEFINE D == {i \in DOMAIN batch[c] : batch[c][i] = x}
    <3>1. Cardinality(D) \in Nat
      <4>1. IsFiniteSet(1..Len(batch[c]))
        BY FS_Interval DEF TypeOK
      <4>2. IsFiniteSet(D)
        BY <4>1, FS_Subset DEF TypeOK
      <4> QED
        BY <4>2, FS_CardinalityType
    <3>2. rejected'[x] = rejected[x] + Cardinality(D) \/ rejected'[x] = rejected[x]
      BY DEF Load
    <3> HIDE DEF D
    <3> QED
      BY <3>1, <3>2 DEF TypeOK
  <2> QED
    BY <2>1, <2>2 DEF Msg, Stored
<1>4. ASSUME UNCHANGED <<log, raw, rejected>>
      PROVE  /\ x[2] <= Len(log'[x[1]])
             /\ Msg(x)' = Msg(x)
             /\ Stored(x) => Stored(x)'
  BY <1>4 DEF Msg, Stored, RawIds
<1>5. CASE \E c \in Consumers, p \in Partitions : Receive(c, p) \/ ReceiveUndecodable(c, p)
  BY <1>4, <1>5 DEF Receive, ReceiveUndecodable, Raise, tables
<1>6. CASE \E c \in Consumers : \/ LoadConflict(c) \/ ResolveBatch(c) \/ Commit(c)
                                \/ CommitRefused(c) \/ DatabaseError(c) \/ Crash(c) \/ Restart(c)
  BY <1>4, <1>6 DEF LoadConflict, ResolveBatch, Commit, CommitRefused, DatabaseError, Crash,
                    Restart, Raise, tables
<1>7. CASE \E M \in SUBSET Consumers : \E owner \in [Partitions -> M] : Rebalance(M, owner)
  BY <1>4, <1>7 DEF Rebalance, tables
<1>8. CASE UNCHANGED vars
  BY <1>4, <1>8 DEF vars
<1> QED
  BY <1>2, <1>3, <1>5, <1>6, <1>7, <1>8 DEF Next, Flush
-----------------------------------------------------------------------------
\* Every step keeps the types and the room a polling process has.
LEMMA TypeStep ==
  ASSUME IndInv, [Next]_vars
  PROVE  TypeOK' /\ RoomWhilePolling'
<1> USE ConsumerAssumption DEF TypeOK, RoomWhilePolling, IndInv, LimitReached
<1>1. ASSUME NEW p \in Partitions, NEW m \in Traffic, Produce(p, m)
      PROVE  TypeOK' /\ RoomWhilePolling'
  BY <1>1 DEF Produce, process, tables
<1>2. ASSUME NEW c \in Consumers, NEW p \in Partitions, Receive(c, p)
      PROVE  TypeOK' /\ RoomWhilePolling'
  <2>1. <<p, position[c][p] + 1>> \in Position
    BY <1>2 DEF Receive, HasNext, Position
  <2>2. batch' \in [Consumers -> Seq(Position)] /\ Len(batch'[c]) = Len(batch[c]) + 1
        /\ \A d \in Consumers \ {c} : batch'[d] = batch[d]
    BY <1>2, <2>1 DEF Receive
  <2>3. position' \in [Consumers -> [Partitions -> 0..MaxLog]]
    BY <1>2, <2>1 DEF Receive, HasNext
  <2>4. /\ count' \in [Consumers -> 0..MaxMessages]
        /\ \A d \in Consumers \ {c} : count'[d] = count[d]
    BY <1>2 DEF Receive
  <2>5. /\ pc' \in [Consumers -> {"poll", "load", "identity", "commit", "stopped"}]
        /\ pc'[c] = "poll" => Len(batch'[c]) < BatchSize /\ ~LimitReached(count'[c])
        /\ pc'[c] # "stopped"
        /\ \A d \in Consumers \ {c} : pc'[d] = pc[d]
    BY <1>2, <2>2, <2>4 DEF Receive, FlushDue
  <2>6. \A d \in Consumers : Len(batch'[d]) <= BatchSize
    BY <1>2, <2>2 DEF Receive
  <2>7. UNCHANGED <<log, committed, group, assigned, raw, rejected, resolved, faults>>
    BY <1>2 DEF Receive, tables
  <2> HIDE DEF LimitReached
  <2>8. RoomWhilePolling'
    BY <2>2, <2>4, <2>5
  <2> QED
    BY <2>2, <2>3, <2>4, <2>5, <2>6, <2>7, <2>8
<1>3. ASSUME NEW c \in Consumers, Raise(c), faults' \in 0..MaxFaults
      PROVE  TypeOK' /\ RoomWhilePolling'
  BY <1>3 DEF Raise, Stop, tables
<1>4. ASSUME NEW c \in Consumers, Load(c)
      PROVE  TypeOK' /\ RoomWhilePolling'
  <2>1. raw' \subseteq Row
    BY <1>4, InsertedRows DEF Load
  <2>2. rejected' \in [Position -> Nat]
    <3> DEFINE Times(x) == Cardinality({i \in DOMAIN batch[c] : batch[c][i] = x})
    <3>1. \A x \in Position : Times(x) \in Nat
      <4>1. IsFiniteSet(DOMAIN batch[c])
        BY FS_Interval
      <4> QED
        BY <4>1, FS_Subset, FS_CardinalityType
    <3>2. rejected' = [x \in Position |->
             IF x \in Rejects(c) THEN rejected[x] + Times(x) ELSE rejected[x]]
      BY <1>4 DEF Load
    <3> HIDE DEF Times
    <3>3. \A x \in Position : rejected[x] + Times(x) \in Nat
      BY <3>1
    <3> QED
      BY <3>2, <3>3
  <2> QED
    BY <1>4, <2>1, <2>2 DEF Load, AfterLoad
<1>5. ASSUME NEW c \in Consumers, ResolveBatch(c)
      PROVE  TypeOK' /\ RoomWhilePolling'
  <2>1. EventIdsOf(c) \subseteq EventIds
    BY PlacesTyped DEF EventIdsOf, Events, Message
  <2> QED
    BY <1>5, <2>1 DEF ResolveBatch
<1>6. ASSUME NEW c \in Consumers, Commit(c)
      PROVE  TypeOK' /\ RoomWhilePolling'
  <2>1. committed' \in [Partitions -> 0..MaxLog]
    BY <1>6 DEF Commit, AckOffset
  <2>2. UNCHANGED <<log, raw, rejected, resolved, faults>> /\ group' \subseteq Consumers
    BY <1>6 DEF Commit, tables
  <2>3. CASE LimitReached(count[c])
    <3>1. Stop(c)
      BY <1>6, <2>3 DEF Commit
    <3> QED
      BY <2>1, <2>2, <3>1 DEF Stop
  <2>4. CASE ~LimitReached(count[c])
    <3>1. /\ pc' = [pc EXCEPT ![c] = "poll"]
          /\ batch' = [batch EXCEPT ![c] = << >>]
          /\ UNCHANGED <<assigned, position, count>>
      BY <1>6, <2>4 DEF Commit
    <3> QED
      BY <2>1, <2>2, <2>4, <3>1
  <2> QED
    BY <2>3, <2>4
<1>7. ASSUME NEW c \in Consumers, Crash(c)
      PROVE  TypeOK' /\ RoomWhilePolling'
  BY <1>7 DEF Crash, Stop, tables
<1>8. ASSUME NEW c \in Consumers, Restart(c)
      PROVE  TypeOK' /\ RoomWhilePolling'
  <2>1. batch[c] = << >> /\ count[c] = 0
    BY <1>8 DEF Restart
  <2>2. TypeOK'
    BY <1>8 DEF Restart, tables
  <2>3. Len(batch'[c]) < BatchSize /\ ~LimitReached(count'[c])
    BY <1>8, <2>1 DEF Restart
  <2> QED
    BY <1>8, <2>2, <2>3 DEF Restart
<1>9. ASSUME NEW M \in SUBSET Consumers, NEW owner \in [Partitions -> M], Rebalance(M, owner)
      PROVE  TypeOK' /\ RoomWhilePolling'
  <2>1. faults' \in 0..MaxFaults
    <3> DEFINE evicted == {c \in group \ M : pc[c] # "stopped"}
    <3>1. Cardinality(evicted) \in Nat
      BY FS_Subset, FS_CardinalityType
    <3> HIDE DEF evicted
    <3>2. faults' = faults + Cardinality(evicted) /\ faults + Cardinality(evicted) <= MaxFaults
      BY <1>9 DEF Rebalance, evicted
    <3> QED
      BY <3>1, <3>2
  <2> QED
    BY <1>9, <2>1 DEF Rebalance, tables, StartOffset
<1>10. CASE UNCHANGED vars
  BY <1>10 DEF vars
<1>11. ASSUME NEW c \in Consumers,
              \/ \E p \in Partitions : ReceiveUndecodable(c, p)
              \/ LoadConflict(c) \/ CommitRefused(c) \/ DatabaseError(c)
       PROVE  TypeOK' /\ RoomWhilePolling'
  <2>1. Raise(c) /\ faults' \in 0..MaxFaults
    <3>1. CASE DatabaseError(c)
      BY <3>1 DEF DatabaseError
    <3>2. CASE (\E p \in Partitions : ReceiveUndecodable(c, p)) \/ LoadConflict(c) \/ CommitRefused(c)
      BY <3>2 DEF ReceiveUndecodable, LoadConflict, CommitRefused
    <3> QED
      BY <1>11, <3>1, <3>2
  <2> QED
    BY <1>3, <2>1
<1> QED
  BY <1>1, <1>2, <1>4, <1>5, <1>6, <1>7, <1>8, <1>9, <1>10, <1>11 DEF Next, Flush
-----------------------------------------------------------------------------
\* The members of the group keep owning disjoint partitions and keep in memory
\* what they have read past the committed offset.
LEMMA OwnershipStep ==
  ASSUME IndInv, [Next]_vars
  PROVE  OwnersDisjoint' /\ ReadWithinLog' /\ BatchDelivered' /\ ReadIsHeld'
<1> DEFINE Goal == OwnersDisjoint' /\ ReadWithinLog' /\ BatchDelivered' /\ ReadIsHeld'
<1> USE ConsumerAssumption DEF IndInv
<1>a. TypeOK'
  BY TypeStep
<1>1. \A x \in Position : x[2] <= Len(log[x[1]]) =>
         x[2] <= Len(log'[x[1]]) /\ Msg(x)' = Msg(x)
  BY StoredStable
<1>2. \A p \in Partitions : Len(log[p]) <= Len(log'[p])
  <2>1. CASE \E p \in Partitions, m \in Traffic : Produce(p, m)
    BY <2>1 DEF Produce, TypeOK
  <2>2. CASE log' = log
    BY <2>2 DEF TypeOK
  <2> QED
    BY <2>1, <2>2 DEF Next, Flush, vars, Receive, ReceiveUndecodable, Raise, Load, LoadConflict,
       ResolveBatch, Commit, CommitRefused, DatabaseError, Crash, Restart, Rebalance
\* Steps that leave the readers and the offsets alone, or stop a reader.
<1>3. ASSUME NEW c \in Consumers, Stop(c), committed' = committed, group' \subseteq group
      PROVE  Goal
  <2>1. OwnersDisjoint'
    BY <1>3 DEF OwnersDisjoint, Stop, TypeOK
  <2>2. ReadWithinLog'
    BY <1>3, <1>2 DEF ReadWithinLog, Stop, TypeOK
  <2>3. \A d \in Consumers : Places(d)' \subseteq Places(d)
    BY <1>3 DEF Places, Stop, TypeOK
  <2>4. BatchDelivered'
    BY <1>1, <2>3, PlacesTyped DEF BatchDelivered
  <2>5. ReadIsHeld'
    <3> SUFFICES ASSUME NEW d \in group', NEW q \in assigned'[d]
                 PROVE  /\ committed[q] <= position'[d][q]
                        /\ \A o \in (committed[q] + 1)..position'[d][q] : <<q, o>> \in Places(d)'
      BY <1>3 DEF ReadIsHeld
    <3>1. d # c /\ d \in group /\ d \in Consumers
      BY <1>3 DEF Stop, TypeOK
    <3>2. assigned'[d] = assigned[d] /\ position'[d] = position[d] /\ batch'[d] = batch[d]
      BY <1>3, <3>1 DEF Stop, TypeOK
    <3> QED
      BY <3>1, <3>2 DEF ReadIsHeld, Places
  <2> QED
    BY <2>1, <2>2, <2>4, <2>5
<1>4. ASSUME UNCHANGED <<committed, group, assigned, position, batch>>
      PROVE  Goal
  <2>1. \A d \in Consumers : Places(d)' = Places(d)
    BY <1>4 DEF Places
  <2>2. OwnersDisjoint' /\ ReadIsHeld'
    BY <1>4, <2>1 DEF OwnersDisjoint, ReadIsHeld, TypeOK
  <2>3. BatchDelivered'
    BY <1>1, <2>1, PlacesTyped DEF BatchDelivered
  <2>4. ReadWithinLog'
    BY <1>4, <1>2 DEF ReadWithinLog, TypeOK
  <2> QED
    BY <2>2, <2>3, <2>4
<1>5. ASSUME NEW c \in Consumers, NEW p \in Partitions, Receive(c, p)
      PROVE  Goal
  <2> DEFINE x == <<p, position[c][p] + 1>>
  <2>1. /\ p \in assigned[c] /\ position[c][p] < Len(log[p])
        /\ Msg(x).form # "undecodable" /\ x \in Position
        /\ x[1] = p /\ x[2] = position[c][p] + 1
    BY <1>5 DEF Receive, HasNext, Next1, Msg, Position, TypeOK
  <2>2. /\ batch' = [batch EXCEPT ![c] = Append(batch[c], x)]
        /\ position' = [position EXCEPT ![c][p] = position[c][p] + 1]
        /\ UNCHANGED <<log, committed, group, assigned>>
    BY <1>5 DEF Receive, TypeOK
  <2> HIDE DEF x
  <2>3. Places(c)' = Places(c) \cup {x} /\ \A d \in Consumers \ {c} : Places(d)' = Places(d)
    <3>1. batch[c] \in Seq(Position) /\ batch'[c] = Append(batch[c], x)
          /\ \A d \in Consumers \ {c} : batch'[d] = batch[d]
      BY <2>2 DEF TypeOK
    <3>2. /\ DOMAIN batch'[c] = 1..(Len(batch[c]) + 1) /\ DOMAIN batch[c] = 1..Len(batch[c])
          /\ \A i \in DOMAIN batch[c] : batch'[c][i] = batch[c][i]
          /\ batch'[c][Len(batch[c]) + 1] = x
          /\ Len(batch[c]) \in Nat
      BY <2>1, <3>1
    <3>3. DOMAIN batch'[c] = DOMAIN batch[c] \cup {Len(batch[c]) + 1}
      BY <3>2
    <3> QED
      BY <3>1, <3>2, <3>3 DEF Places
  <2>4. OwnersDisjoint'
    BY <2>2 DEF OwnersDisjoint
  <2>5. ReadWithinLog'
    BY <2>1, <2>2 DEF ReadWithinLog, TypeOK
  <2>6. BatchDelivered'
    <3>1. \A y \in Places(c) \cup {x} : y[2] <= Len(log[y[1]]) /\ Msg(y).form # "undecodable"
      BY <2>1, <1>5 DEF BatchDelivered, TypeOK
    <3> QED
      BY <2>2, <2>3, <3>1 DEF BatchDelivered, Msg
  <2>7. ReadIsHeld'
    <3> SUFFICES ASSUME NEW d \in group, NEW q \in assigned[d]
                 PROVE  /\ committed[q] <= position'[d][q]
                        /\ \A o \in (committed[q] + 1)..position'[d][q] : <<q, o>> \in Places(d)'
      BY <2>2 DEF ReadIsHeld
    <3>0. d \in Consumers /\ q \in Partitions
      BY DEF TypeOK
    <3>1. CASE d = c /\ q = p
      <4>1. position'[d][q] = position[c][p] + 1 /\ x = <<p, position[c][p] + 1>>
        BY <2>2, <3>1 DEF TypeOK, x
      <4>2. committed[p] <= position[c][p] /\ committed[p] \in Nat /\ position[c][p] \in Nat
        BY <3>1, <3>0 DEF ReadIsHeld, TypeOK
      <4>3. \A o \in (committed[p] + 1)..position[c][p] : <<p, o>> \in Places(c)
        BY <3>1 DEF ReadIsHeld
      <4> QED
        BY <2>3, <3>1, <4>1, <4>2, <4>3
    <3>2. CASE ~(d = c /\ q = p)
      <4>1. position'[d][q] = position[d][q]
        BY <2>2, <3>0, <3>2 DEF TypeOK
      <4> QED
        BY <2>3, <3>0, <4>1 DEF ReadIsHeld
    <3> QED
      BY <3>1, <3>2
  <2> QED
    BY <2>4, <2>5, <2>6, <2>7
<1>6. ASSUME NEW c \in Consumers, Commit(c), ~LimitReached(count[c])
      PROVE  Goal
  <2>1. /\ batch' = [batch EXCEPT ![c] = << >>]
        /\ UNCHANGED <<log, assigned, position, group>>
        /\ c \in group
        /\ \A p \in Partitions :
             committed'[p] = IF p \in assigned[c] THEN position[c][p] ELSE committed[p]
    BY <1>6 DEF Commit, AckOffset
  <2>2. OwnersDisjoint' /\ ReadWithinLog'
    BY <2>1 DEF OwnersDisjoint, ReadWithinLog
  <2>3. Places(c)' = {} /\ \A d \in Consumers \ {c} : Places(d)' = Places(d)
    BY <2>1 DEF Places, TypeOK
  <2>4. BatchDelivered'
    BY <2>1, <2>3 DEF BatchDelivered, Msg
  <2>5. ReadIsHeld'
    <3> SUFFICES ASSUME NEW d \in group, NEW q \in assigned[d]
                 PROVE  /\ committed'[q] <= position[d][q]
                        /\ \A o \in (committed'[q] + 1)..position[d][q] : <<q, o>> \in Places(d)'
      BY <2>1 DEF ReadIsHeld
    <3>0. d \in Consumers /\ q \in Partitions /\ position[d][q] \in Nat
      BY DEF TypeOK
    <3>1. CASE d = c
      BY <2>1, <3>0, <3>1
    <3>2. CASE d # c
      BY <2>1, <2>3, <3>0, <3>2 DEF OwnersDisjoint, ReadIsHeld
    <3> QED
      BY <3>1, <3>2
  <2> QED
    BY <2>2, <2>4, <2>5
<1>7. ASSUME NEW c \in Consumers, Commit(c), LimitReached(count[c])
      PROVE  Goal
  <2>1. /\ Stop(c) /\ group' = group \ {c} /\ c \in group /\ log' = log
        /\ \A p \in Partitions :
             committed'[p] = IF p \in assigned[c] THEN position[c][p] ELSE committed[p]
    BY <1>7 DEF Commit, AckOffset
  <2>2. OwnersDisjoint' /\ ReadWithinLog'
    BY <2>1 DEF OwnersDisjoint, ReadWithinLog, Stop, TypeOK
  <2>3. Places(c)' = {} /\ \A d \in Consumers \ {c} : Places(d)' = Places(d)
    BY <2>1 DEF Places, Stop, TypeOK
  <2>4. BatchDelivered'
    BY <2>1, <2>3 DEF BatchDelivered, Msg
  <2>5. ReadIsHeld'
    <3> SUFFICES ASSUME NEW d \in group \ {c}, NEW q \in assigned'[d]
                 PROVE  /\ committed'[q] <= position'[d][q]
                        /\ \A o \in (committed'[q] + 1)..position'[d][q] : <<q, o>> \in Places(d)'
      BY <2>1 DEF ReadIsHeld
    <3>1. d \in Consumers /\ assigned'[d] = assigned[d] /\ position'[d] = position[d]
      BY <2>1 DEF Stop, TypeOK
    <3>2. q \in Partitions /\ committed'[q] = committed[q]
      BY <2>1, <3>1 DEF OwnersDisjoint, TypeOK
    <3> QED
      BY <2>3, <3>1, <3>2 DEF ReadIsHeld
  <2> QED
    BY <2>2, <2>4, <2>5
<1>8. ASSUME NEW M \in SUBSET Consumers, NEW owner \in [Partitions -> M], Rebalance(M, owner)
      PROVE  Goal
  <2>1. /\ UNCHANGED <<log, committed, batch>> /\ group' = M
        /\ \A c \in M : assigned'[c] = {p \in Partitions : owner[p] = c}
        /\ \A c \in M, p \in Partitions : position'[c][p] = committed[p]
        /\ \A c \in Consumers \ M : position'[c] = position[c]
    BY <1>8 DEF Rebalance, StartOffset
  <2>2. OwnersDisjoint'
    BY <2>1 DEF OwnersDisjoint
  <2>3. \A p \in Partitions : committed[p] <= Len(log[p])
    <3> SUFFICES ASSUME NEW p \in Partitions
                 PROVE  committed[p] <= Len(log[p])
      OBVIOUS
    <3>1. committed[p] \in Nat /\ Len(log[p]) \in Nat
      BY DEF TypeOK
    <3>2. \A o \in 1..committed[p] : o <= Len(log[p])
      BY DEF CommittedIsStored
    <3> QED
      BY <3>1, <3>2
  <2>4. ReadWithinLog'
    BY <2>1, <2>3 DEF ReadWithinLog
  <2>5. BatchDelivered'
    BY <2>1 DEF BatchDelivered, Places, Msg
  <2>6. ReadIsHeld'
    BY <2>1 DEF ReadIsHeld, TypeOK
  <2> QED
    BY <2>2, <2>4, <2>5, <2>6
<1>9. ASSUME NEW c \in Consumers, Restart(c)
      PROVE  Goal
  <2>1. UNCHANGED <<log, committed, assigned, position, batch>> /\ group' \subseteq group
    BY <1>9 DEF Restart
  <2>2. \A d \in Consumers : Places(d)' = Places(d)
    BY <2>1 DEF Places
  <2>3. OwnersDisjoint' /\ ReadWithinLog'
    BY <2>1 DEF OwnersDisjoint, ReadWithinLog
  <2>4. BatchDelivered'
    BY <2>1, <2>2 DEF BatchDelivered, Msg
  <2>5. ReadIsHeld'
    BY <2>1, <2>2 DEF ReadIsHeld, TypeOK
  <2> QED
    BY <2>3, <2>4, <2>5
<1>10. ASSUME NEW p \in Partitions, NEW m \in Traffic, Produce(p, m)
       PROVE  Goal
  BY <1>10, <1>4 DEF Produce, process
<1>11. ASSUME NEW c \in Consumers,
              \/ \E p \in Partitions : ReceiveUndecodable(c, p)
              \/ LoadConflict(c) \/ CommitRefused(c) \/ DatabaseError(c) \/ Crash(c)
       PROVE  Goal
  BY <1>11, <1>3 DEF ReceiveUndecodable, LoadConflict, CommitRefused, DatabaseError, Crash, Raise
<1>12. ASSUME NEW c \in Consumers, Load(c) \/ ResolveBatch(c)
       PROVE  Goal
  BY <1>12, <1>4 DEF Load, ResolveBatch
<1>13. ASSUME UNCHANGED vars
       PROVE  Goal
  BY <1>13, <1>4 DEF vars
<1>14. ASSUME NEW c \in Consumers, Commit(c)
       PROVE  Goal
  BY <1>6, <1>7, <1>14
<1> HIDE DEF IndInv, Goal
<1>15. Goal
  <2>1. CASE \E c \in Consumers : Flush(c) \/ DatabaseError(c) \/ Crash(c) \/ Restart(c)
    BY <2>1, <1>9, <1>11, <1>12, <1>14 DEF Flush
  <2>2. CASE \E c \in Consumers, p \in Partitions : Receive(c, p) \/ ReceiveUndecodable(c, p)
    BY <2>2, <1>5, <1>11
  <2>3. CASE \E M \in SUBSET Consumers : \E owner \in [Partitions -> M] : Rebalance(M, owner)
    <3>1. PICK M \in SUBSET Consumers : \E owner \in [Partitions -> M] : Rebalance(M, owner)
      BY <2>3
    <3>2. PICK owner \in [Partitions -> M] : Rebalance(M, owner)
      BY <3>1
    <3> QED
      BY <1>8, <3>2
  <2>4. CASE \E p \in Partitions, m \in Traffic : Produce(p, m)
    BY <2>4, <1>10
  <2>5. CASE UNCHANGED vars
    BY <2>5, <1>13
  <2> QED
    BY <2>1, <2>2, <2>3, <2>4, <2>5 DEF Next
<1> QED
  BY <1>15 DEF Goal
-----------------------------------------------------------------------------
\* What a process has flushed is stored and resolved, what is committed too, and
\* the rows of raw_cdc_events keep distinct ids and hashes.
LEMMA StorageStep ==
  ASSUME IndInv, [Next]_vars
  PROVE  /\ FlushedIsStored' /\ FlushedIsResolved'
         /\ CommittedIsStored' /\ CommittedIsResolved' /\ RowsUnique'
<1> DEFINE Goal == /\ FlushedIsStored' /\ FlushedIsResolved'
                   /\ CommittedIsStored' /\ CommittedIsResolved' /\ RowsUnique'
<1> USE ConsumerAssumption DEF IndInv
<1>1. \A x \in Position : x[2] <= Len(log[x[1]]) =>
         /\ x[2] <= Len(log'[x[1]]) /\ Msg(x)' = Msg(x) /\ IsEvent(x)' = IsEvent(x)
         /\ Stored(x) => Stored(x)'
  BY StoredStable DEF IsEvent
\* The messages below the committed offsets are delivered.
<1>2. \A p \in Partitions : \A o \in 1..committed[p] :
         /\ <<p, o>> \in Position /\ o <= Len(log[p])
         /\ Stored(<<p, o>>) /\ Stored(<<p, o>>)'
         /\ o <= Len(log'[p])
         /\ Msg(<<p, o>>)' = Msg(<<p, o>>) /\ IsEvent(<<p, o>>)' = IsEvent(<<p, o>>)
  <2> SUFFICES ASSUME NEW p \in Partitions, NEW o \in 1..committed[p]
               PROVE  /\ <<p, o>> \in Position /\ o <= Len(log[p])
                      /\ Stored(<<p, o>>) /\ Stored(<<p, o>>)'
                      /\ o <= Len(log'[p])
                      /\ Msg(<<p, o>>)' = Msg(<<p, o>>)
                      /\ IsEvent(<<p, o>>)' = IsEvent(<<p, o>>)
    OBVIOUS
  <2>1. o <= Len(log[p]) /\ Stored(<<p, o>>)
    BY DEF CommittedIsStored
  <2>2. <<p, o>> \in Position
    BY DEF TypeOK, Position
  <2> QED
    BY <1>1, <2>1, <2>2
\* Steps that leave the committed offsets alone.
<1>3. ASSUME committed' = committed
      PROVE  CommittedIsStored' /\ (resolved \subseteq resolved' => CommittedIsResolved')
  BY <1>2, <1>3 DEF CommittedIsStored, CommittedIsResolved
\* Steps that flush nothing.
<1>4. ASSUME UNCHANGED <<raw, resolved>>, NEW c \in Consumers,
             \A d \in Consumers \ {c} : batch'[d] = batch[d] /\ pc'[d] = pc[d],
             pc'[c] \notin {"identity", "commit"}
      PROVE  FlushedIsStored' /\ FlushedIsResolved' /\ RowsUnique'
  <2>1. \A d \in Consumers \ {c} : Places(d)' = Places(d)
    BY <1>4 DEF Places
  <2>2. \A d \in Consumers : \A x \in Places(d) :
           /\ Msg(x)' = Msg(x) /\ IsEvent(x)' = IsEvent(x)
           /\ Stored(x) => Stored(x)'
    BY <1>1, PlacesTyped
  <2>3. \A d \in Consumers \ {c} : Events(d)' = Events(d)
    BY <2>1, <2>2 DEF Events
  <2>4. FlushedIsStored'
    BY <1>4, <2>1, <2>2 DEF FlushedIsStored
  <2>5. FlushedIsResolved'
    BY <1>4, <2>2, <2>3 DEF FlushedIsResolved, Events
  <2>6. RowsUnique'
    BY <1>4 DEF RowsUnique
  <2> QED
    BY <2>4, <2>5, <2>6
<1>5. ASSUME UNCHANGED <<raw, resolved, pc, batch, committed>>
      PROVE  Goal
  <2>1. \A d \in Consumers : Places(d)' = Places(d)
    BY <1>5 DEF Places
  <2>2. \A d \in Consumers : \A x \in Places(d) :
           /\ Msg(x)' = Msg(x) /\ IsEvent(x)' = IsEvent(x)
           /\ Stored(x) => Stored(x)'
    BY <1>1, PlacesTyped
  <2>3. \A d \in Consumers : Events(d)' = Events(d)
    BY <2>1, <2>2 DEF Events
  <2>4. FlushedIsStored'
    BY <1>5, <2>1, <2>2 DEF FlushedIsStored
  <2>5. FlushedIsResolved'
    BY <1>5, <2>2, <2>3 DEF FlushedIsResolved, Events
  <2>6. RowsUnique'
    BY <1>5 DEF RowsUnique
  <2> QED
    BY <1>3, <1>5, <2>4, <2>5, <2>6
<1>6. ASSUME NEW c \in Consumers, Stop(c), UNCHANGED <<committed, tables>>
      PROVE  Goal
  BY <1>3, <1>4, <1>6 DEF Stop, tables, TypeOK
<1>7. ASSUME NEW c \in Consumers, NEW p \in Partitions, Receive(c, p)
      PROVE  Goal
  BY <1>3, <1>4, <1>7 DEF Receive, tables, TypeOK
<1>8. ASSUME NEW c \in Consumers, Restart(c)
      PROVE  Goal
  BY <1>3, <1>4, <1>8 DEF Restart, tables, TypeOK
<1>9. ASSUME NEW c \in Consumers, Load(c)
      PROVE  Goal
  <2>1. /\ UNCHANGED <<log, committed, batch, resolved>>
        /\ raw' = raw \cup Inserted(c) /\ HashesUnique(raw \cup Inserted(c))
        /\ pc' = [pc EXCEPT ![c] = AfterLoad(c)]
    BY <1>9 DEF Load
  <2>2. \A d \in Consumers : Places(d)' = Places(d) /\ Events(d)' = Events(d)
    BY <2>1 DEF Places, Events, IsEvent, Msg
  <2>3. RowsUnique'
    <3> SUFFICES ASSUME NEW r \in raw \cup Inserted(c), NEW s \in raw \cup Inserted(c),
                        r.id = s.id \/ r.hash = s.hash
                 PROVE  r = s
      BY <2>1 DEF RowsUnique
    <3>1. CASE r.hash = s.hash
      BY <2>1, <3>1 DEF HashesUnique
    <3>2. CASE r.id = s.id /\ r \in raw /\ s \in raw
      BY <3>2 DEF RowsUnique
    <3>3. CASE r.id = s.id /\ r \in Inserted(c) /\ s \in Inserted(c)
      BY <3>3, InsertedRows
    <3>4. CASE r.id = s.id /\ r \in raw /\ s \in Inserted(c)
      BY <3>4, InsertedRows DEF RawIds
    <3>5. CASE r.id = s.id /\ r \in Inserted(c) /\ s \in raw
      BY <3>5, InsertedRows DEF RawIds
    <3> QED
      BY <3>1, <3>2, <3>3, <3>4, <3>5
  <2>4. ASSUME NEW x \in Places(c)
        PROVE  Stored(x)'
    <3>1. x \in Position /\ Msg(x) \in Message /\ Msg(x)' = Msg(x)
      BY <1>1, PlacesTyped
    <3>2. CASE IsEvent(x)
      <4>1. Msg(x).id \in EventIdsOf(c)
        BY <3>2 DEF EventIdsOf, Events
      <4>2. Msg(x).id \in RawIds'
        BY <2>1, <4>1, InsertedRows DEF RawIds
      <4> QED
        BY <3>1, <3>2, <4>2 DEF Stored, IsEvent
    <3>3. CASE ~IsEvent(x)
      <4>1. Msg(x).form = "malformed"
        BY <3>1, <3>3 DEF BatchDelivered, IsEvent, Message
      <4> DEFINE D == {i \in DOMAIN batch[c] : batch[c][i] = x}
      <4>2. rejected'[x] = rejected[x] + Cardinality(D)
        BY <1>9, <3>1, <3>3 DEF Load, Rejects, Events
      <4>3. IsFiniteSet(D) /\ D # {}
        <5>1. IsFiniteSet(DOMAIN batch[c])
          BY FS_Interval DEF TypeOK
        <5> QED
          BY <5>1, FS_Subset DEF Places
      <4>4. Cardinality(D) \in Nat /\ Cardinality(D) # 0
        <5> HIDE DEF D
        <5> QED BY <4>3, FS_CardinalityType, FS_EmptySet
      <4>5. rejected'[x] > 0
        <5> HIDE DEF D
        <5> QED BY <3>1, <4>2, <4>4 DEF TypeOK
      <4> QED
        BY <3>1, <4>1, <4>5 DEF Stored
    <3> QED
      BY <3>2, <3>3
  <2>5. FlushedIsStored'
    <3> SUFFICES ASSUME NEW d \in Consumers, pc'[d] \in {"identity", "commit"}, NEW x \in Places(d)
                 PROVE  Stored(x)'
      BY <2>2 DEF FlushedIsStored
    <3>1. CASE d = c
      BY <2>4, <3>1
    <3>2. CASE d # c
      BY <1>1, <2>1, <3>2, PlacesTyped DEF FlushedIsStored, TypeOK
    <3> QED
      BY <3>1, <3>2
  <2>6. FlushedIsResolved'
    <3> SUFFICES ASSUME NEW d \in Consumers, ResolveIdentity, pc'[d] = "commit", NEW x \in Events(d)
                 PROVE  Msg(x).id \in resolved
      BY <2>1, <2>2 DEF FlushedIsResolved, Msg
    <3>1. d # c
      BY <2>1 DEF AfterLoad, TypeOK
    <3> QED
      BY <2>1, <3>1 DEF FlushedIsResolved, TypeOK
  <2> QED
    BY <1>3, <2>1, <2>3, <2>5, <2>6
<1>10. ASSUME NEW c \in Consumers, ResolveBatch(c)
       PROVE  Goal
  <2>1. /\ UNCHANGED <<log, committed, batch, raw, rejected>>
        /\ resolved' = resolved \cup EventIdsOf(c)
        /\ pc[c] = "identity" /\ pc' = [pc EXCEPT ![c] = "commit"]
    BY <1>10 DEF ResolveBatch
  <2>2. \A d \in Consumers : Places(d)' = Places(d) /\ Events(d)' = Events(d)
    BY <2>1 DEF Places, Events, IsEvent, Msg
  <2>3. FlushedIsStored'
    BY <2>1, <2>2 DEF FlushedIsStored, Stored, Msg, RawIds, TypeOK
  <2>4. FlushedIsResolved'
    BY <2>1, <2>2 DEF FlushedIsResolved, EventIdsOf, Msg, TypeOK
  <2>5. RowsUnique'
    BY <2>1 DEF RowsUnique
  <2> QED
    BY <1>3, <2>1, <2>3, <2>4, <2>5
<1>11. ASSUME NEW c \in Consumers, Commit(c)
       PROVE  Goal
  <2>1. /\ UNCHANGED <<log, raw, rejected, resolved>> /\ c \in group /\ pc[c] = "commit"
        /\ \A p \in Partitions :
             committed'[p] = IF p \in assigned[c] THEN position[c][p] ELSE committed[p]
        /\ pc'[c] \in {"poll", "stopped"}
        /\ \A d \in Consumers \ {c} : batch'[d] = batch[d] /\ pc'[d] = pc[d]
    BY <1>11 DEF Commit, AckOffset, Stop, tables, TypeOK
  <2>2. FlushedIsStored' /\ FlushedIsResolved' /\ RowsUnique'
    BY <1>4, <2>1
  <2>3. ASSUME NEW p \in Partitions, NEW o \in 1..committed'[p]
        PROVE  /\ o <= Len(log[p]) /\ Stored(<<p, o>>)
               /\ ResolveIdentity /\ IsEvent(<<p, o>>) => Msg(<<p, o>>).id \in resolved
    <3>1. CASE o \in 1..committed[p]
      BY <1>2, <3>1 DEF CommittedIsResolved
    <3>2. CASE o \notin 1..committed[p]
      <4>1. p \in assigned[c] /\ committed'[p] = position[c][p]
        BY <2>1, <3>2
      <4>2. o \in (committed[p] + 1)..position[c][p]
        BY <3>2, <4>1 DEF TypeOK
      <4>3. <<p, o>> \in Places(c)
        BY <2>1, <4>1, <4>2 DEF ReadIsHeld
      <4>4. o <= Len(log[p])
        BY <4>3 DEF BatchDelivered
      <4>5. Stored(<<p, o>>)
        BY <2>1, <4>3 DEF FlushedIsStored
      <4>6. ResolveIdentity /\ IsEvent(<<p, o>>) => Msg(<<p, o>>).id \in resolved
        BY <2>1, <4>3 DEF FlushedIsResolved, Events
      <4> QED
        BY <4>4, <4>5, <4>6
    <3> QED
      BY <3>1, <3>2
  <2>4. CommittedIsStored' /\ CommittedIsResolved'
    BY <2>1, <2>3 DEF CommittedIsStored, CommittedIsResolved, Stored, IsEvent, Msg, RawIds
  <2> QED
    BY <2>2, <2>4
<1>12. ASSUME NEW c \in Consumers,
              \/ \E p \in Partitions : ReceiveUndecodable(c, p)
              \/ LoadConflict(c) \/ CommitRefused(c) \/ DatabaseError(c) \/ Crash(c)
       PROVE  Goal
  <2>1. Stop(c) /\ UNCHANGED <<committed, tables>>
    BY <1>12 DEF ReceiveUndecodable, LoadConflict, CommitRefused, DatabaseError, Crash, Raise
  <2> QED
    BY <1>6, <2>1
<1> HIDE DEF IndInv, Goal
<1>13. Goal
  <2>1. CASE \E c \in Consumers : Flush(c) \/ DatabaseError(c) \/ Crash(c) \/ Restart(c)
    BY <2>1, <1>8, <1>9, <1>10, <1>11, <1>12 DEF Flush
  <2>2. CASE \E c \in Consumers, p \in Partitions : Receive(c, p) \/ ReceiveUndecodable(c, p)
    BY <2>2, <1>7, <1>12
  <2>3. CASE \E M \in SUBSET Consumers : \E owner \in [Partitions -> M] : Rebalance(M, owner)
    BY <2>3, <1>5 DEF Rebalance, tables
  <2>4. CASE \E p \in Partitions, m \in Traffic : Produce(p, m)
    BY <2>4, <1>5 DEF Produce, process, tables
  <2>5. CASE UNCHANGED vars
    BY <2>5, <1>5 DEF vars
  <2> QED
    BY <2>1, <2>2, <2>3, <2>4, <2>5 DEF Next
<1> QED
  BY <1>13 DEF Goal
-----------------------------------------------------------------------------
LEMMA InitIndInv == Init => IndInv
<1> SUFFICES ASSUME Init
             PROVE  IndInv
  OBVIOUS
<1> USE ConsumerAssumption DEF Init
<1>1. TypeOK
  BY DEF TypeOK
<1>2. RoomWhilePolling
  BY DEF RoomWhilePolling, LimitReached
<1>3. OwnersDisjoint /\ ReadWithinLog /\ BatchDelivered /\ ReadIsHeld
  BY DEF OwnersDisjoint, ReadWithinLog, BatchDelivered, ReadIsHeld, Places
<1>4. FlushedIsStored /\ FlushedIsResolved
  BY DEF FlushedIsStored, FlushedIsResolved
<1>5. CommittedIsStored /\ CommittedIsResolved /\ RowsUnique
  BY DEF CommittedIsStored, CommittedIsResolved, RowsUnique
<1> QED
  BY <1>1, <1>2, <1>3, <1>4, <1>5 DEF IndInv

\* The strengthened invariant holds in every reachable state.
THEOREM SpecIndInv == Spec => []IndInv
<1>1. Init => IndInv
  BY InitIndInv
<1>2. IndInv /\ [Next]_vars => IndInv'
  <2> SUFFICES ASSUME IndInv, [Next]_vars
               PROVE  IndInv'
    OBVIOUS
  <2> QED
    BY TypeStep, OwnershipStep, StorageStep DEF IndInv
<1> QED
  BY <1>1, <1>2, PTL DEF Spec

\* Types and list bounds, for every instance.
THEOREM SpecTypeOK == Spec => []TypeOK
<1>1. IndInv => TypeOK
  BY DEF IndInv
<1> QED
  BY <1>1, SpecIndInv, PTL

\* No acknowledged message is lost, whatever crashes, is refused or rebalanced:
\* consumer.commit() (consumer.py:80) only ever covers stored messages.
THEOREM NoAcknowledgedMessageIsLost == Spec => []CommittedIsStored
<1>1. IndInv => CommittedIsStored
  BY DEF IndInv
<1> QED
  BY <1>1, SpecIndInv, PTL

\* With --resolve-identity, no acknowledged event skips identity resolution.
THEOREM NoAcknowledgedEventIsUnresolved == Spec => []CommittedIsResolved
<1>1. IndInv => CommittedIsResolved
  BY DEF IndInv
<1> QED
  BY <1>1, SpecIndInv, PTL

\* raw_cdc_events never holds two rows of one event id or of one event hash.
THEOREM OneRowPerEvent == Spec => []RowsUnique
<1>1. IndInv => RowsUnique
  BY DEF IndInv
<1> QED
  BY <1>1, SpecIndInv, PTL

\* Committed offsets never move back.
THEOREM OffsetsOnlyGrow == Spec => CommitMonotone
<1>1. IndInv /\ [Next]_vars => [\A p \in Partitions : committed[p] <= committed'[p]]_committed
  <2> SUFFICES ASSUME IndInv, [Next]_vars, committed' # committed
               PROVE  \A p \in Partitions : committed[p] <= committed'[p]
    OBVIOUS
  <2>1. PICK c \in Consumers : Commit(c)
    BY DEF Next, Flush, vars, Produce, Receive, ReceiveUndecodable, Raise, Load, LoadConflict,
       ResolveBatch, CommitRefused, DatabaseError, Crash, Restart, Rebalance
  <2> QED
    BY <2>1 DEF Commit, AckOffset, IndInv, ReadIsHeld, TypeOK
<1> QED
  BY <1>1, SpecIndInv, PTL DEF Spec, CommitMonotone
-----------------------------------------------------------------------------
Quarantined == {x \in Position : rejected[x] > 0}

\* A load is one abstract Store of the messages of the batch.
LEMMA LoadStores ==
  ASSUME IndInv, NEW c \in Consumers, Load(c)
  PROVE  Landing!Store(Places(c)) /\ Places(c) \in SUBSET Landing!Delivered
<1> USE ConsumerAssumption DEF IndInv
<1>1. Places(c) \in SUBSET Landing!Delivered
  BY PlacesTyped DEF Landing!Delivered, Position
<1>2. RawIds' = RawIds \cup EventIdsOf(c)
  <2>1. raw' = raw \cup Inserted(c)
    BY DEF Load
  <2>2. \A r \in Inserted(c) : r.id \in EventIdsOf(c)
    BY InsertedRows
  <2>3. \A e \in EventIdsOf(c) : e \in RawIds \/ \E r \in Inserted(c) : r.id = e
    BY InsertedRows
  <2> QED
    BY <2>1, <2>2, <2>3 DEF RawIds
<1>3. EventIdsOf(c) = {Landing!IdAt(x) : x \in {y \in Places(c) : Landing!Form(y) = "event"}}
  BY DEF EventIdsOf, Events, IsEvent, Msg, Landing!IdAt, Landing!Form
<1>4. Quarantined' = Quarantined \cup {x \in Places(c) : Landing!Form(x) = "malformed"}
  <2>1. ASSUME NEW x \in Position
        PROVE  rejected'[x] > 0 <=>
                 rejected[x] > 0 \/ (x \in Places(c) /\ Landing!Form(x) = "malformed")
    <3> DEFINE D == {i \in DOMAIN batch[c] : batch[c][i] = x}
    <3>1. x \in Rejects(c) <=> x \in Places(c) /\ Landing!Form(x) = "malformed"
      <4>1. x \in Places(c) => Msg(x) \in Message /\ Msg(x).form # "undecodable"
        BY PlacesTyped DEF BatchDelivered
      <4> QED
        BY <4>1 DEF Rejects, Events, IsEvent, Landing!Form, Msg, Message
    <3>2. IsFiniteSet(D) /\ (x \in Places(c) => D # {})
      <4>1. IsFiniteSet(DOMAIN batch[c])
        BY FS_Interval DEF TypeOK
      <4> QED
        BY <4>1, FS_Subset DEF Places
    <3>3. rejected'[x] = IF x \in Rejects(c) THEN rejected[x] + Cardinality(D) ELSE rejected[x]
      BY DEF Load
    <3>4. x \in Rejects(c) => x \in Places(c)
      BY DEF Rejects
    <3>5. rejected[x] \in Nat
      BY DEF TypeOK
    <3> HIDE DEF D
    <3>6. Cardinality(D) \in Nat /\ (x \in Places(c) => Cardinality(D) # 0)
      BY <3>2, FS_CardinalityType, FS_EmptySet
    <3> QED
      BY <3>1, <3>3, <3>4, <3>5, <3>6
  <2>2. Places(c) \subseteq Position
    BY PlacesTyped
  <2> QED
    BY <2>1, <2>2 DEF Quarantined
<1>5. UNCHANGED <<log, committed>>
  BY DEF Load
<1> QED
  BY <1>1, <1>2, <1>3, <1>4, <1>5 DEF Landing!Store, Quarantined

\* A commit is one abstract Acknowledge.
LEMMA CommitAcknowledges ==
  ASSUME IndInv, IndInv', NEW c \in Consumers, Commit(c)
  PROVE  Landing!Acknowledge
<1> USE ConsumerAssumption DEF IndInv
<1>1. committed' \in [Partitions -> 0..MaxLog]
  BY DEF TypeOK
<1>2. UNCHANGED <<log, raw, rejected>>
  BY DEF Commit, tables
<1>3. \A p \in Partitions : committed[p] <= committed'[p]
  <2>1. /\ c \in group
        /\ \A p \in Partitions :
             committed'[p] = IF p \in assigned[c] THEN position[c][p] ELSE committed[p]
    BY DEF Commit, AckOffset
  <2>2. \A p \in Partitions : committed[p] \in Nat
    BY DEF TypeOK
  <2>3. \A p \in assigned[c] : committed[p] <= position[c][p]
    BY <2>1 DEF ReadIsHeld
  <2> QED
    BY <2>1, <2>2, <2>3
<1>4. ASSUME NEW p \in Partitions, NEW o \in 1..committed'[p]
      PROVE  /\ <<p, o>> \in Landing!Delivered
             /\ Landing!Stored(<<p, o>>, RawIds, Quarantined)
  <2>1. o <= Len(log[p]) /\ Stored(<<p, o>>)
    BY <1>2 DEF CommittedIsStored, Stored, Msg, RawIds
  <2>2. <<p, o>> \in Position
    BY <1>1 DEF Position
  <2> QED
    BY <2>1, <2>2 DEF Landing!Delivered, Landing!Stored, Landing!Form, Landing!IdAt, Stored,
                      Msg, Position, Quarantined
<1>5. UNCHANGED <<log, RawIds, Quarantined>>
  BY <1>2 DEF RawIds, Quarantined
<1> QED
  BY <1>1, <1>3, <1>4, <1>5 DEF Landing!Acknowledge, Quarantined

\* The consumers implement the landing promise: every step of theirs is a step of
\* CdcLanding or changes nothing it speaks of.
THEOREM ConsumerImplementsLanding == Spec => LandingSpec
<1>1. Init => Landing!Init
  BY DEF Init, Landing!Init, RawIds
<1>2. IndInv /\ IndInv' /\ [Next]_vars => [Landing!Next]_(Landing!vars)
  <2> SUFFICES ASSUME IndInv, IndInv', [Next]_vars
               PROVE  Landing!Next \/ UNCHANGED Landing!vars
    OBVIOUS
  <2>1. ASSUME UNCHANGED <<log, committed, raw, rejected>>
        PROVE  UNCHANGED Landing!vars
    BY <2>1 DEF Landing!vars, RawIds
  <2>2. CASE \E c \in Consumers : Flush(c) \/ DatabaseError(c) \/ Crash(c) \/ Restart(c)
    <3>1. PICK c \in Consumers : Flush(c) \/ DatabaseError(c) \/ Crash(c) \/ Restart(c)
      BY <2>2
    <3>2. CASE Load(c)
      <4>1. Landing!Store(Places(c)) /\ Places(c) \in SUBSET Landing!Delivered
        BY <3>2, LoadStores
      <4> QED
        BY <4>1, Zenon DEF Landing!Next, Landing!Store
    <3>3. CASE Commit(c)
      BY <3>3, CommitAcknowledges DEF Landing!Next
    <3>4. CASE \/ LoadConflict(c) \/ ResolveBatch(c) \/ CommitRefused(c)
               \/ DatabaseError(c) \/ Crash(c) \/ Restart(c)
      <4>1. UNCHANGED <<log, committed, raw, rejected>>
        BY <3>4 DEF LoadConflict, ResolveBatch, CommitRefused, DatabaseError, Crash, Restart,
                    Raise, tables
      <4> QED
        BY <2>1, <4>1
    <3> QED
      BY <3>1, <3>2, <3>3, <3>4 DEF Flush
  <2>3. CASE \E c \in Consumers, p \in Partitions : Receive(c, p) \/ ReceiveUndecodable(c, p)
    BY <2>1, <2>3 DEF Receive, ReceiveUndecodable, Raise, tables
  <2>4. CASE \E M \in SUBSET Consumers : \E owner \in [Partitions -> M] : Rebalance(M, owner)
    BY <2>1, <2>4 DEF Rebalance, tables
  <2>5. CASE \E p \in Partitions, m \in Traffic : Produce(p, m)
    <3>1. PICK p \in Partitions, m \in Traffic : Produce(p, m)
      BY <2>5
    <3>2. Landing!Deliver(p, m)
      BY <3>1 DEF Produce, Landing!Deliver, tables, RawIds
    <3> QED
      BY <3>2 DEF Landing!Next
  <2>6. CASE UNCHANGED vars
    BY <2>1, <2>6 DEF vars
  <2> QED
    BY <2>2, <2>3, <2>4, <2>5, <2>6 DEF Next
<1> QED
  BY <1>1, <1>2, SpecIndInv, PTL DEF Spec, LandingSpec, Landing!Spec
=============================================================================
