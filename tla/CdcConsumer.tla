------------------------------ MODULE CdcConsumer ------------------------------
(***************************************************************************)
(* The Kafka consumers of streaming/consumer.py and the PostgreSQL landing  *)
(* transaction they call, ingestion/loader.py: load_to_postgres.            *)
(*                                                                         *)
(* Covered: a consumer group whose members read partitions, batch messages, *)
(* load a batch in one transaction, resolve its identities in a second one  *)
(* (--resolve-identity) and only then commit their offsets; exceptions,     *)
(* crashes, restarts, and the group's rebalances, which move partitions     *)
(* under a consumer that keeps its half-filled batch.                       *)
(*                                                                         *)
(* External, modelled from how the consumer uses it: the Kafka log, the     *)
(* group coordinator (eager protocol: a member's positions restart from the *)
(* committed offsets) and the database.  Left out: the contents of a        *)
(* payload, the wording of a rejection, and the identity graph itself.      *)
(***************************************************************************)
EXTENDS Naturals, Sequences, FiniteSets

CONSTANTS
  Consumers,        \* the processes run with the same --group-id
  Partitions,       \* the partitions of the subscribed topics
  EventIds, Hashes, \* values of event_id and of event_hash
  Traffic,          \* the messages a producer may write
  BatchSize,        \* the literal 500 of the flush condition
  MaxMessages,      \* --max-messages; 0 stands for None
  ResolveIdentity,  \* --resolve-identity
  MaxLog,           \* bound: messages per partition
  MaxFaults         \* bound: crashes, database errors and evictions

Message == [form : {"event", "malformed", "undecodable"},
            id : EventIds, hash : Hashes]

ASSUME ConsumerAssumption ==
  /\ IsFiniteSet(Consumers)
  /\ Traffic \subseteq Message
  /\ BatchSize \in Nat \ {0}
  /\ MaxMessages \in Nat
  /\ ResolveIdentity \in BOOLEAN
  /\ MaxLog \in Nat
  /\ MaxFaults \in Nat

\* A place in the log: partition and (1-based) offset.
Position == Partitions \X (1..MaxLog)
Row == [id : EventIds, hash : Hashes, at : Position]

VARIABLES
  log,        \* the messages of each partition
  committed,  \* committed offset of each partition: messages acknowledged
  group,      \* members of the current generation of the consumer group
  pc,         \* where each process is: poll, load, identity, commit, stopped
  assigned,   \* the partitions a process believes it owns
  position,   \* how far a process has read each partition
  batch,      \* the lists batch and rejected, in arrival order
  count,      \* messages taken since the process started (0 without a limit)
  raw,        \* table raw.raw_cdc_events
  rejected,   \* table raw.rejected_events: rows per place in the log
  resolved,   \* event ids whose batch went through load_identity_to_postgres
  faults      \* crashes, database errors and evictions so far

process == <<pc, assigned, position, batch, count>>
tables == <<raw, rejected, resolved>>
vars == <<log, committed, group, pc, assigned, position, batch, count,
          raw, rejected, resolved, faults>>

-----------------------------------------------------------------------------
\* What the batch of consumer c holds.
Msg(x) == log[x[1]][x[2]]
IsEvent(x) == Msg(x).form = "event"

Places(c) == {batch[c][i] : i \in DOMAIN batch[c]}
Events(c) == {x \in Places(c) : IsEvent(x)}
Rejects(c) == Places(c) \ Events(c)
EventIdsOf(c) == {Msg(x).id : x \in Events(c)}

RawIds == {r.id : r \in raw}

\* The first message of the batch that carries event id e.
FirstIndex(c, e) ==
  CHOOSE i \in DOMAIN batch[c] :
    /\ IsEvent(batch[c][i]) /\ Msg(batch[c][i]).id = e
    /\ \A j \in DOMAIN batch[c] :
         IsEvent(batch[c][j]) /\ Msg(batch[c][j]).id = e => i <= j
First(c, e) == batch[c][FirstIndex(c, e)]

\* "on conflict (event_id) do nothing": the first message with an id that the
\* table does not hold is inserted, every later one is ignored.
Inserted(c) == {[id |-> e, hash |-> Msg(First(c, e)).hash, at |-> First(c, e)] :
                  e \in EventIdsOf(c) \ RawIds}

\* ux_raw_cdc_events_event_hash: no two rows share a hash.  The conflict
\* clause names event_id only, so breaking this index raises.
HashesUnique(rows) == \A r, s \in rows : r.hash = s.hash => r = s

-----------------------------------------------------------------------------
Init ==
  /\ log = [p \in Partitions |-> << >>]
  /\ committed = [p \in Partitions |-> 0]
  /\ group = {}
  /\ pc = [c \in Consumers |-> "poll"]
  /\ assigned = [c \in Consumers |-> {}]
  /\ position = [c \in Consumers |-> [p \in Partitions |-> 0]]
  /\ batch = [c \in Consumers |-> << >>]
  /\ count = [c \in Consumers |-> 0]
  /\ raw = {}
  /\ rejected = [x \in Position |-> 0]
  /\ resolved = {}
  /\ faults = 0

\* Upstream writes a message: Debezium, or streaming/producer.py.
Produce(p, m) ==
  /\ Len(log[p]) < MaxLog
  /\ log' = [log EXCEPT ![p] = Append(@, m)]
  /\ UNCHANGED <<committed, group, process, tables, faults>>

\* The process of c ends.  What it held in memory is gone.
Stop(c) ==
  /\ pc' = [pc EXCEPT ![c] = "stopped"]
  /\ assigned' = [assigned EXCEPT ![c] = {}]
  /\ position' = [position EXCEPT ![c] = [p \in Partitions |-> 0]]
  /\ batch' = [batch EXCEPT ![c] = << >>]
  /\ count' = [count EXCEPT ![c] = 0]

\* An exception leaves consume_to_postgres through "finally: consumer.close()",
\* which leaves the group; auto-commit is off, so nothing is committed.
Raise_AutoCommit(c) ==   \* mutant: enable_auto_commit left at its default
  /\ Stop(c)
  /\ group' = group \ {c}
  /\ committed' = [p \in Partitions |->
       IF c \in group /\ p \in assigned[c] THEN position[c][p] ELSE committed[p]]
  /\ UNCHANGED <<log, tables>>
Raise(c) ==
  /\ Stop(c)
  /\ group' = group \ {c}
  /\ UNCHANGED <<log, committed, tables>>

HasNext(c, p) == p \in assigned[c] /\ position[c][p] < Len(log[p])
Next1(c, p) == log[p][position[c][p] + 1]

LimitReached(n) == MaxMessages > 0 /\ n >= MaxMessages

\* len(batch) + len(rejected) >= 500 or the message limit.
FlushDue_BatchOnly(b, n) ==   \* mutant: only the list batch is counted
  \/ Cardinality({i \in DOMAIN b : b[i][2] <= Len(log[b[i][1]]) /\ IsEvent(b[i])}) >= BatchSize
  \/ LimitReached(n)
FlushDue(b, n) == Len(b) >= BatchSize \/ LimitReached(n)

\* One turn of "for message in consumer": the message joins batch or rejected,
\* and a full batch, or the message limit, starts a flush.
Receive(c, p) ==
  /\ pc[c] = "poll"
  /\ HasNext(c, p)
  /\ Next1(c, p).form # "undecodable"
  /\ LET b == Append(batch[c], <<p, position[c][p] + 1>>)
         n == IF MaxMessages > 0 THEN count[c] + 1 ELSE 0
     IN /\ batch' = [batch EXCEPT ![c] = b]
        /\ count' = [count EXCEPT ![c] = n]
        /\ pc' = [pc EXCEPT ![c] =
                    IF FlushDue(b, n) THEN "load" ELSE "poll"]
  /\ position' = [position EXCEPT ![c][p] = @ + 1]
  /\ UNCHANGED <<log, committed, group, assigned, tables, faults>>

\* value_deserializer raises inside the iterator, outside the try block.
ReceiveUndecodable(c, p) ==
  /\ pc[c] = "poll"
  /\ HasNext(c, p)
  /\ Next1(c, p).form = "undecodable"
  /\ Raise(c)
  /\ UNCHANGED faults

\* "if resolve_identity_batch and batch": every event of the batch is resolved,
\* also those that an earlier delivery had inserted.
AfterLoad_OnlyNew(c) ==   \* mutant: only newly inserted events are resolved
  IF ResolveIdentity /\ Inserted(c) # {} THEN "identity" ELSE "commit"
AfterLoad(c) == IF ResolveIdentity /\ Events(c) # {} THEN "identity" ELSE "commit"

\* load_to_postgres: one transaction for the events and the rejected rows.
Load(c) ==
  /\ pc[c] = "load"
  /\ HashesUnique(raw \cup Inserted(c))
  /\ raw' = raw \cup Inserted(c)
  /\ rejected' = [x \in Position |->
       IF x \in Rejects(c)
         THEN rejected[x] + Cardinality({i \in DOMAIN batch[c] : batch[c][i] = x})
         ELSE rejected[x]]
  /\ pc' = [pc EXCEPT ![c] = AfterLoad(c)]
  /\ UNCHANGED <<log, committed, group, assigned, position, batch, count,
                 resolved, faults>>

\* The insert breaks the index on event_hash: the transaction is rolled back.
LoadConflict(c) ==
  /\ pc[c] = "load"
  /\ ~HashesUnique(raw \cup Inserted(c))
  /\ Raise(c)
  /\ UNCHANGED faults

\* resolve_identity and load_identity_to_postgres, a transaction of their own.
ResolveBatch(c) ==
  /\ pc[c] = "identity"
  /\ resolved' = resolved \cup EventIdsOf(c)
  /\ pc' = [pc EXCEPT ![c] = "commit"]
  /\ UNCHANGED <<log, committed, group, assigned, position, batch, count,
                 raw, rejected, faults>>

\* Either transaction is lost to the database (connection, deadlock victim).
DatabaseError(c) ==
  /\ pc[c] \in {"load", "identity"}
  /\ faults < MaxFaults
  /\ Raise(c)
  /\ faults' = faults + 1

AckOffset_Fetched(c, p) == Len(log[p])   \* mutant: the fetch position, not the read one
AckOffset(c, p) == position[c][p]

\* consumer.commit() acknowledges everything this process has read; at the
\* message limit the loop then ends and the consumer closes, else both lists are
\* emptied.
Commit(c) ==
  /\ pc[c] = "commit"
  /\ c \in group
  /\ committed' = [p \in Partitions |->
       IF p \in assigned[c] THEN AckOffset(c, p) ELSE committed[p]]
  /\ IF LimitReached(count[c])
       THEN Stop(c) /\ group' = group \ {c}
       ELSE /\ pc' = [pc EXCEPT ![c] = "poll"]
            /\ batch' = [batch EXCEPT ![c] = << >>]
            /\ UNCHANGED <<assigned, position, count, group>>
  /\ UNCHANGED <<log, tables, faults>>

\* The coordinator refuses a commit of a process that is not in the current
\* generation; kafka-python raises CommitFailedError.
CommitRefused(c) ==
  /\ pc[c] = "commit"
  /\ c \notin group
  /\ Raise(c)
  /\ UNCHANGED faults

\* The process is killed: no close(), so the coordinator still lists it.
Crash(c) ==
  /\ pc[c] # "stopped"
  /\ faults < MaxFaults
  /\ Stop(c)
  /\ faults' = faults + 1
  /\ UNCHANGED <<log, committed, group, tables>>

\* The process is run again, as a new member with nothing in memory.
Restart(c) ==
  /\ pc[c] = "stopped"
  /\ pc' = [pc EXCEPT ![c] = "poll"]
  /\ group' = group \ {c}
  /\ UNCHANGED <<log, committed, assigned, position, batch, count, tables, faults>>

\* Where a member starts on a partition it is given.
StartOffset_Earliest(p) == 0   \* mutant: auto_offset_reset replaces the committed offset
StartOffset(p) == committed[p]

\* A member that left had partitions, which no member reads now.
Orphaned == \E p \in Partitions : \A c \in group : p \notin assigned[c]

\* A rebalance to the members M, all of them in poll.  Dropping a running
\* member (it missed its heartbeats, or is busy in a flush) is a fault; it
\* keeps its own view of its partitions until its commit is refused.
Rebalance(M, owner) ==
  /\ M # {} /\ (M # group \/ Orphaned)
  /\ \A c \in M : pc[c] = "poll"
  /\ owner \in [Partitions -> M]
  /\ LET evicted == {c \in group \ M : pc[c] # "stopped"}
     IN /\ faults + Cardinality(evicted) <= MaxFaults
        /\ faults' = faults + Cardinality(evicted)
  /\ group' = M
  /\ assigned' = [c \in Consumers |->
       IF c \in M THEN {p \in Partitions : owner[p] = c} ELSE assigned[c]]
  /\ position' = [c \in Consumers |-> 
       IF c \in M THEN [p \in Partitions |-> StartOffset(p)] ELSE position[c]]
  /\ UNCHANGED <<log, committed, pc, batch, count, tables>>

Flush(c) ==
  Load(c) \/ LoadConflict(c) \/ ResolveBatch(c) \/ Commit(c) \/ CommitRefused(c)

Next ==
  \/ \E p \in Partitions, m \in Traffic : Produce(p, m)
  \/ \E c \in Consumers, p \in Partitions : Receive(c, p) \/ ReceiveUndecodable(c, p)
  \/ \E c \in Consumers : Flush(c) \/ DatabaseError(c) \/ Crash(c) \/ Restart(c)
  \/ \E M \in SUBSET Consumers : \E owner \in [Partitions -> M] : Rebalance(M, owner)

Spec == Init /\ [][Next]_vars

\* The coordinator admits a process that polls, or hands it what a member left
\* behind, and keeps the others that poll.
Join(c) ==
  /\ c \notin group \/ Orphaned
  /\ \E M \in SUBSET Consumers :
       /\ group \cap {d \in Consumers : pc[d] = "poll"} \subseteq M
       /\ c \in M
       /\ \E owner \in [Partitions -> M] : Rebalance(M, owner)

\* A running process keeps taking steps and the coordinator lets a process that
\* polls join the group.  Nothing restarts a process that ended: no service or
\* restart policy is configured, docs/runbooks/kafka_lag_incident.md has an
\* operator do it.
Fairness ==
  /\ \A c \in Consumers :
       /\ \A p \in Partitions : WF_vars(Receive(c, p) \/ ReceiveUndecodable(c, p))
       /\ WF_vars(Flush(c))
       /\ SF_vars(Join(c))

FairSpec == Spec /\ Fairness
-----------------------------------------------------------------------------
(* Properties *)

\* Types; no list outgrows the flush condition and no process outruns its
\* message limit.
TypeOK ==
  /\ log \in [Partitions -> Seq(Traffic)]
  /\ \A p \in Partitions : Len(log[p]) <= MaxLog
  /\ committed \in [Partitions -> 0..MaxLog]
  /\ group \subseteq Consumers
  /\ pc \in [Consumers -> {"poll", "load", "identity", "commit", "stopped"}]
  /\ assigned \in [Consumers -> SUBSET Partitions]
  /\ position \in [Consumers -> [Partitions -> 0..MaxLog]]
  /\ batch \in [Consumers -> Seq(Position)]
  /\ \A c \in Consumers : Len(batch[c]) <= BatchSize
  /\ count \in [Consumers -> 0..MaxMessages]
  /\ raw \subseteq Row
  /\ rejected \in [Position -> Nat]
  /\ resolved \subseteq EventIds
  /\ faults \in 0..MaxFaults

\* The message at place x reached the table that is meant for it.
Stored(x) ==
  \/ Msg(x).form = "event" /\ Msg(x).id \in RawIds
  \/ Msg(x).form = "malformed" /\ rejected[x] > 0

\* No message is lost: below a committed offset every message is a row of
\* raw_cdc_events or of rejected_events, whatever crashed, was refused or was
\* rebalanced between reading it and committing it (consumer.py:73-82).
CommittedIsStored ==
  \A p \in Partitions : \A o \in 1..committed[p] :
    o <= Len(log[p]) /\ Stored(<<p, o>>)

\* With --resolve-identity, an acknowledged event has been through identity
\* resolution, also when an earlier attempt died between the two transactions
\* (consumer.py:75-80).
CommittedIsResolved ==
  ResolveIdentity =>
    \A p \in Partitions : \A o \in 1..committed[p] :
      IsEvent(<<p, o>>) => Msg(<<p, o>>).id \in resolved

\* Redelivery and concurrent members never give an event two rows, and no two
\* rows share a hash (the primary key and ux_raw_cdc_events_event_hash).
RowsUnique ==
  \A r, s \in raw : r.id = s.id \/ r.hash = s.hash => r = s

\* A process that lost its partitions cannot move a committed offset back: what
\* was acknowledged is never asked for again (consumer.py:80).
CommitMonotone ==
  [][\A p \in Partitions : committed[p] <= committed'[p]]_committed

\* The strengthening of CommittedIsStored that steps preserve: members of the
\* group own disjoint partitions; on each of them they have read at least what
\* is committed, and still hold in memory everything beyond it; what they hold
\* past the load (past the identity step) is stored (resolved).
OwnersDisjoint ==
  \A c, d \in group : c # d => assigned[c] \cap assigned[d] = {}
ReadWithinLog ==
  \A c \in Consumers, p \in Partitions : position[c][p] <= Len(log[p])
BatchDelivered ==
  \A c \in Consumers : \A x \in Places(c) :
    x[2] <= Len(log[x[1]]) /\ Msg(x).form # "undecodable"
ReadIsHeld ==
  \A c \in group : \A p \in assigned[c] :
    /\ committed[p] <= position[c][p]
    /\ \A o \in (committed[p] + 1)..position[c][p] : <<p, o>> \in Places(c)
FlushedIsStored ==
  \A c \in Consumers : pc[c] \in {"identity", "commit"} =>
    \A x \in Places(c) : Stored(x)
RoomWhilePolling ==
  \A c \in Consumers :
    /\ pc[c] = "poll" => Len(batch[c]) < BatchSize /\ ~LimitReached(count[c])
    /\ pc[c] = "stopped" => batch[c] = << >> /\ count[c] = 0
FlushedIsResolved ==
  \A c \in Consumers : ResolveIdentity /\ pc[c] = "commit" =>
    \A x \in Events(c) : Msg(x).id \in resolved

IndInv ==
  /\ TypeOK
  /\ RoomWhilePolling /\ OwnersDisjoint /\ ReadWithinLog /\ BatchDelivered /\ ReadIsHeld
  /\ FlushedIsStored /\ FlushedIsResolved
  /\ CommittedIsStored /\ CommittedIsResolved /\ RowsUnique

\* The landing promise, with rows of the tables for what is stored.
Landing == INSTANCE CdcLanding WITH
  acknowledged <- committed,
  landed <- RawIds,
  quarantined <- {x \in Position : rejected[x] > 0}
LandingSpec == Landing!Spec

\* Messages written but not acknowledged.
Backlog == {x \in Position : x[2] <= Len(log[x[1]]) /\ x[2] > committed[x[1]]}

\* The processes S are those that run.
Running(S) == S = {c \in Consumers : pc[c] # "stopped"}

\* Wherever processes run on, none of them ended by an exception, a kill or its
\* limit and none restarted any more, the backlog shrinks again and again to less
\* than a full batch for each process, whatever rebalances, refused commits and
\* half-filled batches came before.  It need not become empty: a batch that never
\* fills is never flushed, there is no timer (consumer.py:73).  Nothing is
\* promised while processes die: one message that is not JSON, or a known hash
\* under a new id, ends every process that reads it.
BacklogDrains ==
  \A S \in SUBSET Consumers \ {{}} :
    <>[]Running(S) =>
      []<>(Cardinality(Backlog) <= Cardinality(Consumers) * (BatchSize - 1))

\* docs/cdc_design.md:48-50: "Duplicate delivery is logged with the matching key
\* and filtered before raw state changes."  The load of a batch would then never
\* meet a hash the table already holds.
DuplicatesFiltered ==
  \A c \in Consumers : pc[c] = "load" => HashesUnique(raw \cup Inserted(c))
=============================================================================
