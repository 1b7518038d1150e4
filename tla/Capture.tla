-------------------------------- MODULE Capture --------------------------------
(***************************************************************************)
(* Changes of a source table on their way into raw.raw_cdc_events and out of  *)
(* it: the Debezium connector (external: connect/debezium/), the mapping of   *)
(* its messages (ingestion/debezium_mapper.py), their landing in batches      *)
(* (streaming/consumer.py), and the view of the newest state of each record   *)
(* (dbt/models/intermediate/int_latest_customers.sql), which orders by log    *)
(* position.                                                               *)
(*                                                                         *)
(* A log position is the number of a change, and the contents of a row are     *)
(* known by the change that wrote them.  The clock is the connector's, and any *)
(* number of changes may happen at one instant.  A row keeps its tenant: the    *)
(* view numbers the events of a record within a tenant, so a row that moved     *)
(* would be shown in the tenant it left as well.  A topic has one partition and *)
(* one consumer at a time; a group of them, exceptions and rebalances are the  *)
(* subject of CdcConsumer.                                                   *)
(***************************************************************************)
EXTENDS Integers, Sequences, FiniteSets, SequencesExt

CONSTANTS
  Keys,         \* primary keys of the table
  MaxChanges,   \* bound: changes committed
  MaxRestarts,  \* bound: crashes of the connector
  Instants,     \* bound: times the connector's clock shows
  BatchSize     \* the literal 500 of the flush condition

ASSUME CaptureAssumption ==
  BatchSize \in Nat \ {0} /\ MaxChanges \in Nat /\ MaxRestarts \in Nat /\ Instants \subseteq Nat /\ 0 \in Instants

VARIABLES
  wal,        \* changes committed in the source database
  connector,  \* "new", "up" or "down"
  position,   \* last change the connector has emitted
  confirmed,  \* last position it has stored
  start,      \* position of the snapshot (for the proofs)
  topic,      \* messages, with their positions as offsets
  consumed,   \* committed offset of the consumer: messages acknowledged
  flushed,    \* messages of the batch that has landed and is not acknowledged
  landed,     \* raw.raw_cdc_events
  clock, restarts

captureVars == <<wal, connector, position, confirmed, start, topic, consumed, flushed, landed, clock, restarts>>

\* Of the keys of DEBEZIUM_OPS, those of a change; "r" is a row of the snapshot.
Ops == {"c", "u", "d"}

-----------------------------------------------------------------------------
(* The source table.                                                       *)
ChangesOf(k) == {n \in DOMAIN wal : wal[n].key = k}
LastOf(S) == {n \in S : \A m \in S : m <= n}
Rows == {k \in Keys : \E n \in LastOf(ChangesOf(k)) : wal[n].op # "d"}
ValueOf(k) == wal[CHOOSE n \in LastOf(ChangesOf(k)) : TRUE].value

\* Debezium messages: source.lsn, and ts_ms, the time at which the connector
\* made the message.  A delete carries the row it deleted.
MessageOf(n) ==
  [key |-> wal[n].key, op |-> wal[n].op, value |-> wal[n].value,
   lsn |-> n, ts |-> clock]
SnapshotOf(k) ==
  [key |-> k, op |-> "r", value |-> ValueOf(k), lsn |-> Len(wal), ts |-> clock]

\* _event_id hashes these fields.
EventId_NoLsn(m) == <<m.key, m.op, m.ts>>   \* mutant: the log position is not hashed
EventId(m) == <<m.key, m.op, m.lsn, m.ts>>

\* debezium_to_normalized_envelope: the time of an event is the connector's
\* ts_ms, its sequence number the log position.
Operation == [c |-> "insert", r |-> "insert", u |-> "update", d |-> "delete"]
Envelope(m) ==
  [id |-> EventId(m), key |-> m.key, operation |-> Operation[m.op], payload |-> m.value,
   at |-> m.ts, seq |-> m.lsn]

-----------------------------------------------------------------------------
(* The reader.                                                             *)
\* stg_customers: the rows of raw.raw_cdc_events, deletes included.
EventsOf(k) == {e \in landed : e.key = k}

\* int_latest_customers numbers the events of a record from the greatest sequence
\* number down, keeps the first and shows it unless it is a delete.  Which of the
\* events of one log position comes first is left open.
Latest(k) == {e \in EventsOf(k) : \A f \in EventsOf(k) : f.seq <= e.seq}

-----------------------------------------------------------------------------
CaptureInit ==
  /\ wal = << >>
  /\ connector = "new"
  /\ position = 0
  /\ confirmed = 0
  /\ start = 0
  /\ topic = << >>
  /\ consumed = 0
  /\ flushed = 0
  /\ landed = {}
  /\ clock = 0
  /\ restarts = 0

\* A transaction on the source table.
Commit(k, op) ==
  /\ Len(wal) < MaxChanges
  /\ (k \in Rows) = (op \in {"u", "d"})
  /\ wal' = Append(wal, [key |-> k, op |-> op,
                         value |-> IF op = "d" THEN ValueOf(k) ELSE Len(wal) + 1])
  /\ UNCHANGED <<start, connector, position, confirmed, topic, consumed, flushed, landed, clock, restarts>>

Tick ==
  /\ clock' \in {t \in Instants : t > clock /\ \A u \in Instants : u > clock => t <= u}
  /\ UNCHANGED <<start, wal, connector, position, confirmed, topic, consumed, flushed, landed, restarts>>

\* snapshot.mode "initial": the rows there are, then the log from here on.
Snapshot ==
  /\ connector = "new"
  /\ connector' = "up"
  /\ topic' = SetToSeq({SnapshotOf(k) : k \in Rows})
  /\ position' = Len(wal)
  /\ confirmed' = Len(wal)
  /\ start' = Len(wal)
  /\ UNCHANGED <<wal, consumed, flushed, landed, clock, restarts>>

Emit ==
  /\ connector = "up" /\ position < Len(wal)
  /\ topic' = Append(topic, MessageOf(position + 1))
  /\ position' = position + 1
  /\ UNCHANGED <<start, wal, connector, confirmed, consumed, flushed, landed, clock, restarts>>

\* Offsets are stored now and then.
StoreOffset ==
  /\ connector = "up" /\ confirmed # position
  /\ confirmed' = position
  /\ UNCHANGED <<start, wal, connector, position, topic, consumed, flushed, landed, clock, restarts>>

Stop ==
  /\ connector = "up" /\ restarts < MaxRestarts
  /\ connector' = "down"
  /\ restarts' = restarts + 1
  /\ UNCHANGED <<start, wal, position, confirmed, topic, consumed, flushed, landed, clock>>

\* What was emitted since the stored offset is emitted again.
Restart ==
  /\ connector = "down"
  /\ connector' = "up"
  /\ position' = confirmed
  /\ UNCHANGED <<start, wal, confirmed, topic, consumed, flushed, landed, clock, restarts>>

\* A flush of n messages (500, or fewer at the message limit or the end of the
\* loop): of the batch, the first event of each id that is not stored is stored.
Batch(n) == (consumed + 1)..(consumed + n)
Land(n) ==
  /\ flushed = 0 /\ consumed + n <= Len(topic)
  /\ landed' = landed \cup
       {Envelope(topic[i]) : i \in
          {j \in Batch(n) :
             /\ \A e \in landed : e.id # EventId(topic[j])
             /\ \A h \in Batch(n) : h < j => EventId(topic[h]) # EventId(topic[j])}}
  /\ flushed' = n
  /\ UNCHANGED <<start, wal, connector, position, confirmed, topic, consumed, clock, restarts>>

\* consumer.commit().
Acknowledge ==
  /\ flushed > 0
  /\ consumed' = consumed + flushed
  /\ flushed' = 0
  /\ UNCHANGED <<start, wal, connector, position, confirmed, topic, landed, clock, restarts>>

\* The consumer dies, or its commit is refused, after the load: the next one
\* is given the batch again, in a flush of another size it may be.  (Before the
\* load there is nothing to lose.)
DieBeforeCommit ==
  /\ flushed > 0
  /\ flushed' = 0
  /\ UNCHANGED <<start, wal, connector, position, confirmed, topic, consumed, landed, clock, restarts>>

CaptureNext ==
  \/ \E k \in Keys, op \in Ops : Commit(k, op)
  \/ Tick
  \/ Snapshot \/ Emit \/ StoreOffset \/ Stop \/ Restart
  \/ \E n \in 1..BatchSize : Land(n)
  \/ Acknowledge \/ DieBeforeCommit

CaptureSpec == CaptureInit /\ [][CaptureNext]_captureVars

-----------------------------------------------------------------------------
(* Properties.                                                             *)

CaughtUp == connector # "new" /\ position = Len(wal) /\ consumed = Len(topic)

\* Once everything has been landed and acknowledged, the view has for each record
\* the row of the source, and none where it was deleted: no crash of the connector
\* or of the consumer loses a change, and no event that is captured or delivered
\* again, under its id or a new one, replaces a newer one.
LatestIsSource ==
  CaughtUp =>
    \A k \in Keys :
      IF k \in Rows
      THEN Latest(k) # {} /\ \A e \in Latest(k) : e.operation # "delete" /\ e.payload = ValueOf(k)
      ELSE \A e \in Latest(k) : e.operation = "delete"
=============================================================================
