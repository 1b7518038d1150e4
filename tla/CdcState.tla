------------------------------- MODULE CdcState -------------------------------
(***************************************************************************)
(* What file ingestion derives from a list of normalized CDC events:        *)
(* ingestion/cdc_state.py, called by loader.ingest_file.                    *)
(*                                                                         *)
(* Each of its functions is a loop over the same list that carries a few    *)
(* dictionaries.  A step of this module hands the next event to all of the  *)
(* loops, so a state is what the functions have computed of a prefix; an    *)
(* event is known by its index in the list.  One tenant, source table and   *)
(* topic partition stands for each: what is compared across them (ids and   *)
(* hashes) is compared here across records.  Timestamps are compared as the *)
(* text that _parse_timestamp renders.                                      *)
(***************************************************************************)
EXTENDS Integers, Sequences, FiniteSets

CONSTANTS
  Records,    \* values of record_primary_key
  Hashes,     \* values of event_hash
  Feed,       \* the events a list may hold
  MaxEvents   \* bound: length of the list

\* A UTC timestamp: whole seconds, and microseconds (no more than a second has).
Time == [s : Nat, us : Nat]
NoOffset == -1
Event == [id : Nat, hash : Hashes, offset : Nat \cup {NoOffset}, record : Records,
          seq : Nat, at : Time, commit : Time]

ASSUME CdcStateAssumption == Feed \subseteq Event /\ MaxEvents \in Nat

VARIABLES
  arrived,    \* the list, as far as the loops have come
  dedup,      \* cdc_event_deduplication_log: a row for each event
  newest,     \* latest_by_record of build_ordering_anomalies
  anomalies,  \* cdc_ordering_anomalies
  watermark,  \* latest of build_watermark_checkpoints
  checkpoint, \* latest of build_topic_offset_checkpoints
  latest      \* state of materialize_latest_state

vars == <<arrived, dedup, newest, anomalies, watermark, checkpoint, latest>>

None == 0   \* dict.get of a key that is missing: no event has this index

-----------------------------------------------------------------------------
\* isoformat() leaves out the fraction when it is zero, and "." sorts before
\* "Z": within a second the whole second is the greatest text.
TextBefore(t, u) ==
  \/ t.s < u.s
  \/ /\ t.s = u.s
     /\ \/ t.us # 0 /\ u.us = 0
        \/ t.us # 0 /\ u.us # 0 /\ t.us < u.us

\* The tuples (sequence, commit, id), (timestamp, id) and (offset, id), which
\* Python compares place by place.
OrderBefore(e, f) ==
  \/ e.seq < f.seq
  \/ e.seq = f.seq /\ TextBefore(e.commit, f.commit)
  \/ e.seq = f.seq /\ e.commit = f.commit /\ e.id < f.id
StampBefore(e, f) ==
  \/ TextBefore(e.at, f.at)
  \/ e.at = f.at /\ e.id < f.id

\* "previous.kafka_offset or -1": the number 0 is false.
OrMinusOne(n) == IF n = 0 THEN -1 ELSE n
OffsetBefore(e, f) ==
  \/ e.offset < OrMinusOne(f.offset)
  \/ e.offset = OrMinusOne(f.offset) /\ e.id < f.id

-----------------------------------------------------------------------------
Accepted == {i \in DOMAIN dedup : dedup[i].key = "accepted"}

\* The events in seen_ids, seen_hashes and seen_offsets.
Seen_All == DOMAIN dedup   \* mutant: duplicates are remembered too
Seen == Accepted
ById(e) == {i \in Seen : arrived[i].id = e.id}
ByHash(e) == {i \in Seen : arrived[i].hash = e.hash}
ByOffset_Never(e) == {}   \* mutant: offsets are not compared
ByOffset(e) == {i \in Seen : e.offset # NoOffset /\ arrived[i].offset = e.offset}

\* The row of the next event e: the first key under which it was seen.
Row(key, S) == [key |-> key, of |-> CHOOSE i \in S : TRUE]
DedupRow(e) ==
  IF ById(e) # {} THEN Row("event_id", ById(e))
  ELSE IF ByHash(e) # {} THEN Row("event_hash", ByHash(e))
  ELSE IF ByOffset(e) # {} THEN Row("kafka_offset", ByOffset(e))
  ELSE [key |-> "accepted", of |-> None]

\* build_ordering_anomalies, against the newest event of the record so far.
OutOfSequence(p, e) == e.seq # 0 /\ p.seq > e.seq
LateCommit(p, e) == TextBefore(e.commit, p.commit)
AnomalyOf(p, e) ==
  IF OutOfSequence(p, e) THEN "out_of_order_sequence" ELSE "late_arriving_commit"
Anomalous(e) ==
  /\ newest[e.record] # None
  /\ \/ OutOfSequence(arrived[newest[e.record]], e)
     \/ LateCommit(arrived[newest[e.record]], e)

\* An anomalous event does not become the newest of its record.
NewestAfter_Always(i, e) == i   \* mutant: the "continue" is missing
NewestAfter(i, e) == IF Anomalous(e) THEN newest[e.record] ELSE i

\* materialize_latest_state skips an event that is not after the one it has.
Replaces_Always(e) == TRUE   \* mutant: the last arrival wins
Replaces(e) ==
  latest[e.record] = None \/ OrderBefore(arrived[latest[e.record]], e)

Init ==
  /\ arrived = << >>
  /\ dedup = << >>
  /\ newest = [r \in Records |-> None]
  /\ anomalies = {}
  /\ watermark = None
  /\ checkpoint = None
  /\ latest = [r \in Records |-> None]

Advances(e) == watermark = None \/ ~StampBefore(e, arrived[watermark])
Reaches_LastArrival(e) == e.offset # NoOffset   \* mutant: the last offset, not the greatest
Reaches(e) ==
  /\ e.offset # NoOffset
  /\ checkpoint = None \/ ~OffsetBefore(e, arrived[checkpoint])

\* Event e is the i-th of the list.
Take(e) ==
  LET i == Len(arrived) + 1
      row == DedupRow(e)
  IN /\ Len(arrived) < MaxEvents
     /\ arrived' = Append(arrived, e)
     /\ dedup' = Append(dedup, row)
     /\ anomalies' = IF Anomalous(e)
          THEN anomalies \cup {[event |-> i, kind |-> AnomalyOf(arrived[newest[e.record]], e)]}
          ELSE anomalies
     /\ newest' = [newest EXCEPT ![e.record] = NewestAfter(i, e)]
     /\ watermark' = IF Advances(e) THEN i ELSE watermark
     /\ checkpoint' = IF Reaches(e) THEN i ELSE checkpoint
     /\ latest' = IF row.key = "accepted" /\ Replaces(e)
          THEN [latest EXCEPT ![e.record] = i] ELSE latest

Next == \E e \in Feed : Take(e)

Spec == Init /\ [][Next]_vars
-----------------------------------------------------------------------------
(* Properties *)

Indices == DOMAIN arrived
Of(r) == {i \in Indices : arrived[i].record = r}
Flagged == {a.event : a \in anomalies}

DedupRows == [key : {"accepted", "event_id", "event_hash", "kafka_offset"}, of : Nat]

\* Types; a row of the log, and every index kept, belongs to an event seen.
TypeOK ==
  /\ arrived \in Seq(Feed)
  /\ Len(arrived) <= MaxEvents
  /\ dedup \in Seq(DedupRows)
  /\ Len(dedup) = Len(arrived)
  /\ \A r \in Records : newest[r] \in Of(r) \cup {None} /\ latest[r] \in Of(r) \cup {None}
  /\ newest \in [Records -> Nat] /\ latest \in [Records -> Nat]
  /\ watermark \in Indices \cup {None} /\ checkpoint \in Indices \cup {None}
  /\ anomalies \subseteq [event : Indices, kind : {"out_of_order_sequence", "late_arriving_commit"}]

\* No delivery is applied twice, by whichever of its three keys it returns:
\* accepted events share neither id, nor hash, nor offset (cdc_state.py:68-108).
AcceptedOnce ==
  \A i, j \in Accepted : i # j =>
    /\ arrived[i].id # arrived[j].id
    /\ arrived[i].hash # arrived[j].hash
    /\ arrived[i].offset = NoOffset \/ arrived[i].offset # arrived[j].offset

\* Nothing is filtered without cause: a duplicate names an event that was
\* accepted before it and that shares the key the log gives.
DuplicateExplained ==
  \A i \in Indices \ Accepted :
    LET e == arrived[i]
        first == arrived[dedup[i].of]
    IN /\ dedup[i].of \in Accepted /\ dedup[i].of < i
       /\ dedup[i].key = "event_id" => first.id = e.id
       /\ dedup[i].key = "event_hash" => first.hash = e.hash
       /\ dedup[i].key = "kafka_offset" => first.offset = e.offset /\ e.offset # NoOffset

\* In whatever order its events arrived, and however often, the state of a
\* record is its accepted event with the greatest (sequence, commit, id).
LatestIsGreatest ==
  \A r \in Records :
    LET mine == Of(r) \cap Accepted
    IN IF mine = {} THEN latest[r] = None
       ELSE latest[r] \in mine /\ \A i \in mine : i # latest[r] => OrderBefore(arrived[i], arrived[latest[r]])

\* The watermark is not behind any event of the list in the order of the texts.
WatermarkIsLast ==
  \A i \in Indices : watermark # None /\ ~StampBefore(arrived[watermark], arrived[i])

\* The order of the timestamps themselves.
Earlier(t, u) == t.s < u.s \/ (t.s = u.s /\ t.us < u.us)

\* In time it can be behind one: 1.5 s arrived and the watermark says 1 s, whose
\* text is the greater.  Then it stands on a full second, and what is beyond it
\* lies within that second (cdc_envelope.py:81).
WatermarkCovers ==
  \A i \in Indices :
    /\ watermark # None
    /\ LET w == arrived[watermark].at  t == arrived[i].at
       IN Earlier(w, t) => w.us = 0 /\ t.s = w.s

\* The offset checkpoint is the greatest offset seen, the offset 0 included,
\* which the code's "or -1" takes for no offset (cdc_state.py:178).
CheckpointCovers ==
  \A i \in Indices : arrived[i].offset # NoOffset =>
    checkpoint # None /\ arrived[checkpoint].offset >= arrived[i].offset

\* A reader that resumes at the positions the run stored misses no offset, and
\* of the events in time none but those in the second of a watermark without
\* fraction, in whatever order the list was, with duplicates and late events
\* (cdc_state.py:146-186).
PositionsCover == WatermarkCovers /\ CheckpointCovers

\* One late event does not make the events after it look late: an anomaly is
\* behind an earlier event of its record that is itself no anomaly
\* (the "continue" at cdc_state.py:139).
AnomalyExplained ==
  /\ \A a \in anomalies : \E p \in Of(arrived[a.event].record) \ Flagged :
       /\ p < a.event
       /\ \/ OutOfSequence(arrived[p], arrived[a.event])
          \/ LateCommit(arrived[p], arrived[a.event])
  /\ \A i, j \in Indices \ Flagged :
       i < j /\ arrived[i].record = arrived[j].record => ~LateCommit(arrived[i], arrived[j])

\* The strengthening of these invariants that steps preserve: the newest event
\* of a record is none of its anomalies and no other that is none was committed
\* after it, and the offset checkpoint is an event with an offset.
NewestIsLast ==
  \A r \in Records :
    LET mine == Of(r) \ Flagged
    IN IF mine = {} THEN newest[r] = None
       ELSE newest[r] \in mine /\ \A i \in mine : ~LateCommit(arrived[i], arrived[newest[r]])
CheckpointHasOffset == checkpoint # None => arrived[checkpoint].offset # NoOffset

IndInv ==
  /\ TypeOK /\ NewestIsLast /\ CheckpointHasOffset
  /\ AcceptedOnce /\ DuplicateExplained /\ LatestIsGreatest
  /\ WatermarkIsLast /\ CheckpointCovers /\ AnomalyExplained

\* materialize_latest_state's comment (cdc_state.py:199): it applies events
\* "without letting old events replace newer state".  Between two events of one
\* sequence number, the one committed first is the old one.
NewerStateKept ==
  [][\A r \in Records :
       latest[r] # None /\ latest'[r] # latest[r] =>
         LET old == arrived[latest[r]] new == arrived'[latest'[r]]
         IN old.seq = new.seq => ~Earlier(new.commit, old.commit)]_vars
=============================================================================
