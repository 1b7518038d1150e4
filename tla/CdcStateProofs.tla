---------------------------- MODULE CdcStateProofs ----------------------------
(***************************************************************************)
(* Proofs about CdcState, for every feed of events and lists of any length. *)
(***************************************************************************)
EXTENDS CdcState, TLAPS

\* Timestamps as text are totally ordered, if not in the order of time
\* (cdc_envelope.py:79-81).
LEMMA TextOrder ==
  /\ \A t, u \in Time : TextBefore(t, u) \/ TextBefore(u, t) \/ t = u
  /\ \A t \in Time : ~TextBefore(t, t)
  /\ \A t, u, v \in Time : TextBefore(t, u) /\ TextBefore(u, v) => TextBefore(t, v)
<1>1. ASSUME NEW t \in Time, NEW u \in Time, t.s = u.s, t.us = u.us
      PROVE  t = u
  BY <1>1 DEF Time
<1>2. \A t, u \in Time : TextBefore(t, u) \/ TextBefore(u, t) \/ t = u
  BY <1>1 DEF TextBefore, Time
<1>3. \A t \in Time : ~TextBefore(t, t)
  BY DEF TextBefore, Time
<1>4. \A t, u, v \in Time : TextBefore(t, u) /\ TextBefore(u, v) => TextBefore(t, v)
  BY DEF TextBefore, Time
<1> QED
  BY <1>2, <1>3, <1>4

\* The tuple (sequence, commit, id) orders events totally, up to their id.
LEMMA EventOrder ==
  /\ \A e, f \in Event : e.id # f.id => OrderBefore(e, f) \/ OrderBefore(f, e)
  /\ \A e, f, g \in Event : OrderBefore(e, f) /\ OrderBefore(f, g) => OrderBefore(e, g)
<1>1. \A e \in Event : e.commit \in Time /\ e.seq \in Nat /\ e.id \in Nat
  BY DEF Event
<1>2. ASSUME NEW e \in Event, NEW f \in Event, e.id # f.id
      PROVE  OrderBefore(e, f) \/ OrderBefore(f, e)
  BY <1>1, <1>2, TextOrder DEF OrderBefore
<1>3. ASSUME NEW e \in Event, NEW f \in Event, NEW g \in Event,
             OrderBefore(e, f), OrderBefore(f, g)
      PROVE  OrderBefore(e, g)
  <2>1. TextBefore(e.commit, f.commit) /\ TextBefore(f.commit, g.commit)
             => TextBefore(e.commit, g.commit)
    BY <1>1, TextOrder
  <2> QED BY <1>1, <1>3, <2>1 DEF OrderBefore
<1> QED BY <1>2, <1>3

\* What is not before the newest is not before anything the newest covers: the
\* pair (timestamp, id) orders events weakly.
LEMMA StampOrder ==
  \A e, f, g \in Event : ~StampBefore(e, f) /\ ~StampBefore(f, g) => ~StampBefore(e, g)
<1>1. \A e \in Event : e.at \in Time /\ e.id \in Nat
  BY DEF Event
<1> SUFFICES ASSUME NEW e \in Event, NEW f \in Event, NEW g \in Event,
                    ~StampBefore(e, f), ~StampBefore(f, g), StampBefore(e, g)
             PROVE  FALSE
  OBVIOUS
<1>2. /\ TextBefore(f.at, e.at) \/ (f.at = e.at /\ f.id <= e.id)
      /\ TextBefore(g.at, f.at) \/ (g.at = f.at /\ g.id <= f.id)
  BY <1>1, TextOrder DEF StampBefore
<1>3. TextBefore(g.at, e.at) \/ (g.at = e.at /\ g.id <= e.id)
  BY <1>1, <1>2, TextOrder
<1> QED
  BY <1>1, <1>3, TextOrder DEF StampBefore
-----------------------------------------------------------------------------
\* A step appends one event and one row, and leaves the others as they are.
LEMMA TakeAppends ==
  ASSUME TypeOK, NEW e \in Feed, Take(e)
  PROVE  LET n == Len(arrived) + 1
         IN /\ n \in Nat \ {0} /\ n \notin Indices /\ n <= MaxEvents
            /\ Indices = 1..(n - 1) /\ Indices' = 1..n
            /\ DOMAIN dedup = 1..(n - 1) /\ DOMAIN dedup' = 1..n
            /\ arrived' \in Seq(Feed) /\ Len(arrived') = n
            /\ dedup'[n] = DedupRow(e) /\ Len(dedup') = n
            /\ arrived'[n] = e
            /\ \A i \in Indices : i # n /\ i < n /\ arrived'[i] = arrived[i] /\ dedup'[i] = dedup[i]
            /\ \A r \in Records : Of(r)' = IF r = e.record THEN Of(r) \cup {n} ELSE Of(r)
            /\ Accepted' = IF DedupRow(e).key = "accepted" THEN Accepted \cup {n} ELSE Accepted
<1> DEFINE n == Len(arrived) + 1
<1>1. /\ arrived' = Append(arrived, e) /\ dedup' = Append(dedup, DedupRow(e))
      /\ Len(arrived) < MaxEvents
  BY DEF Take
<1>2. /\ n \in Nat \ {0} /\ n \notin Indices /\ n <= MaxEvents
      /\ Indices = 1..(n - 1) /\ Indices' = 1..n
      /\ DOMAIN dedup = 1..(n - 1) /\ DOMAIN dedup' = 1..n
      /\ arrived' \in Seq(Feed) /\ Len(arrived') = n
  BY <1>1, CdcStateAssumption DEF TypeOK, Indices
<1>3. /\ dedup'[n] = DedupRow(e) /\ arrived'[n] = e
      /\ \A i \in Indices : i # n /\ i < n /\ arrived'[i] = arrived[i] /\ dedup'[i] = dedup[i]
  BY <1>1, <1>2 DEF TypeOK, Indices
<1>4. ASSUME NEW r \in Records
      PROVE  Of(r)' = IF r = e.record THEN Of(r) \cup {n} ELSE Of(r)
  <2>1. Of(r)' = {i \in 1..n : arrived'[i].record = r}
    BY <1>2 DEF Of
  <2>2. Of(r) = {i \in 1..(n - 1) : arrived'[i].record = r}
    BY <1>2, <1>3 DEF Of
  <2> HIDE DEF n
  <2> QED BY <1>2, <1>3, <2>1, <2>2
<1>5. Accepted' = IF DedupRow(e).key = "accepted" THEN Accepted \cup {n} ELSE Accepted
  <2>1. Accepted' = {i \in 1..n : dedup'[i].key = "accepted"}
    BY <1>2 DEF Accepted
  <2>2. Accepted = {i \in 1..(n - 1) : dedup'[i].key = "accepted"}
    BY <1>2, <1>3 DEF Accepted
  <2> HIDE DEF n
  <2> QED BY <1>2, <1>3, <2>1, <2>2
<1>6. Len(dedup') = n
  BY <1>1 DEF TypeOK
<1> QED
  BY <1>2, <1>3, <1>4, <1>5, <1>6

\* The row of an event names an accepted event with the key it gives, or no
\* accepted event shares any of the three keys (cdc_state.py:73-107).
LEMMA RowExplained ==
  ASSUME TypeOK, NEW e \in Feed
  PROVE  LET row == DedupRow(e)
         IN /\ row \in DedupRows
            /\ row.key = "event_id" => row.of \in Accepted /\ arrived[row.of].id = e.id
            /\ row.key = "event_hash" => row.of \in Accepted /\ arrived[row.of].hash = e.hash
            /\ row.key = "kafka_offset" =>
                 row.of \in Accepted /\ arrived[row.of].offset = e.offset /\ e.offset # NoOffset
            /\ row.key = "accepted" => \A i \in Accepted :
                 /\ arrived[i].id # e.id
                 /\ arrived[i].hash # e.hash
                 /\ e.offset = NoOffset \/ arrived[i].offset # e.offset
<1>1. Accepted \subseteq Nat
  BY DEF Accepted, TypeOK
<1>2. ASSUME NEW S \in SUBSET Accepted, S # {}, NEW key \in {"event_id", "event_hash", "kafka_offset"}
      PROVE  /\ Row(key, S) \in DedupRows /\ Row(key, S).key = key
             /\ Row(key, S).of \in S
  <2>1. (CHOOSE i \in S : TRUE) \in S
    BY <1>2
  <2> QED BY <1>1, <1>2, <2>1 DEF Row, DedupRows
<1>3. /\ ById(e) \in SUBSET Accepted /\ ByHash(e) \in SUBSET Accepted
      /\ ByOffset(e) \in SUBSET Accepted
  BY DEF ById, ByHash, ByOffset, Seen
<1>4. CASE ById(e) # {}
  <2>1. DedupRow(e) = Row("event_id", ById(e))
    BY <1>4 DEF DedupRow
  <2> QED BY <1>2, <1>3, <1>4, <2>1 DEF ById, Seen
<1>5. CASE ById(e) = {} /\ ByHash(e) # {}
  <2>1. DedupRow(e) = Row("event_hash", ByHash(e))
    BY <1>5 DEF DedupRow
  <2> QED BY <1>2, <1>3, <1>5, <2>1 DEF ByHash, Seen
<1>6. CASE ById(e) = {} /\ ByHash(e) = {} /\ ByOffset(e) # {}
  <2>1. DedupRow(e) = Row("kafka_offset", ByOffset(e))
    BY <1>6 DEF DedupRow
  <2> QED BY <1>2, <1>3, <1>6, <2>1 DEF ByOffset, Seen
<1>7. CASE ById(e) = {} /\ ByHash(e) = {} /\ ByOffset(e) = {}
  <2>1. DedupRow(e) = [key |-> "accepted", of |-> None]
    BY <1>7 DEF DedupRow
  <2>2. DedupRow(e) \in DedupRows /\ DedupRow(e).key = "accepted"
    BY <2>1 DEF DedupRows, None
  <2> QED BY <1>7, <2>2 DEF ById, ByHash, ByOffset, Seen
<1> QED BY <1>4, <1>5, <1>6, <1>7

\* The dictionaries keep indices of the list.
LEMMA TypeStep ==
  ASSUME IndInv, NEW e \in Feed, Take(e)
  PROVE  TypeOK'
<1> USE DEF IndInv
<1> DEFINE n == Len(arrived) + 1
<1>1. /\ n \in Nat \ {0} /\ n <= MaxEvents /\ arrived' \in Seq(Feed) /\ Len(arrived') = n
      /\ Indices = 1..(n - 1) /\ Indices' = 1..n
      /\ e.record \in Records /\ dedup' = Append(dedup, DedupRow(e))
      /\ \A r \in Records : Of(r)' = IF r = e.record THEN Of(r) \cup {n} ELSE Of(r)
  BY TakeAppends, CdcStateAssumption DEF Event, Take
<1>2. dedup' \in Seq(DedupRows) /\ Len(dedup') = Len(arrived')
  BY <1>1, RowExplained DEF TypeOK
<1> HIDE DEF n
<1>3. /\ newest' \in [Records -> Nat]
      /\ \A r \in Records : newest'[r] \in Of(r)' \cup {None}
  <2>1. newest' = [newest EXCEPT ![e.record] = NewestAfter(n, e)]
    BY DEF Take, n
  <2>2. NewestAfter(n, e) \in {n, newest[e.record]}
    BY DEF NewestAfter
  <2> QED BY <1>1, <2>1, <2>2 DEF TypeOK
<1>4. /\ latest' \in [Records -> Nat]
      /\ \A r \in Records : latest'[r] \in Of(r)' \cup {None}
  <2>1. latest' = latest \/ latest' = [latest EXCEPT ![e.record] = n]
    BY DEF Take, n
  <2> QED BY <1>1, <2>1 DEF TypeOK
<1>5. watermark' \in Indices' \cup {None} /\ checkpoint' \in Indices' \cup {None}
  <2>1. watermark' \in {n, watermark} /\ checkpoint' \in {n, checkpoint}
    BY DEF Take, n
  <2> QED BY <1>1, <2>1 DEF TypeOK
<1>6. anomalies' \subseteq [event : Indices', kind : {"out_of_order_sequence", "late_arriving_commit"}]
  <2>1. \A p : AnomalyOf(p, e) \in {"out_of_order_sequence", "late_arriving_commit"}
    BY DEF AnomalyOf
  <2>2. \/ anomalies' = anomalies
        \/ anomalies' = anomalies \cup {[event |-> n, kind |-> AnomalyOf(arrived[newest[e.record]], e)]}
    BY DEF Take, n
  <2> QED BY <1>1, <2>1, <2>2 DEF TypeOK
<1> QED
  BY <1>1, <1>2, <1>3, <1>4, <1>5, <1>6 DEF TypeOK

\* The three sets of seen keys together filter every repetition, and nothing
\* else (filter_idempotent_events).
LEMMA DedupStep ==
  ASSUME IndInv, NEW e \in Feed, Take(e)
  PROVE  (AcceptedOnce /\ DuplicateExplained)'
<1> USE DEF IndInv
<1> DEFINE n == Len(arrived) + 1
           row == DedupRow(e)
<1>1. /\ n \notin Indices /\ n \in Nat \ {0} /\ Indices' = Indices \cup {n}
      /\ Accepted \subseteq Indices
      /\ arrived'[n] = e /\ dedup'[n] = row
      /\ \A i \in Indices : i # n /\ i < n /\ arrived'[i] = arrived[i] /\ dedup'[i] = dedup[i]
      /\ Accepted' = IF row.key = "accepted" THEN Accepted \cup {n} ELSE Accepted
  BY TakeAppends DEF Accepted
<1>2. /\ row.key \in {"accepted", "event_id", "event_hash", "kafka_offset"}
      /\ row.key = "event_id" => row.of \in Accepted /\ arrived[row.of].id = e.id
      /\ row.key = "event_hash" => row.of \in Accepted /\ arrived[row.of].hash = e.hash
      /\ row.key = "kafka_offset" =>
           row.of \in Accepted /\ arrived[row.of].offset = e.offset /\ e.offset # NoOffset
      /\ row.key = "accepted" => \A i \in Accepted :
           /\ arrived[i].id # e.id
           /\ arrived[i].hash # e.hash
           /\ e.offset = NoOffset \/ arrived[i].offset # e.offset
  BY RowExplained DEF DedupRows
<1> HIDE DEF n, row
<1>3. AcceptedOnce'
  <2> SUFFICES ASSUME NEW i \in Accepted', NEW j \in Accepted', i # j
               PROVE  /\ arrived'[i].id # arrived'[j].id
                      /\ arrived'[i].hash # arrived'[j].hash
                      /\ arrived'[i].offset = NoOffset \/ arrived'[i].offset # arrived'[j].offset
    BY DEF AcceptedOnce
  <2>1. CASE i \in Accepted /\ j \in Accepted
    <3>1. arrived'[i] = arrived[i] /\ arrived'[j] = arrived[j]
      BY <1>1, <2>1
    <3> QED BY <2>1, <3>1 DEF AcceptedOnce
  <2>2. CASE i = n /\ j \in Accepted
    BY <1>1, <1>2, <2>2
  <2>3. CASE i \in Accepted /\ j = n
    BY <1>1, <1>2, <2>3
  <2> QED BY <1>1, <2>1, <2>2, <2>3
<1>4. DuplicateExplained'
  <2> SUFFICES ASSUME NEW i \in (Indices \ Accepted)'
               PROVE  LET a == arrived'[i]
                          first == arrived'[dedup'[i].of]
                      IN /\ dedup'[i].of \in Accepted' /\ dedup'[i].of < i
                         /\ dedup'[i].key = "event_id" => first.id = a.id
                         /\ dedup'[i].key = "event_hash" => first.hash = a.hash
                         /\ dedup'[i].key = "kafka_offset" => first.offset = a.offset /\ a.offset # NoOffset
    BY DEF DuplicateExplained
  <2>1. CASE i = n
    <3>1. row.key # "accepted"
      BY <1>1, <2>1
    <3>2. row.of \in Accepted
      BY <1>2, <3>1
    <3>3. row.of \in Accepted' /\ row.of < n /\ arrived'[row.of] = arrived[row.of]
      BY <1>1, <3>2
    <3> QED BY <1>1, <1>2, <2>1, <3>1, <3>3
  <2>2. CASE i \in Indices \ Accepted
    <3>1. dedup'[i] = dedup[i] /\ arrived'[i] = arrived[i]
      BY <1>1, <2>2
    <3>2. dedup[i].of \in Accepted
      BY <2>2 DEF DuplicateExplained
    <3>3. dedup[i].of \in Accepted' /\ arrived'[dedup[i].of] = arrived[dedup[i].of]
      BY <1>1, <3>2
    <3> QED BY <2>2, <3>1, <3>3 DEF DuplicateExplained
  <2> QED BY <1>1, <2>1, <2>2
<1> QED BY <1>3, <1>4

\* materialize_latest_state keeps the greatest accepted event of each record.
LEMMA LatestStep ==
  ASSUME IndInv, NEW e \in Feed, Take(e)
  PROVE  LatestIsGreatest'
<1> USE DEF IndInv
<1> DEFINE n == Len(arrived) + 1
           row == DedupRow(e)
           Mine(r) == Of(r) \cap Accepted
<1>0. /\ e \in Event /\ e.record \in Records
      /\ \A i \in Indices : arrived[i] \in Event
      /\ \A r \in Records : Of(r) \subseteq Indices
  BY CdcStateAssumption DEF Of, Indices, TypeOK, Event
<1>1. /\ n \notin Indices /\ Accepted \subseteq Indices /\ e \in Event /\ e.record \in Records
      /\ arrived'[n] = e
      /\ \A i \in Indices : i # n /\ arrived'[i] = arrived[i] /\ arrived[i] \in Event
      /\ Accepted' = IF row.key = "accepted" THEN Accepted \cup {n} ELSE Accepted
      /\ \A r \in Records : Of(r)' = IF r = e.record THEN Of(r) \cup {n} ELSE Of(r)
      /\ \A r \in Records : Of(r) \subseteq Indices
  BY <1>0, TakeAppends DEF Accepted
<1>2. row.key = "accepted" => \A i \in Accepted : arrived[i].id # e.id
  BY RowExplained
<1>3. latest' = IF row.key = "accepted" /\ Replaces(e) THEN [latest EXCEPT ![e.record] = n] ELSE latest
  BY DEF Take
<1>4. latest \in [Records -> Nat]
  BY DEF TypeOK
<1> HIDE DEF n, row
<1> SUFFICES ASSUME NEW r \in Records
             PROVE  IF Mine(r)' = {} THEN latest'[r] = None
                    ELSE /\ latest'[r] \in Mine(r)'
                         /\ \A i \in Mine(r)' :
                              i # latest'[r] => OrderBefore(arrived'[i], arrived'[latest'[r]])
  BY DEF LatestIsGreatest
<1>5. IF Mine(r) = {} THEN latest[r] = None
      ELSE /\ latest[r] \in Mine(r)
           /\ \A i \in Mine(r) : i # latest[r] => OrderBefore(arrived[i], arrived[latest[r]])
  BY DEF LatestIsGreatest
<1>6. CASE ~(row.key = "accepted" /\ r = e.record)
  <2>1. Mine(r)' = Mine(r)
    BY <1>1, <1>6
  <2>2. latest'[r] = latest[r]
    BY <1>3, <1>4, <1>6
  <2>3. \A i \in Mine(r) : arrived'[i] = arrived[i]
    BY <1>1
  <2> HIDE DEF Mine
  <2> QED BY <1>5, <2>1, <2>2, <2>3
<1>7. CASE row.key = "accepted" /\ r = e.record
  <2>1. Mine(r)' = Mine(r) \cup {n} /\ n \notin Mine(r)
    BY <1>1, <1>7
  <2>2. \A i \in Mine(r) : arrived'[i] = arrived[i] /\ arrived[i] \in Event /\ arrived[i].id # e.id
    BY <1>1, <1>2, <1>7
  <2>3. n # None
    BY <1>1, TakeAppends DEF n, None
  <2>4. latest[r] = None \/ latest[r] \in Mine(r)
    BY <1>5
  <2>5. Mine(r) = {} <=> latest[r] = None
    <3>1. None \notin Mine(r)
      BY <1>1, TakeAppends DEF None
    <3> QED BY <1>5, <3>1
  <2> HIDE DEF Mine
  <2>6. CASE latest[r] = None
    <3>1. latest'[r] = n
      BY <1>3, <1>4, <1>7, <2>6 DEF Replaces
    <3> QED BY <2>1, <2>5, <2>6, <3>1
  <2>7. CASE latest[r] # None /\ OrderBefore(arrived[latest[r]], e)
    <3>1. latest'[r] = n
      BY <1>3, <1>4, <1>7, <2>7 DEF Replaces
    <3>2. \A i \in Mine(r) : OrderBefore(arrived[i], e)
      BY <1>1, <1>5, <2>2, <2>4, <2>5, <2>7, EventOrder
    <3> QED BY <1>1, <2>1, <2>2, <3>1, <3>2
  <2>8. CASE latest[r] # None /\ ~OrderBefore(arrived[latest[r]], e)
    <3>1. latest'[r] = latest[r]
      BY <1>3, <1>7, <2>8 DEF Replaces
    <3>2. OrderBefore(e, arrived[latest[r]])
      BY <1>1, <2>2, <2>4, <2>8, EventOrder
    <3> QED BY <1>1, <1>5, <2>1, <2>2, <2>4, <2>5, <2>8, <3>1, <3>2
  <2> QED BY <2>6, <2>7, <2>8
<1> QED BY <1>6, <1>7

\* Neither checkpoint falls behind, the offset 0 and late arrivals included
\* (build_watermark_checkpoints, build_topic_offset_checkpoints).
LEMMA CheckpointStep ==
  ASSUME IndInv, NEW e \in Feed, Take(e)
  PROVE  (WatermarkIsLast /\ CheckpointCovers /\ CheckpointHasOffset)'
<1> USE DEF IndInv
<1> DEFINE n == Len(arrived) + 1
<1>1. e \in Event /\ \A i \in Indices : arrived[i] \in Event
  BY CdcStateAssumption DEF Indices, TypeOK
<1>2. /\ n \notin Indices /\ n # None /\ None \notin Indices
      /\ Indices' = Indices \cup {n} /\ arrived'[n] = e
      /\ \A i \in Indices : i # n /\ arrived'[i] = arrived[i]
  BY TakeAppends DEF None
<1>3. /\ watermark' = IF Advances(e) THEN n ELSE watermark
      /\ checkpoint' = IF Reaches(e) THEN n ELSE checkpoint
  BY DEF Take
<1>4. watermark \in Indices \cup {None} /\ checkpoint \in Indices \cup {None}
  BY DEF TypeOK
<1> HIDE DEF n
<1>5. WatermarkIsLast'
  <2>1. \A f \in Event : ~StampBefore(f, f)
    BY TextOrder DEF StampBefore, Event
  <2>2. CASE Advances(e)
    <3>1. \A i \in Indices : ~StampBefore(e, arrived[i])
      BY <1>1, <1>4, <2>2, StampOrder DEF Advances, WatermarkIsLast
    <3> QED BY <1>1, <1>2, <1>3, <2>1, <2>2, <3>1 DEF WatermarkIsLast
  <2>3. CASE ~Advances(e)
    <3>1. watermark \in Indices /\ StampBefore(e, arrived[watermark])
      BY <1>4, <2>3 DEF Advances
    <3>2. ~StampBefore(arrived[watermark], e)
      BY <1>1, <2>1, <3>1, TextOrder DEF StampBefore, Event
    <3> QED BY <1>2, <1>3, <2>3, <3>1, <3>2 DEF WatermarkIsLast
  <2> QED BY <2>2, <2>3
<1>6. (CheckpointCovers /\ CheckpointHasOffset)'
  <2>1. \A f \in Event : f.offset \in Nat \/ f.offset = NoOffset
    BY DEF Event
  <2>2. CASE Reaches(e)
    <3>1. e.offset # NoOffset
      BY <2>2 DEF Reaches
    <3>2. \A i \in Indices : arrived[i].offset # NoOffset => e.offset >= arrived[i].offset
      <4> SUFFICES ASSUME NEW i \in Indices, arrived[i].offset # NoOffset
                   PROVE  e.offset >= arrived[i].offset
        OBVIOUS
      <4>1. checkpoint # None /\ arrived[checkpoint].offset >= arrived[i].offset
        BY DEF CheckpointCovers
      <4>2. e.offset >= OrMinusOne(arrived[checkpoint].offset)
        BY <1>1, <1>4, <2>1, <2>2, <3>1, <4>1 DEF Reaches, OffsetBefore, OrMinusOne, NoOffset
      <4> QED BY <1>1, <1>4, <2>1, <3>1, <4>1, <4>2 DEF OrMinusOne, NoOffset
    <3> QED BY <1>1, <1>2, <1>3, <2>1, <2>2, <3>1, <3>2 DEF CheckpointCovers, CheckpointHasOffset
  <2>3. CASE ~Reaches(e)
    <3>1. e.offset # NoOffset => checkpoint \in Indices /\ arrived[checkpoint].offset >= e.offset
      <4> SUFFICES ASSUME e.offset # NoOffset
                   PROVE  checkpoint \in Indices /\ arrived[checkpoint].offset >= e.offset
        OBVIOUS
      <4>1. checkpoint \in Indices /\ OffsetBefore(e, arrived[checkpoint])
        BY <1>4, <2>3 DEF Reaches
      <4> QED BY <1>1, <2>1, <4>1 DEF OffsetBefore, OrMinusOne, NoOffset
    <3> QED BY <1>2, <1>3, <1>4, <2>3, <3>1 DEF CheckpointCovers, CheckpointHasOffset
  <2> QED BY <2>2, <2>3
<1> QED BY <1>5, <1>6

\* An anomaly never becomes the event that later ones are compared with
\* (the "continue" of build_ordering_anomalies).
LEMMA AnomalyStep ==
  ASSUME IndInv, NEW e \in Feed, Take(e)
  PROVE  (NewestIsLast /\ AnomalyExplained)'
<1> USE DEF IndInv
<1> DEFINE n == Len(arrived) + 1
           p == newest[e.record]
<1>1. e \in Event /\ e.record \in Records /\ \A i \in Indices : arrived[i] \in Event
  BY CdcStateAssumption DEF Indices, TypeOK, Event
<1>2. /\ n \notin Indices /\ n # None /\ None \notin Indices
      /\ Indices' = Indices \cup {n} /\ arrived'[n] = e
      /\ \A i \in Indices : i # n /\ i < n /\ arrived'[i] = arrived[i]
      /\ \A r \in Records : Of(r)' = IF r = e.record THEN Of(r) \cup {n} ELSE Of(r)
  BY TakeAppends DEF None
<1>3. /\ Flagged \subseteq Indices
      /\ \A r \in Records : Of(r) \subseteq Indices /\ \A i \in Of(r) : arrived[i].record = r
  BY DEF TypeOK, Flagged, Of
<1>4. Flagged' = IF Anomalous(e) THEN Flagged \cup {n} ELSE Flagged
  <2>1. CASE Anomalous(e)
    <3> DEFINE x == [event |-> n, kind |-> AnomalyOf(arrived[newest[e.record]], e)]
    <3>1. anomalies' = anomalies \cup {x} /\ x.event = n
      BY <2>1 DEF Take
    <3> HIDE DEF x, n
    <3> QED BY <2>1, <3>1 DEF Flagged
  <2>2. CASE ~Anomalous(e)
    BY <2>2 DEF Take, Flagged
  <2> QED BY <2>1, <2>2
<1>5. /\ newest' = [newest EXCEPT ![e.record] = NewestAfter(n, e)]
      /\ newest \in [Records -> Nat]
  BY DEF Take, TypeOK
<1>6. Anomalous(e) => /\ p \in Of(e.record) \ Flagged
                      /\ OutOfSequence(arrived[p], e) \/ LateCommit(arrived[p], e)
  BY <1>1 DEF Anomalous, NewestIsLast
<1>7. \A f, g, h \in Event : ~LateCommit(f, g) /\ ~LateCommit(g, h) => ~LateCommit(f, h)
  BY TextOrder DEF LateCommit, Event
<1>8. \A f \in Event : ~LateCommit(f, f)
  BY TextOrder DEF LateCommit, Event
<1>9. ~Anomalous(e) => \A i \in Of(e.record) \ Flagged : ~LateCommit(arrived[i], e)
  <2> SUFFICES ASSUME ~Anomalous(e), NEW i \in Of(e.record) \ Flagged
               PROVE  ~LateCommit(arrived[i], e)
    OBVIOUS
  <2>1. p \in Of(e.record) /\ ~LateCommit(arrived[i], arrived[p])
    BY <1>1 DEF NewestIsLast
  <2>2. p \in Indices /\ i \in Indices /\ ~LateCommit(arrived[p], e)
    BY <1>1, <1>2, <1>3, <2>1 DEF Anomalous
  <2> QED BY <1>1, <1>7, <2>1, <2>2
<1> HIDE DEF n, p
<1>10. NewestIsLast'
  <2> SUFFICES ASSUME NEW r \in Records
               PROVE  IF (Of(r) \ Flagged)' = {} THEN newest'[r] = None
                      ELSE /\ newest'[r] \in (Of(r) \ Flagged)'
                           /\ \A i \in (Of(r) \ Flagged)' : ~LateCommit(arrived'[i], arrived'[newest'[r]])
    BY DEF NewestIsLast
  <2>1. IF Of(r) \ Flagged = {} THEN newest[r] = None
        ELSE /\ newest[r] \in Of(r) \ Flagged
             /\ \A i \in Of(r) \ Flagged : ~LateCommit(arrived[i], arrived[newest[r]])
    BY DEF NewestIsLast
  <2>2. CASE r # e.record \/ Anomalous(e)
    <3>1. (Of(r) \ Flagged)' = Of(r) \ Flagged
      BY <1>2, <1>3, <1>4, <2>2
    <3>2. newest'[r] = newest[r]
      BY <1>5, <2>2 DEF NewestAfter
    <3>3. \A i \in Of(r) \ Flagged : arrived'[i] = arrived[i]
      BY <1>2, <1>3
    <3> QED BY <2>1, <3>1, <3>2, <3>3
  <2>3. CASE r = e.record /\ ~Anomalous(e)
    <3>1. (Of(r) \ Flagged)' = (Of(r) \ Flagged) \cup {n}
      BY <1>2, <1>3, <1>4, <2>3
    <3>2. newest'[r] = n
      BY <1>5, <2>3 DEF NewestAfter
    <3> QED BY <1>1, <1>2, <1>3, <1>8, <1>9, <2>3, <3>1, <3>2
  <2> QED BY <2>2, <2>3
<1>11. \A a \in anomalies' : \E q \in (Of(arrived[a.event].record) \ Flagged)' :
         /\ q < a.event
         /\ OutOfSequence(arrived'[q], arrived'[a.event]) \/ LateCommit(arrived'[q], arrived'[a.event])
  <2> SUFFICES ASSUME NEW a \in anomalies'
               PROVE  \E q \in (Of(arrived[a.event].record) \ Flagged)' :
                        /\ q < a.event
                        /\ \/ OutOfSequence(arrived'[q], arrived'[a.event])
                           \/ LateCommit(arrived'[q], arrived'[a.event])
    OBVIOUS
  <2>1. CASE a \in anomalies
    <3>1. a.event \in Indices /\ arrived'[a.event] = arrived[a.event]
      BY <1>2, <2>1 DEF TypeOK
    <3>2. PICK q \in Of(arrived[a.event].record) \ Flagged :
            /\ q < a.event
            /\ OutOfSequence(arrived[q], arrived[a.event]) \/ LateCommit(arrived[q], arrived[a.event])
      BY <2>1 DEF AnomalyExplained
    <3>3. arrived[a.event].record \in Records
      BY <1>1, <3>1 DEF Event
    <3>4. q \in (Of(arrived[a.event].record) \ Flagged)'
      BY <1>2, <1>3, <1>4, <3>1, <3>2, <3>3
    <3>5. arrived'[q] = arrived[q]
      BY <1>2, <1>3, <3>2, <3>3
    <3> QED BY <3>1, <3>2, <3>4, <3>5
  <2>2. CASE a \notin anomalies
    <3>1. Anomalous(e) /\ a.event = n
      BY <2>2 DEF Take, n
    <3>2. p \in Of(e.record) \ Flagged /\ p \in Indices
      BY <1>1, <1>3, <1>6, <3>1
    <3>3. p \in (Of(arrived[a.event].record) \ Flagged)'
      BY <1>1, <1>2, <1>4, <3>1, <3>2
    <3> QED BY <1>2, <1>6, <3>1, <3>2, <3>3
  <2> QED BY <2>1, <2>2
<1>12. \A i, j \in (Indices \ Flagged)' :
         i < j /\ arrived'[i].record = arrived'[j].record => ~LateCommit(arrived'[i], arrived'[j])
  <2> SUFFICES ASSUME NEW i \in (Indices \ Flagged)', NEW j \in (Indices \ Flagged)',
                      i < j, arrived'[i].record = arrived'[j].record
               PROVE  ~LateCommit(arrived'[i], arrived'[j])
    OBVIOUS
  <2>1. i \in Indices \ Flagged
    BY <1>2, <1>3, <1>4, TakeAppends DEF n
  <2>2. CASE j \in Indices
    <3>1. j \in Indices \ Flagged /\ arrived'[i] = arrived[i] /\ arrived'[j] = arrived[j]
      BY <1>2, <1>4, <2>1, <2>2
    <3> QED BY <2>1, <3>1 DEF AnomalyExplained
  <2>3. CASE j = n
    <3>1. ~Anomalous(e)
      BY <1>4, <2>3
    <3>2. i \in Of(e.record) \ Flagged /\ arrived'[i] = arrived[i]
      BY <1>2, <2>1, <2>3 DEF Of
    <3> QED BY <1>2, <1>9, <2>3, <3>1, <3>2
  <2> QED BY <1>2, <2>2, <2>3
<1> QED
  BY <1>10, <1>11, <1>12 DEF AnomalyExplained

LEMMA InitIndInv == Init => IndInv
<1> SUFFICES ASSUME Init PROVE IndInv
  OBVIOUS
<1>1. Indices = {} /\ DOMAIN dedup = {} /\ Accepted = {} /\ Flagged = {}
  BY DEF Init, Indices, Accepted, Flagged
<1>2. TypeOK
  BY CdcStateAssumption DEF Init, TypeOK, None
<1>3. \A r \in Records : Of(r) = {}
  BY <1>1 DEF Of
<1>4. NewestIsLast /\ LatestIsGreatest
  BY <1>3 DEF Init, NewestIsLast, LatestIsGreatest
<1>5. AcceptedOnce /\ DuplicateExplained /\ WatermarkIsLast /\ CheckpointCovers
  BY <1>1 DEF AcceptedOnce, DuplicateExplained, WatermarkIsLast, CheckpointCovers
<1>6. AnomalyExplained /\ CheckpointHasOffset
  BY <1>1 DEF Init, AnomalyExplained, CheckpointHasOffset
<1> QED
  BY <1>2, <1>4, <1>5, <1>6 DEF IndInv

\* The inductive invariant holds of every prefix of every list.
THEOREM SpecIndInv == Spec => []IndInv
<1>1. IndInv /\ [Next]_vars => IndInv'
  <2>1. ASSUME IndInv, NEW e \in Feed, Take(e)
        PROVE  IndInv'
    BY <2>1, TypeStep, DedupStep, LatestStep, CheckpointStep, AnomalyStep DEF IndInv
  <2>2. ASSUME IndInv, UNCHANGED vars
        PROVE  IndInv'
    <3>1. /\ TypeOK' /\ NewestIsLast' /\ CheckpointHasOffset'
      BY <2>2 DEF vars, IndInv, TypeOK, NewestIsLast, CheckpointHasOffset, Of, Indices, Flagged
    <3>2. AcceptedOnce' /\ DuplicateExplained' /\ LatestIsGreatest'
      BY <2>2 DEF vars, IndInv, AcceptedOnce, DuplicateExplained, LatestIsGreatest,
                  Of, Indices, Accepted
    <3>3. WatermarkIsLast' /\ CheckpointCovers' /\ AnomalyExplained'
      BY <2>2 DEF vars, IndInv, WatermarkIsLast, CheckpointCovers, AnomalyExplained,
                  Of, Indices, Flagged
    <3> QED BY <3>1, <3>2, <3>3 DEF IndInv
  <2> QED BY <2>1, <2>2 DEF Next
<1> QED
  BY InitIndInv, <1>1, PTL DEF Spec

\* Types: every index the dictionaries hold is one of the list.
THEOREM SpecTypeOK == Spec => []TypeOK
BY SpecIndInv, PTL DEF IndInv

\* For lists of any length, no delivery is accepted twice.
THEOREM DeliveriesAcceptedOnce == Spec => []AcceptedOnce
BY SpecIndInv, PTL DEF IndInv

\* For lists of any length, every filtered delivery repeats an accepted one.
THEOREM DuplicatesExplained == Spec => []DuplicateExplained
BY SpecIndInv, PTL DEF IndInv

\* In any order of arrival, the latest state is that of the greatest event.
THEOREM StateIsGreatest == Spec => []LatestIsGreatest
BY SpecIndInv, PTL DEF IndInv

\* What is not before in text is not before in time either, but for a full second
\* beside its own fractions.
LEMMA BehindInText ==
  ASSUME NEW t \in Time, NEW u \in Time, ~TextBefore(t, u), Earlier(t, u)
  PROVE  t.us = 0 /\ u.s = t.s
BY DEF TextBefore, Earlier, Time

\* For lists of any length, in any order: the checkpoint covers every offset, the
\* watermark every event but those in the second of a watermark without fraction.
THEOREM CheckpointsCover == Spec => []PositionsCover
<1>1. ASSUME IndInv PROVE WatermarkCovers
  <2> USE <1>1 DEF IndInv
  <2> SUFFICES ASSUME NEW i \in Indices
               PROVE  /\ watermark # None
                      /\ Earlier(arrived[watermark].at, arrived[i].at) =>
                           /\ arrived[watermark].at.us = 0
                           /\ arrived[i].at.s = arrived[watermark].at.s
    BY DEF WatermarkCovers
  <2>1. watermark # None /\ ~StampBefore(arrived[watermark], arrived[i])
    BY DEF WatermarkIsLast
  <2>2. watermark \in DOMAIN arrived /\ i \in DOMAIN arrived
    BY <2>1 DEF TypeOK, Indices
  <2>3. arrived[watermark] \in Event /\ arrived[i] \in Event
    BY <2>2, CdcStateAssumption DEF TypeOK
  <2>4. arrived[watermark].at \in Time /\ arrived[i].at \in Time
    BY <2>3 DEF Event
  <2>5. ~TextBefore(arrived[watermark].at, arrived[i].at)
    BY <2>1 DEF StampBefore
  <2> QED BY <2>1, <2>4, <2>5, BehindInText
<1>2. IndInv => PositionsCover
  BY <1>1 DEF IndInv, PositionsCover
<1> QED BY SpecIndInv, <1>2, PTL

\* Late events are late for an event that is itself in order.
THEOREM AnomaliesExplained == Spec => []AnomalyExplained
BY SpecIndInv, PTL DEF IndInv
=============================================================================
