---------------------------- MODULE HistoryProofs ----------------------------
(***************************************************************************)
(* Proofs about History, for any set of records, customers and events.       *)
(* The windows of a customer are good for the changes folded so far; folding  *)
(* the next change keeps them good; a good list of windows passes the         *)
(* validator and answers every instant as the changes do.                     *)
(*                                                                         *)
(* The last section is about Capture, which brings the events that histories *)
(* are made of: for any table, log and number of crashes of the connector.   *)
(***************************************************************************)
EXTENDS History, Capture, FiniteSetTheorems, SequenceTheorems,
        NaturalsInduction, WellFoundedInduction, TLAPS

\* Windows in order of their start, none of them empty.
Ordered(vs) == \A i, j \in DOMAIN vs : i < j => vs[i].from < vs[j].from

\* Each window ends where the next one starts; only the last may be current.
Chained(vs) ==
  \A i \in DOMAIN vs :
    IF i = Len(vs) THEN vs[i].to = Open
    ELSE vs[i].to = vs[i + 1].from /\ ~vs[i].current

\* v stands for the change r, the newest of R at its instant.
StandsFor(v, r, R) ==
  /\ r \in R
  /\ v.from = r.at /\ v.source = r.id /\ v.state = r.state /\ v.deleted = r.deleted
  /\ \A q \in R : q.at = r.at => q.id <= r.id

Sourced(vs, R) == \A i \in DOMAIN vs : \E r \in R : StandsFor(vs[i], r, R)
Listed(vs, R) == \A r \in R : \E i \in DOMAIN vs : vs[i].from = r.at
Covers(vs) ==
  \A t \in Nat : (\E i \in DOMAIN vs : vs[i].from <= t) => \E i \in DOMAIN vs : i \in Covering(vs, t)

Good(vs, R) ==
  /\ Ordered(vs)
  /\ Chained(vs)
  /\ Sourced(vs, R)
  /\ Listed(vs, R)
  /\ Covers(vs)

\* Ids are unique among the changes of one customer.
Distinct(R) == \A a, b \in R : a.id = b.id => a = b

-----------------------------------------------------------------------------
(* Lists of versions.                                                      *)

\* Ending a window changes its end, and nothing else of what it says.
LEMMA ClosedFields ==
  ASSUME NEW v \in Version, NEW at \in Nat
  PROVE  /\ Closed(v, at) \in Version
         /\ Closed(v, at).to = at /\ Closed(v, at).current = FALSE
         /\ Closed(v, at).from = v.from /\ Closed(v, at).source = v.source
         /\ Closed(v, at).state = v.state /\ Closed(v, at).deleted = v.deleted
BY DEF Closed, Version

\* Folding the first change makes one window.
LEMMA FirstWindow ==
  ASSUME NEW c \in Row
  PROVE  /\ Extend(<< >>, c) \in Seq(Version)
         /\ Good(Extend(<< >>, c), {c})
<1> DEFINE w == <<Candidate(c)>>
<1>1. Extend(<< >>, c) = w
  BY DEF Extend
<1>2. Candidate(c) \in Version
  BY DEF Candidate, Version, Row, Open
<1>3. w \in Seq(Version) /\ Len(w) = 1 /\ DOMAIN w = {1} /\ w[1] = Candidate(c)
  BY <1>2
<1>4. Ordered(w) /\ Chained(w)
  BY <1>3 DEF Ordered, Chained, Candidate
<1>5. StandsFor(w[1], c, {c})
  BY <1>3 DEF StandsFor, Candidate, Row
<1>6. Sourced(w, {c}) /\ Listed(w, {c})
  BY <1>3, <1>5 DEF Sourced, Listed, Candidate
<1>7. Covers(w)
  BY <1>3 DEF Covers, Covering, Candidate
<1> QED
  BY <1>1, <1>3, <1>4, <1>6, <1>7 DEF Good

\* A change of the instant of the last window takes that window's place.
LEMMA ReplaceWindow ==
  ASSUME NEW vs \in Seq(Version), NEW R \in SUBSET Row, NEW c \in Row,
         Good(vs, R), vs # << >>, vs[Len(vs)].from = c.at,
         \A r \in R : Precedes(r, c)
  PROVE  /\ Extend(vs, c) \in Seq(Version)
         /\ Good(Extend(vs, c), R \cup {c})
<1> DEFINE n == Len(vs)
           w == [vs EXCEPT ![n] = Candidate(c)]
           S == R \cup {c}
<1>1. /\ n \in Nat /\ n > 0 /\ DOMAIN vs = 1..n /\ n \in 1..n
      /\ \A i \in 1..n : vs[i] \in Version
  OBVIOUS
<1>a. vs[n].from = c.at /\ vs[n].to = Open
  BY <1>1 DEF Good, Chained
<1>0. \A i, j \in 1..n : i < j => vs[i].from < vs[j].from
  BY <1>1 DEF Good, Ordered
<1>2. Extend(vs, c) = w
  BY DEF Extend
<1>3. Candidate(c) \in Version
  BY DEF Candidate, Version, Row, Open
<1>4. /\ w \in Seq(Version) /\ Len(w) = n /\ DOMAIN w = 1..n
      /\ w[n] = Candidate(c) /\ \A i \in 1..n : i # n => w[i] = vs[i]
  BY <1>1, <1>3
<1> HIDE DEF n, w
<1>5. \A i \in 1..n : w[i].from = vs[i].from /\ w[i].to = vs[i].to
  BY <1>1, <1>4, <1>a DEF Candidate
<1>6. Ordered(w)
  BY <1>1, <1>4, <1>5 DEF Ordered, Good
<1>7. Chained(w)
  BY <1>1, <1>4, <1>5 DEF Chained, Good
<1>8. Sourced(w, S)
  <2> SUFFICES ASSUME NEW i \in 1..n
               PROVE  \E r \in S : StandsFor(w[i], r, S)
    BY <1>4 DEF Sourced
  <2>1. CASE i = n
    <3>1. \A q \in S : q.at = c.at => q.id <= c.id
      BY DEF Precedes, Row
    <3> QED
      BY <2>1, <3>1, <1>4 DEF StandsFor, Candidate
  <2>2. CASE i # n
    <3>1. PICK r \in R : StandsFor(vs[i], r, R)
      BY <1>1 DEF Good, Sourced
    <3>2. vs[i].from < vs[n].from
      BY <1>0, <1>1, <2>2
    <3>3. r.at # c.at
      BY <3>1, <3>2, <1>1 DEF StandsFor, Row, Version
    <3> QED
      BY <2>2, <3>1, <3>3, <1>4 DEF StandsFor
  <2> QED
    BY <2>1, <2>2
<1>9. Listed(w, S)
  BY <1>1, <1>4, <1>5 DEF Listed, Good
<1>10. Covers(w)
  <2>1. \A t \in Nat : (\E i \in 1..n : vs[i].from <= t)
          => \E i \in 1..n : vs[i].from <= t /\ (vs[i].to = Open \/ t < vs[i].to)
    BY <1>1 DEF Good, Covers, Covering
  <2> SUFFICES ASSUME NEW t \in Nat, NEW k \in 1..n, w[k].from <= t
               PROVE  \E i \in 1..n : w[i].from <= t /\ (w[i].to = Open \/ t < w[i].to)
    BY <1>4 DEF Covers, Covering
  <2>2. PICK i \in 1..n : vs[i].from <= t /\ (vs[i].to = Open \/ t < vs[i].to)
    BY <2>1, <1>5
  <2> QED
    BY <2>2, <1>5
<1> QED
  BY <1>2, <1>4, <1>6, <1>7, <1>8, <1>9, <1>10 DEF Good

\* A change of a later instant ends the last window and opens one.
LEMMA AppendWindow ==
  ASSUME NEW vs \in Seq(Version), NEW R \in SUBSET Row, NEW c \in Row,
         Good(vs, R), vs # << >>, vs[Len(vs)].from # c.at,
         \A r \in R : Precedes(r, c)
  PROVE  /\ Extend(vs, c) \in Seq(Version)
         /\ Good(Extend(vs, c), R \cup {c})
<1> DEFINE n == Len(vs)
           u == [vs EXCEPT ![n] = Closed(@, c.at)]
           w == Append(u, Candidate(c))
           S == R \cup {c}
<1>1. /\ n \in Nat /\ n > 0 /\ DOMAIN vs = 1..n /\ n \in 1..n
      /\ \A i \in 1..n : vs[i] \in Version
  OBVIOUS
<1>0. \A i, j \in 1..n : i < j => vs[i].from < vs[j].from
  BY <1>1 DEF Good, Ordered
<1>2. Extend(vs, c) = w
  BY DEF Extend
<1>3. Candidate(c) \in Version
  BY DEF Candidate, Version, Row, Open
<1>4. Closed(vs[n], c.at) \in Version
  <2>1. vs[n] \in Version /\ c.at \in Nat
    BY <1>1 DEF Row
  <2> QED
    BY <2>1, ClosedFields
<1>5. /\ u \in Seq(Version) /\ Len(u) = n
      /\ u[n] = Closed(vs[n], c.at) /\ \A i \in 1..n : i # n => u[i] = vs[i]
  BY <1>1, <1>4
<1>6. /\ w \in Seq(Version) /\ Len(w) = n + 1 /\ DOMAIN w = 1..(n + 1)
      /\ w[n + 1] = Candidate(c) /\ \A i \in 1..n : w[i] = u[i]
  <2> HIDE DEF n, u
  <2> QED
    BY <1>1, <1>3, <1>5, AppendProperties
<1> HIDE DEF n, u, w
<1>b. c.at \in Nat
  BY DEF Row
<1>c. /\ Closed(vs[n], c.at).to = c.at /\ Closed(vs[n], c.at).current = FALSE
      /\ Closed(vs[n], c.at).from = vs[n].from /\ Closed(vs[n], c.at).source = vs[n].source
      /\ Closed(vs[n], c.at).state = vs[n].state /\ Closed(vs[n], c.at).deleted = vs[n].deleted
  <2>1. vs[n] \in Version
    BY <1>1
  <2> QED
    BY <2>1, <1>b, ClosedFields
<1>7. \A i \in 1..n : /\ w[i].from = vs[i].from /\ w[i].source = vs[i].source
                      /\ w[i].state = vs[i].state /\ w[i].deleted = vs[i].deleted
                      /\ i # n => w[i].to = vs[i].to /\ w[i].current = vs[i].current
  <2> SUFFICES ASSUME NEW i \in 1..n
               PROVE  /\ w[i].from = vs[i].from /\ w[i].source = vs[i].source
                      /\ w[i].state = vs[i].state /\ w[i].deleted = vs[i].deleted
                      /\ i # n => w[i].to = vs[i].to /\ w[i].current = vs[i].current
    OBVIOUS
  <2>1. CASE i = n
    <3>1. w[i] = Closed(vs[n], c.at)
      BY <2>1, <1>5, <1>6
    <3> QED
      BY <2>1, <3>1, <1>c
  <2>2. CASE i # n
    BY <2>2, <1>5, <1>6
  <2> QED
    BY <2>1, <2>2
<1>8. w[n].to = c.at /\ ~w[n].current /\ w[n + 1].from = c.at /\ w[n + 1].to = Open
  <2>1. w[n] = Closed(vs[n], c.at) /\ w[n + 1] = Candidate(c)
    BY <1>1, <1>5, <1>6
  <2>2. w[n].to = c.at /\ w[n].current = FALSE
    BY <2>1, <1>c
  <2>3. w[n + 1].from = c.at /\ w[n + 1].to = Open
    BY <2>1 DEF Candidate
  <2> QED
    BY <2>2, <2>3
\* Every window starts at the instant of a change before c.
<1>9. \A i \in 1..n : vs[i].from \in Nat /\ vs[i].from < c.at
  <2> SUFFICES ASSUME NEW i \in 1..n PROVE vs[i].from \in Nat /\ vs[i].from < c.at
    OBVIOUS
  <2>1. PICK r \in R : StandsFor(vs[n], r, R)
    BY <1>1 DEF Good, Sourced
  <2>2. vs[n].from < c.at
    BY <2>1, <1>1 DEF StandsFor, Precedes, Row
  <2>3. vs[i] \in Version /\ vs[n] \in Version
    BY <1>1
  <2>4. i # n => vs[i].from < vs[n].from
    BY <1>0, <1>1
  <2>5. vs[i].from \in Nat /\ vs[n].from \in Nat
    BY <2>3 DEF Version
  <2> QED
    BY <2>2, <2>4, <2>5, <1>b
<1>10. Ordered(w)
  BY <1>1, <1>6, <1>7, <1>8, <1>9 DEF Ordered, Good
<1>11. Chained(w)
  <2> SUFFICES ASSUME NEW i \in 1..(n + 1)
               PROVE  IF i = n + 1 THEN w[i].to = Open
                      ELSE w[i].to = w[i + 1].from /\ ~w[i].current
    BY <1>6 DEF Chained
  <2>1. CASE i = n + 1
    BY <2>1, <1>8
  <2>2. CASE i = n
    BY <2>2, <1>8, <1>1
  <2>3. CASE i < n
    <3>1. i \in 1..n /\ i + 1 \in 1..n /\ i # n
      BY <2>3, <1>1
    <3>2. vs[i].to = vs[i + 1].from /\ ~vs[i].current
      BY <3>1, <1>1 DEF Good, Chained
    <3>3. w[i + 1].from = vs[i + 1].from /\ w[i].to = vs[i].to /\ w[i].current = vs[i].current
      BY <3>1, <1>7
    <3>4. i # n + 1
      BY <2>3, <1>1
    <3> QED
      BY <3>2, <3>3, <3>4
  <2> QED
    BY <2>1, <2>2, <2>3, <1>1
<1>12. Sourced(w, S)
  <2> SUFFICES ASSUME NEW i \in 1..(n + 1)
               PROVE  \E r \in S : StandsFor(w[i], r, S)
    BY <1>6 DEF Sourced
  <2>1. CASE i = n + 1
    <3>1. \A q \in S : q.at = c.at => q.id <= c.id
      BY DEF Precedes, Row
    <3> QED
      BY <2>1, <3>1, <1>6 DEF StandsFor, Candidate
  <2>2. CASE i # n + 1
    <3>1. i \in 1..n
      BY <2>2, <1>1
    <3>2. PICK r \in R : StandsFor(vs[i], r, R)
      BY <3>1, <1>1 DEF Good, Sourced
    <3>3. r.at < c.at
      BY <3>1, <3>2, <1>9 DEF StandsFor
    <3>4. \A q \in S : q.at = r.at => q.id <= r.id
      BY <3>2, <3>3 DEF StandsFor, Row
    <3> QED
      BY <3>1, <3>2, <3>4, <1>7 DEF StandsFor
  <2> QED
    BY <2>1, <2>2
<1>13. Listed(w, S)
  <2> SUFFICES ASSUME NEW r \in S
               PROVE  \E i \in 1..(n + 1) : w[i].from = r.at
    BY <1>6 DEF Listed
  <2>1. CASE r = c
    BY <2>1, <1>8, <1>1
  <2>2. CASE r \in R
    <3>1. PICK i \in 1..n : vs[i].from = r.at
      BY <2>2, <1>1 DEF Good, Listed
    <3> QED
      BY <3>1, <1>7, <1>1
  <2> QED
    BY <2>1, <2>2
<1>14. Covers(w)
  <2> SUFFICES ASSUME NEW t \in Nat, NEW k \in 1..(n + 1), w[k].from <= t
               PROVE  \E i \in 1..(n + 1) : w[i].from <= t /\ (w[i].to = Open \/ t < w[i].to)
    BY <1>6 DEF Covers, Covering
  <2>0. c.at \in Nat
    BY DEF Row
  <2>1. CASE c.at <= t
    BY <2>1, <1>8, <1>1
  <2>2. CASE t < c.at
    <3>1. k \in 1..n /\ vs[k].from <= t
      BY <2>2, <2>0, <1>7, <1>8, <1>1
    <3>2. PICK i \in 1..n : vs[i].from <= t /\ (vs[i].to = Open \/ t < vs[i].to)
      BY <3>1, <1>1 DEF Good, Covers, Covering
    <3>3. CASE i = n
      BY <3>2, <3>3, <2>2, <1>7, <1>8, <1>1
    <3>4. CASE i # n
      BY <3>2, <3>4, <1>7, <1>1
    <3> QED
      BY <3>3, <3>4
  <2> QED
    BY <2>0, <2>1, <2>2
<1> QED
  BY <1>2, <1>6, <1>10, <1>11, <1>12, <1>13, <1>14 DEF Good

LEMMA ExtendGood ==
  ASSUME NEW vs \in Seq(Version), NEW R \in SUBSET Row, NEW c \in Row,
         Good(vs, R), \A r \in R : Precedes(r, c)
  PROVE  /\ Extend(vs, c) \in Seq(Version)
         /\ Good(Extend(vs, c), R \cup {c})
<1>1. CASE vs = << >>
  <2>1. R = {}
    BY <1>1 DEF Good, Listed
  <2> QED
    BY <1>1, <2>1, FirstWindow
<1>2. CASE vs # << >> /\ vs[Len(vs)].from = c.at
  BY <1>2, ReplaceWindow
<1>3. CASE vs # << >> /\ vs[Len(vs)].from # c.at
  BY <1>3, AppendWindow
<1> QED
  BY <1>1, <1>2, <1>3
-----------------------------------------------------------------------------
(* What a good list of windows says.                                        *)

\* The validator of the code finds nothing wrong with it.
LEMMA GoodHasNoErrors ==
  ASSUME NEW vs \in Seq(Version), NEW R \in SUBSET Row, Good(vs, R)
  PROVE  Errors(vs) = {}
<1> DEFINE n == Len(vs)
<1>1. /\ n \in Nat /\ DOMAIN vs = 1..n
      /\ \A i \in 1..n : vs[i].from \in Nat /\ vs[i].to \in Nat
  <2>1. n \in Nat /\ DOMAIN vs = 1..n /\ \A i \in 1..n : vs[i] \in Version
    OBVIOUS
  <2> HIDE DEF n
  <2> QED
    BY <2>1 DEF Version
<1>2. \A i \in 1..n : IF i = n THEN vs[i].to = Open
                      ELSE vs[i].to = vs[i + 1].from /\ ~vs[i].current
  BY <1>1 DEF Good, Chained
<1>3. \A i, j \in 1..n : i < j => vs[i].from < vs[j].from
  BY <1>1 DEF Good, Ordered
<1>4. \A i \in 1..n : vs[i].from > 0
  BY <1>1 DEF Good, Sourced, StandsFor, Row
<1> HIDE DEF n
<1>5. \A j \in 1..n : ~(vs[j].to # Open /\ vs[j].from >= vs[j].to)
  <2> SUFFICES ASSUME NEW j \in 1..n, vs[j].to # Open PROVE vs[j].from < vs[j].to
    BY <1>1
  <2>1. j # n /\ vs[j].to = vs[j + 1].from
    BY <1>2
  <2>2. j + 1 \in 1..n /\ j < j + 1
    BY <1>1, <2>1
  <2>3. vs[j].from < vs[j + 1].from
    BY <1>3, <2>2
  <2> QED
    BY <2>1, <2>3
<1>6. \A j, k \in 1..n : vs[j].current /\ vs[k].current => j = k
  BY <1>1, <1>2
<1>7. \A j \in 1..n : j > 1 => vs[j - 1].to = vs[j].from
  <2> SUFFICES ASSUME NEW j \in 1..n, j > 1 PROVE vs[j - 1].to = vs[j].from
    OBVIOUS
  <2>1. j - 1 \in 1..n /\ j - 1 # n /\ (j - 1) + 1 = j
    BY <1>1
  <2> QED
    BY <2>1, <1>2
<1>8. \A j \in 1..n : ~(j > 1 /\ (vs[j - 1].to = Open \/ vs[j - 1].to > vs[j].from))
  <2> SUFFICES ASSUME NEW j \in 1..n, j > 1
               PROVE  ~(vs[j - 1].to = Open \/ vs[j - 1].to > vs[j].from)
    OBVIOUS
  <2>1. vs[j - 1].to = vs[j].from /\ vs[j].from > 0 /\ vs[j].from \in Nat
    BY <1>1, <1>4, <1>7
  <2> QED
    BY <2>1 DEF Open
<1> QED
  BY <1>1, <1>5, <1>6, <1>8 DEF Errors

\* It answers every instant as the changes do.
LEMMA GoodAnswers ==
  ASSUME NEW vs \in Seq(Version), NEW R \in SUBSET Row, NEW t \in Nat,
         Good(vs, R), Distinct(R)
  PROVE  PointInTime(vs, t) = StateAsOf(R, t)
<1> DEFINE n == Len(vs)
           C == {r \in R : r.at <= t}
           M == {vs[i] : i \in Covering(vs, t)}
           best == {v \in M : \A w \in M : w.from < v.from \/ (w.from = v.from /\ w.source <= v.source)}
<1>1. /\ n \in Nat /\ DOMAIN vs = 1..n
      /\ \A i \in 1..n : vs[i] \in Version /\ vs[i].from \in Nat /\ vs[i].to \in Nat /\ vs[i].source \in Nat
  <2>1. n \in Nat /\ DOMAIN vs = 1..n /\ \A i \in 1..n : vs[i] \in Version
    OBVIOUS
  <2> HIDE DEF n
  <2> QED
    BY <2>1 DEF Version
<1>2. \A i \in 1..n : IF i = n THEN vs[i].to = Open ELSE vs[i].to = vs[i + 1].from
  BY <1>1 DEF Good, Chained
<1>3. \A i, j \in 1..n : i < j => vs[i].from < vs[j].from
  BY <1>1 DEF Good, Ordered
<1>4. \A r \in R : r.at \in Nat /\ r.id \in Nat
  BY DEF Row
<1>5. PointInTime(vs, t) = {v.state : v \in {w \in best : ~w.deleted}}
  BY DEF PointInTime
<1>6. StateAsOf(R, t) = {c.state : c \in {d \in Newest(C) : ~d.deleted}}
  BY DEF StateAsOf
<1>7. CASE \A r \in R : r.at > t
  <2>1. C = {}
    BY <1>4, <1>7
  <2>2. \A i \in 1..n : vs[i].from > t
    BY <1>1, <1>7 DEF Good, Sourced, StandsFor
  <2>3. Covering(vs, t) = {}
    BY <1>1, <2>2 DEF Covering
  <2>4. best = {}
    BY <2>3
  <2>5. Newest(C) = {}
    BY <2>1 DEF Newest
  <2> QED
    BY <1>5, <1>6, <2>4, <2>5
<1>8. CASE \E r \in R : r.at <= t
  <2>1. \E i \in 1..n : vs[i].from <= t
    BY <1>1, <1>8 DEF Good, Listed
  <2>2. PICK i \in 1..n : i \in Covering(vs, t)
    BY <1>1, <2>1 DEF Good, Covers
  <2>3. vs[i].from <= t /\ (vs[i].to = Open \/ t < vs[i].to)
    BY <2>2 DEF Covering
  <2>4. \A r \in R : r.at > 0
    BY DEF Row
  <2>5. \A j \in 1..n : vs[j].from > 0
    BY <1>1, <2>4 DEF Good, Sourced, StandsFor
  \* Windows after it start later than t, and it is the only one over t.
  <2>6. \A j \in 1..n : j > i => vs[j].from > t
    <3> SUFFICES ASSUME NEW j \in 1..n, j > i PROVE vs[j].from > t
      OBVIOUS
    <3> HIDE DEF n
    <3>1. i # n /\ i + 1 \in 1..n
      BY <1>1
    <3>2. vs[i].to = vs[i + 1].from
      BY <3>1, <1>2
    <3>3. vs[i].to > t
      BY <3>1, <3>2, <2>3, <2>5 DEF Open
    <3>4. i + 1 = j \/ vs[i + 1].from < vs[j].from
      BY <3>1, <1>1, <1>3
    <3> QED
      BY <3>1, <3>2, <3>3, <3>4, <1>1
  <2>7. \A j \in Covering(vs, t) : j = i
    <3> SUFFICES ASSUME NEW j \in Covering(vs, t), j # i PROVE FALSE
      OBVIOUS
    <3> HIDE DEF n
    <3>1. j \in 1..n /\ vs[j].from <= t /\ (vs[j].to = Open \/ t < vs[j].to)
      BY <1>1 DEF Covering
    <3>2. j < i
      BY <3>1, <2>6, <1>1
    <3>3. j # n /\ j + 1 \in 1..n
      BY <3>1, <3>2, <1>1
    <3>4. vs[j].to = vs[j + 1].from /\ vs[j + 1].from > 0
      BY <3>1, <3>3, <1>2, <2>5
    <3>5. t < vs[j + 1].from
      BY <3>1, <3>4, <1>1 DEF Open
    <3>6. j + 1 = i \/ vs[j + 1].from < vs[i].from
      <4>1. i \in 1..n /\ (j + 1 = i \/ j + 1 < i)
        BY <3>1, <3>2, <1>1
      <4> QED
        BY <4>1, <3>3, <1>3
    <3> QED
      BY <3>3, <3>5, <3>6, <2>3, <1>1
  <2>8. M = {vs[i]}
    BY <2>2, <2>7
  <2>9. best = {vs[i]}
    <3>1. \A v \in M : v = vs[i]
      BY <2>8
    <3>2. vs[i] \in M
      BY <2>2
    <3>4. vs[i].source <= vs[i].source
      BY <1>1
    <3>3. vs[i] \in best
      BY <3>1, <3>2, <3>4
    <3> QED
      BY <3>1, <3>3
  <2>10. PICK r \in R : StandsFor(vs[i], r, R)
    BY <1>1 DEF Good, Sourced
  <2>11. r \in C
    BY <2>3, <2>10 DEF StandsFor
  <2>12. \A q \in C : q = r \/ Precedes(q, r)
    <3> SUFFICES ASSUME NEW q \in C, q # r PROVE Precedes(q, r)
      OBVIOUS
    <3> HIDE DEF n
    <3>1. PICK j \in 1..n : vs[j].from = q.at
      BY <1>1 DEF Good, Listed
    <3>2. ~(j > i)
      BY <3>1, <2>6, <1>4, <1>1
    <3>3. j = i \/ vs[j].from < vs[i].from
      BY <3>2, <1>1, <1>3
    <3>4. q.at = r.at \/ q.at < r.at
      BY <3>1, <3>3, <2>10 DEF StandsFor
    <3>5. q.at = r.at => q.id < r.id
      BY <2>10, <1>4 DEF StandsFor, Distinct
    <3> QED
      BY <3>4, <3>5 DEF Precedes
  <2>13. Newest(C) = {r}
    <3>1. r \in Newest(C)
      BY <2>11, <2>12 DEF Newest
    <3>2. \A q \in Newest(C) : q = r
      <4> SUFFICES ASSUME NEW q \in Newest(C), q # r PROVE FALSE
        OBVIOUS
      <4>1. q \in C /\ Precedes(r, q)
        BY <2>11 DEF Newest
      <4>2. Precedes(q, r)
        BY <4>1, <2>12
      <4> QED
        BY <4>1, <4>2, <1>4 DEF Precedes
    <3> QED
      BY <3>1, <3>2
  <2>14. vs[i].state = r.state /\ vs[i].deleted = r.deleted
    BY <2>10 DEF StandsFor
  <2> HIDE DEF best, C, n
  <2>15. CASE vs[i].deleted
    BY <1>5, <1>6, <2>9, <2>13, <2>14, <2>15
  <2>16. CASE ~vs[i].deleted
    BY <1>5, <1>6, <2>9, <2>13, <2>14, <2>16
  <2> QED
    BY <2>15, <2>16
<1> QED
  BY <1>1, <1>4, <1>7, <1>8

\* The last window stands for the newest change of all.
LEMMA LastIsNewest ==
  ASSUME NEW vs \in Seq(Version), NEW R \in SUBSET Row, Good(vs, R), Distinct(R), vs # << >>
  PROVE  \E q \in R : /\ vs[Len(vs)].state = q.state /\ vs[Len(vs)].deleted = q.deleted
                      /\ \A p \in R : p = q \/ Precedes(p, q)
<1> DEFINE n == Len(vs)
<1>1. /\ n \in Nat /\ n \in DOMAIN vs /\ DOMAIN vs = 1..n
      /\ \A i \in 1..n : vs[i] \in Version
  OBVIOUS
<1>2. \A i \in 1..n : vs[i].from \in Nat
  BY <1>1 DEF Version
<1> HIDE DEF n
<1>3. PICK q \in R : StandsFor(vs[n], q, R)
  BY <1>1 DEF Good, Sourced
<1>4. ASSUME NEW p \in R, p # q PROVE Precedes(p, q)
  <2>1. PICK i \in 1..n : vs[i].from = p.at
    BY <1>1 DEF Good, Listed
  <2>2. i = n \/ vs[i].from < vs[n].from
    <3>1. i = n \/ i < n
      BY <1>1
    <3> QED
      BY <3>1, <1>1 DEF Good, Ordered
  <2>3. p.at = q.at \/ p.at < q.at
    BY <2>1, <2>2, <1>3 DEF StandsFor
  <2>4. p.at = q.at => p.id <= q.id
    BY <1>3 DEF StandsFor
  <2>5. p.id # q.id /\ p.id \in Nat /\ q.id \in Nat
    BY <1>4 DEF Distinct, Row
  <2> QED
    BY <2>3, <2>4, <2>5 DEF Precedes
<1> QED
  BY <1>3, <1>4 DEF StandsFor, n

\* Instants of different seconds are ordered alike by their texts.
LEMMA TextOfSeconds ==
  ASSUME NEW a \in Nat, NEW b \in Nat, a < b, Second(a) # Second(b)
  PROVE  TextRank(a) < TextRank(b)
<1>1. a \div 2 < b \div 2 /\ a \div 2 \in Nat /\ b \div 2 \in Nat
  BY DEF Second
<1>2. a % 2 \in 0..1 /\ b % 2 \in 0..1
  OBVIOUS
<1> DEFINE u == a \div 2
           v == b \div 2
<1> HIDE DEF u, v
<1>3. 2 * u + (1 - (a % 2)) < 2 * v + (1 - (b % 2))
  BY <1>1, <1>2 DEF u, v
<1> QED
  BY <1>3 DEF TextRank, Second, u, v

-----------------------------------------------------------------------------
(* The machine.                                                            *)

LEMMA GoodEmpty == Good(<< >>, {})
BY DEF Good, Ordered, Chained, Sourced, Listed, Covers, Covering

\* The rows a build reads are rows, with one id each.
LEMMA RowsOfDistinct ==
  ASSUME TypeOK, \A a, b \in stored : a.id = b.id => a = b, NEW e \in Entities
  PROVE  RowsOf(e) \in SUBSET Row /\ Distinct(RowsOf(e))
<1>1. \A c \in stored : RowOf(c) \in Row /\ RowOf(c).id = c.id
  <2> SUFFICES ASSUME NEW c \in stored PROVE RowOf(c) \in Row /\ RowOf(c).id = c.id
    OBVIOUS
  <2>1. c \in Event
    BY DEF TypeOK
  <2>2. c.at \in Nat \ {0} /\ c.id \in Nat /\ c.state \in States \cup {"no_payload"} /\ c.deleted \in BOOLEAN
    BY <2>1 DEF Event
  <2>4. (IF c.deleted THEN "deleted" ELSE IF c.state = "no_payload" THEN "unknown" ELSE c.state) \in RowStates
    BY <2>2 DEF RowStates
  <2> QED
    BY <2>2, <2>4 DEF Row, RowOf
<1>2. \A q \in RowsOf(e) : \E c \in stored : q = RowOf(c)
  BY DEF RowsOf, ConsentRows, SubscriptionRows
<1> QED
  BY <1>1, <1>2 DEF Distinct

\* A build in progress: what it has folded is good, and older than the rest.
Build(e) ==
  /\ Distinct(rows[e])
  /\ todo[e] \subseteq rows[e]
  /\ Good(versions[e], rows[e] \ todo[e])
  /\ \A c \in rows[e] \ todo[e] : \A d \in todo[e] : Precedes(c, d)

IInv ==
  /\ TypeOK
  /\ \A a, b \in stored : a.id = b.id => a = b
  /\ \A e \in Entities : Build(e)
  /\ \A e \in Entities : Distinct(basis[e]) /\ Good(published[e], basis[e])

LEMMA InitIInv == Init => IInv
<1> SUFFICES ASSUME Init PROVE IInv
  OBVIOUS
<1>1. TypeOK
  <2>1. << >> \in Seq(Version)
    OBVIOUS
  <2>2. view \in {"consent", "subscription"} /\ stored \subseteq Event /\ building \in BOOLEAN
    BY DEF Init
  <2>3. owner \in [Records -> Entities \cup {NoId}]
    BY DEF Init
  <2>4. /\ rows \in [Entities -> SUBSET Row] /\ todo \in [Entities -> SUBSET Row]
        /\ basis \in [Entities -> SUBSET Row]
    BY DEF Init
  <2>5. versions \in [Entities -> Seq(Version)] /\ published \in [Entities -> Seq(Version)]
    BY <2>1 DEF Init
  <2> QED
    BY <2>2, <2>3, <2>4, <2>5 DEF TypeOK
<1>2. \A e \in Entities : Build(e)
  BY GoodEmpty DEF Init, Build, Distinct
<1>3. \A e \in Entities : Distinct(basis[e]) /\ Good(published[e], basis[e])
  BY GoodEmpty DEF Init, Distinct
<1> QED
  BY <1>1, <1>2, <1>3 DEF IInv, Init

LEMMA FoldIInv ==
  ASSUME IInv, NEW e \in Entities, Fold(e)
  PROVE  IInv'
<1>1. PICK c \in Oldest(todo[e]) :
        /\ versions' = [versions EXCEPT ![e] = Extend(@, c)]
        /\ todo' = [todo EXCEPT ![e] = @ \ {c}]
  BY DEF Fold
<1>2. /\ TypeOK /\ Build(e) /\ c \in todo[e] /\ c \in Row
      /\ rows[e] \in SUBSET Row /\ versions[e] \in Seq(Version)
  BY <1>1 DEF IInv, Build, Oldest, TypeOK
<1>3. /\ Extend(versions[e], c) \in Seq(Version)
      /\ Good(Extend(versions[e], c), (rows[e] \ todo[e]) \cup {c})
  <2>1. rows[e] \ todo[e] \in SUBSET Row
    BY <1>2
  <2>2. \A r \in rows[e] \ todo[e] : Precedes(r, c)
    BY <1>2 DEF Build
  <2> QED
    BY <1>2, <2>1, <2>2, ExtendGood DEF Build
<1>4. /\ todo'[e] = todo[e] \ {c} /\ versions'[e] = Extend(versions[e], c)
      /\ \A f \in Entities : f # e => todo'[f] = todo[f] /\ versions'[f] = versions[f]
  BY <1>1, <1>2 DEF TypeOK
<1>5. TypeOK'
  BY <1>1, <1>2, <1>3 DEF TypeOK, Fold
<1>6. \A f \in Entities : Build(f)'
  <2> SUFFICES ASSUME NEW f \in Entities PROVE Build(f)'
    OBVIOUS
  <2>1. rows' = rows
    BY DEF Fold
  <2>2. CASE f # e
    BY <2>1, <2>2, <1>4 DEF IInv, Build
  <2>3. CASE f = e
    <3>1. rows[e] \ todo'[e] = (rows[e] \ todo[e]) \cup {c}
      BY <1>2, <1>4 DEF Build
    <3>2. \A d \in todo'[e] : Precedes(c, d)
      BY <1>1, <1>4 DEF Oldest
    <3> QED
      BY <2>1, <2>3, <3>1, <3>2, <1>2, <1>3, <1>4 DEF Build
  <2> QED
    BY <2>2, <2>3
<1> QED
  BY <1>5, <1>6 DEF IInv, Fold

LEMMA BeginIInv ==
  ASSUME IInv, Begin
  PROVE  IInv'
<1>1. \A e \in Entities : RowsOf(e) \in SUBSET Row /\ Distinct(RowsOf(e))
  BY RowsOfDistinct DEF IInv
<1>2. \A e \in Entities : rows'[e] = RowsOf(e) /\ todo'[e] = rows'[e] /\ versions'[e] = << >>
  BY DEF Begin
<1>3. TypeOK'
  BY <1>1 DEF IInv, TypeOK, Begin
<1>4. \A e \in Entities : Build(e)'
  <2> SUFFICES ASSUME NEW e \in Entities PROVE Build(e)'
    OBVIOUS
  <2>1. rows'[e] \ todo'[e] = {}
    BY <1>2
  <2> QED
    BY <2>1, <1>1, <1>2, GoodEmpty DEF Build
<1> QED
  BY <1>3, <1>4 DEF IInv, Begin

LEMMA FinishIInv ==
  ASSUME IInv, Finish
  PROVE  IInv'
<1>1. TypeOK'
  BY DEF IInv, TypeOK, Finish
<1>2. \A e \in Entities : Build(e)'
  BY DEF IInv, Build, Finish
<1>3. \A e \in Entities : Distinct(basis'[e]) /\ Good(published'[e], basis'[e])
  <2> SUFFICES ASSUME NEW e \in Entities PROVE Distinct(rows[e]) /\ Good(versions[e], rows[e])
    BY DEF Finish
  <2>1. rows[e] \ todo[e] = rows[e]
    BY DEF Finish
  <2> QED
    BY <2>1 DEF IInv, Build
<1> QED
  BY <1>1, <1>2, <1>3 DEF IInv, Finish

LEMMA NextIInv == IInv /\ [Next]_vars => IInv'
<1> SUFFICES ASSUME IInv, [Next]_vars PROVE IInv'
  OBVIOUS
<1>1. ASSUME NEW c \in Feed, Arrive(c) PROVE IInv'
  <2>1. TypeOK'
    BY <1>1, FeedAssumption DEF IInv, TypeOK, Arrive
  <2>2. \A a, b \in stored' : a.id = b.id => a = b
    BY <1>1 DEF IInv, Arrive
  <2> QED
    BY <1>1, <2>1, <2>2 DEF IInv, Build, Arrive
<1>2. ASSUME NEW r \in Records, NEW e \in Entities \cup {NoId}, Remap(r, e) PROVE IInv'
  <2>1. TypeOK'
    BY <1>2 DEF IInv, TypeOK, Remap
  <2> QED
    BY <1>2, <2>1 DEF IInv, Build, Remap
<1>3. CASE Begin
  BY <1>3, BeginIInv
<1>4. ASSUME NEW e \in Entities, Fold(e) PROVE IInv'
  BY <1>4, FoldIInv
<1>5. CASE Finish
  BY <1>5, FinishIInv
<1>6. CASE UNCHANGED vars
  BY <1>6 DEF IInv, TypeOK, Build, RowsOf, vars
<1> QED
  BY <1>1, <1>2, <1>3, <1>4, <1>5, <1>6 DEF Next

LEMMA SpecIInv == Spec => []IInv
BY InitIInv, NextIInv, PTL DEF Spec

-----------------------------------------------------------------------------

\* The variables keep their types.
THEOREM HistoryTyped == Spec => []TypeOK
<1>1. IInv => TypeOK
  BY DEF IInv
<1> QED
  BY <1>1, SpecIInv, PTL

\* Whatever arrives in whatever order, every published history passes the
\* code's own validator (validate_scd2_invariants).
THEOREM HistoryIsValid == Spec => []PublishedIsValid
<1>1. IInv => PublishedIsValid
  BY GoodHasNoErrors DEF IInv, TypeOK, PublishedIsValid
<1> QED
  BY <1>1, SpecIInv, PTL

\* point_in_time over a published history is the state the changes give.
THEOREM HistoryIsExact == Spec => []AnswersAreExact
<1>1. IInv => AnswersAreExact
  <2> SUFFICES ASSUME IInv, NEW e \in Entities, NEW c \in basis[e],
                      NEW t \in {c.at - 1, c.at, c.at + 1}
               PROVE  PointInTime(published[e], t) = StateAsOf(basis[e], t)
    BY DEF AnswersAreExact
  <2>1. /\ published[e] \in Seq(Version) /\ basis[e] \in SUBSET Row
        /\ Good(published[e], basis[e]) /\ Distinct(basis[e])
    BY DEF IInv, TypeOK
  <2>2. t \in Nat
    BY <2>1 DEF Row
  <2> QED
    BY <2>1, <2>2, GoodAnswers
<1> QED
  BY <1>1, SpecIInv, PTL

\* A rebuild keeps every answer whose changes it read unchanged.
THEOREM PastIsStable == Spec => PastStands
<1>1. IInv /\ IInv' /\ [Next]_vars =>
        [\A e \in Entities : \A c \in basis[e] :
           {r \in basis[e] : r.at <= c.at} = {r \in basis'[e] : r.at <= c.at}
             => PointInTime(published'[e], c.at) = PointInTime(published[e], c.at)]_vars
  <2> SUFFICES ASSUME IInv, IInv', NEW e \in Entities, NEW c \in basis[e],
                      {r \in basis[e] : r.at <= c.at} = {r \in basis'[e] : r.at <= c.at}
               PROVE  PointInTime(published'[e], c.at) = PointInTime(published[e], c.at)
    OBVIOUS
  <2>1. c.at \in Nat
    BY DEF IInv, TypeOK, Row
  <2>2. PointInTime(published[e], c.at) = StateAsOf(basis[e], c.at)
    BY <2>1, GoodAnswers DEF IInv, TypeOK
  <2>3. PointInTime(published'[e], c.at) = StateAsOf(basis'[e], c.at)
    BY <2>1, GoodAnswers DEF IInv, TypeOK
  <2>4. StateAsOf(basis'[e], c.at) = StateAsOf(basis[e], c.at)
    BY DEF StateAsOf
  <2> QED
    BY <2>2, <2>3, <2>4
<1> QED
  BY <1>1, SpecIInv, PTL DEF Spec, PastStands

\* The consent the activation run uses is the state its history ends with, while
\* the build is up to date and the texts of its instants are in their order.
THEOREM ConsentsAgree == Spec => []ConsentAgrees
<1>1. IInv => ConsentAgrees
  <2> SUFFICES ASSUME IInv, view = "consent", NEW e \in Entities,
                      published[e] # << >>, basis[e] = RowsOf(e),
                      ~published[e][Len(published[e])].deleted, ~SplitSecond(basis[e])
               PROVE  LatestConsent(stored, e, owner) = {published[e][Len(published[e])].state}
    BY DEF ConsentAgrees
  <2> DEFINE D == {d \in stored : owner[d.record] = e /\ d.state # "no_payload"}
             last == published[e][Len(published[e])]
             Wins(c) == \A f \in D : f = c \/ TextPrecedes(f, c)
  <2>1. basis[e] = {RowOf(c) : c \in D}
    BY DEF RowsOf, ConsentRows
  <2>2. /\ published[e] \in Seq(Version) /\ basis[e] \in SUBSET Row
        /\ Good(published[e], basis[e]) /\ Distinct(basis[e])
    BY DEF IInv, TypeOK
  <2>3. PICK q \in basis[e] : /\ last.state = q.state /\ last.deleted = q.deleted
                              /\ \A p \in basis[e] : p = q \/ Precedes(p, q)
    BY <2>2, LastIsNewest
  <2>4. PICK c \in D : q = RowOf(c)
    BY <2>1
  <2>5. \A d \in D : /\ d \in stored /\ d.at \in Nat /\ d.id \in Nat /\ d.state # "no_payload"
                     /\ RowOf(d).at = d.at /\ RowOf(d).id = d.id /\ RowOf(d).deleted = d.deleted
    BY DEF IInv, TypeOK, Event, RowOf
  <2>6. c.state = last.state
    BY <2>3, <2>4, <2>5 DEF RowOf
  <2>7. \A d \in D : TextRank(d.at) \in Int
    <3>1. \A t \in Nat : TextRank(t) \in Int
      BY DEF TextRank, Second
    <3> QED
      BY <3>1, <2>5
  <2>8. Wins(c)
    <3> SUFFICES ASSUME NEW f \in D, f # c PROVE TextPrecedes(f, c)
      OBVIOUS
    <3>1. RowOf(f) \in basis[e] /\ f.id # c.id
      BY <2>1, <2>5 DEF IInv
    <3>2. Precedes(RowOf(f), q)
      BY <3>1, <2>3, <2>4, <2>5
    <3>3. CASE f.at = c.at
      BY <3>2, <3>3, <2>4, <2>5 DEF Precedes, TextPrecedes
    <3>4. CASE f.at # c.at
      <4>1. f.at < c.at
        BY <3>2, <3>4, <2>4, <2>5 DEF Precedes
      <4>2. Second(f.at) # Second(c.at)
        BY <3>1, <3>4, <2>4, <2>5 DEF SplitSecond
      <4> QED
        BY <4>1, <4>2, <2>5, TextOfSeconds DEF TextPrecedes
    <3> QED
      BY <3>3, <3>4
  <2>9. \A d \in D : Wins(d) => d = c
    <3> SUFFICES ASSUME NEW d \in D, Wins(d), d # c PROVE FALSE
      OBVIOUS
    <3>1. TextPrecedes(c, d) /\ TextPrecedes(d, c)
      BY <2>8
    <3> QED
      BY <3>1, <2>5, <2>7 DEF TextPrecedes
  <2>10. LatestConsent(stored, e, owner) = {d.state : d \in {x \in D : Wins(x)}}
    BY DEF LatestConsent
  <2> HIDE DEF Wins, D
  <2>11. {x \in D : Wins(x)} = {c}
    BY <2>8, <2>9
  <2> QED
    BY <2>6, <2>10, <2>11 DEF last
<1> QED
  BY <1>1, SpecIInv, PTL
-----------------------------------------------------------------------------
(* Capture.  The topic holds, in the order they were made, the changes after  *)
(* the snapshot up to the connector's position, some of them again; what has   *)
(* landed are its messages.                                                  *)

Message == [key : Keys, op : Ops \cup {"r"}, value : Nat, lsn : Nat, ts : Nat]
Change == [key : Keys, op : Ops, value : Nat]

CaptureTyped ==
  /\ wal \in Seq(Change)
  /\ connector \in {"new", "up", "down"}
  /\ position \in Nat /\ confirmed \in Nat /\ start \in Nat
  /\ start <= confirmed /\ confirmed <= position /\ position <= Len(wal)
  /\ topic \in Seq(Message)
  /\ consumed \in Nat /\ flushed \in Nat /\ consumed + flushed <= Len(topic)
  /\ clock \in Nat
  /\ restarts \in Nat /\ (connector = "down" => restarts > 0)
  /\ connector = "new" => topic = << >> /\ position = 0 /\ start = 0

\* n is the newest change of k among the first m.
NewestAt(k, m, n) ==
  /\ n \in 1..m /\ wal[n].key = k
  /\ \A i \in (n + 1)..m : wal[i].key # k

\* A message tells a change of the log, or a row as it was at the snapshot.
TellsChange(m) ==
  /\ m.lsn \in (start + 1)..Len(wal)
  /\ m.key = wal[m.lsn].key /\ m.op = wal[m.lsn].op /\ m.value = wal[m.lsn].value
TellsRow(m) ==
  /\ m.lsn = start
  /\ \E n \in 1..start :
       NewestAt(m.key, start, n) /\ wal[n].op # "d" /\ m.value = wal[n].value
MessagesAreTrue ==
  \A i \in DOMAIN topic :
    IF topic[i].op = "r" THEN TellsRow(topic[i]) ELSE TellsChange(topic[i])

\* Nothing is left out: no row at the snapshot, no change since.
TopicIsComplete ==
  /\ connector # "new" =>
       \A k \in Keys : \A n \in 1..start : NewestAt(k, start, n) /\ wal[n].op # "d" =>
         \E i \in DOMAIN topic : topic[i].key = k /\ topic[i].op = "r"
  /\ \A n \in (start + 1)..position : \E i \in DOMAIN topic : topic[i].lsn = n

LandedIsTopic ==
  /\ \A e \in landed : \E i \in DOMAIN topic : e = Envelope(topic[i])
  /\ \A i \in 1..(consumed + flushed) : Envelope(topic[i]) \in landed

CaptureInv ==
  /\ CaptureTyped
  /\ MessagesAreTrue
  /\ TopicIsComplete
  /\ LandedIsTopic

\* Of the first m changes, one is the newest of a record.
LEMMA NewestIsOne ==
  ASSUME CaptureTyped, NEW k \in Keys, NEW m \in Nat, NEW a, NEW b,
         NewestAt(k, m, a), NewestAt(k, m, b)
  PROVE  a = b
BY DEF NewestAt

\* The model's last change of a record is its newest in the log.
LEMMA LastChange ==
  ASSUME CaptureTyped, NEW k \in Keys, NEW n
  PROVE  n \in LastOf(ChangesOf(k)) <=> NewestAt(k, Len(wal), n)
<1>1. Len(wal) \in Nat /\ DOMAIN wal = 1..Len(wal)
  BY DEF CaptureTyped
<1>2. n \in LastOf(ChangesOf(k)) <=>
        n \in ChangesOf(k) /\ \A j \in ChangesOf(k) : j <= n
  BY DEF LastOf
<1>3. \A j : j \in ChangesOf(k) <=> j \in 1..Len(wal) /\ wal[j].key = k
  BY <1>1 DEF ChangesOf
<1> HIDE DEF ChangesOf
<1>4. ASSUME NewestAt(k, Len(wal), n), NEW j \in ChangesOf(k) PROVE j <= n
  BY <1>1, <1>3, <1>4 DEF NewestAt
<1>5. ASSUME n \in ChangesOf(k), \A j \in ChangesOf(k) : j <= n,
             NEW i \in (n + 1)..Len(wal)
      PROVE  wal[i].key # k
  BY <1>1, <1>3, <1>5
<1> QED
  BY <1>2, <1>3, <1>4, <1>5 DEF NewestAt

\* A record has a row when its newest change is no delete; it holds its value.
LEMMA RowIsNewest ==
  ASSUME CaptureTyped, NEW k \in Keys
  PROVE  /\ k \in Rows <=> \E n \in 1..Len(wal) : NewestAt(k, Len(wal), n) /\ wal[n].op # "d"
         /\ \A n : NewestAt(k, Len(wal), n) => ValueOf(k) = wal[n].value
<1>1. \A n : n \in LastOf(ChangesOf(k)) <=> NewestAt(k, Len(wal), n)
  BY LastChange
<1>2. k \in Rows <=> \E n \in 1..Len(wal) : NewestAt(k, Len(wal), n) /\ wal[n].op # "d"
  BY <1>1 DEF Rows, NewestAt
<1>3. ASSUME NEW n, NewestAt(k, Len(wal), n) PROVE ValueOf(k) = wal[n].value
  <2>1. Len(wal) \in Nat
    BY DEF CaptureTyped
  <2>2. LastOf(ChangesOf(k)) = {n}
    BY <1>1, <1>3, <2>1, NewestIsOne
  <2> QED
    BY <2>2 DEF ValueOf
<1> QED
  BY <1>2, <1>3

\* SetToSeq lists every element of a finite set.
LEMMA ListsAll ==
  ASSUME NEW S, IsFiniteSet(S)
  PROVE  /\ SetToSeq(S) \in Seq(S)
         /\ \A x \in S : \E i \in DOMAIN SetToSeq(S) : SetToSeq(S)[i] = x
<1> DEFINE n == Cardinality(S)
           f == SetToSeq(S)
<1>1. n \in Nat /\ ExistsBijection(1..n, S)
  BY FS_CardinalityType
<1>2. \E g \in [1..n -> S] : IsInjective(g)
  <2>1. PICK g : g \in Bijection(1..n, S)
    BY <1>1 DEF ExistsBijection
  <2> QED
    BY <2>1 DEF Bijection, Injection, IsInjective
<1>3. f \in [1..n -> S] /\ IsInjective(f)
  BY <1>2 DEF SetToSeq
<1>4. f \in Injection(1..n, S)
  BY <1>3 DEF Injection, IsInjective
<1>5. Cardinality(1..n) = n
  BY <1>1, FS_Interval
<1>6. f \in Surjection(1..n, S)
  BY <1>4, <1>5, FS_Injection
<1>7. \A x \in S : \E i \in 1..n : f[i] = x
  BY <1>6 DEF Surjection
<1> QED
  BY <1>1, <1>3, <1>7

\* The table has finitely many rows: each has a change in the log.
LEMMA RowsAreFinite ==
  ASSUME CaptureTyped
  PROVE  IsFiniteSet({SnapshotOf(k) : k \in Rows})
<1> DEFINE f == [n \in 1..Len(wal) |-> SnapshotOf(wal[n].key)]
           T == {f[n] : n \in 1..Len(wal)}
<1>1. Len(wal) \in Nat
  BY DEF CaptureTyped
<1>2. IsFiniteSet(1..Len(wal))
  BY <1>1, FS_Interval
<1>3. f \in Surjection(1..Len(wal), T)
  BY DEF Surjection
<1> HIDE DEF f
<1>4. IsFiniteSet(T)
  BY <1>2, <1>3, FS_Surjection
<1>5. {SnapshotOf(k) : k \in Rows} \subseteq T
  <2> SUFFICES ASSUME NEW k \in Rows PROVE SnapshotOf(k) \in T
    OBVIOUS
  <2>1. k \in Keys
    BY DEF Rows
  <2>2. PICK n \in 1..Len(wal) : NewestAt(k, Len(wal), n)
    BY <2>1, RowIsNewest
  <2>3. wal[n].key = k
    BY <2>2 DEF NewestAt
  <2> QED
    BY <2>3 DEF f
<1> QED
  BY <1>4, <1>5, FS_Subset

\* The snapshot tells each row of the table, and nothing else.
LEMMA SnapshotTells ==
  ASSUME CaptureTyped, Snapshot
  PROVE  /\ topic' \in Seq({SnapshotOf(k) : k \in Rows})
         /\ \A k \in Rows : \E i \in DOMAIN topic' : topic'[i] = SnapshotOf(k)
BY RowsAreFinite, ListsAll DEF Snapshot

\* Messages of one id are one event: the id fixes the value too.
LEMMA OneEventPerId ==
  ASSUME CaptureTyped, MessagesAreTrue, NEW i \in DOMAIN topic, NEW j \in DOMAIN topic,
         EventId(topic[i]) = EventId(topic[j])
  PROVE  Envelope(topic[i]) = Envelope(topic[j])
<1>1. /\ topic[i].key = topic[j].key /\ topic[i].op = topic[j].op
      /\ topic[i].lsn = topic[j].lsn /\ topic[i].ts = topic[j].ts
  BY DEF EventId
<1>2. topic[i].key \in Keys /\ start \in Nat
  <2>1. topic[i] \in Message /\ start \in Nat
    BY DEF CaptureTyped
  <2> QED
    BY <2>1 DEF Message
<1>3. topic[i].value = topic[j].value
  <2>1. CASE topic[i].op = "r"
    <3>1. TellsRow(topic[i]) /\ TellsRow(topic[j])
      BY <1>1, <2>1 DEF MessagesAreTrue
    <3>2. PICK a \in 1..start : NewestAt(topic[i].key, start, a) /\ topic[i].value = wal[a].value
      BY <3>1 DEF TellsRow
    <3>3. PICK b \in 1..start : NewestAt(topic[i].key, start, b) /\ topic[j].value = wal[b].value
      BY <1>1, <3>1 DEF TellsRow
    <3> QED
      BY <1>2, <3>2, <3>3, NewestIsOne
  <2>2. CASE topic[i].op # "r"
    BY <1>1, <2>2 DEF MessagesAreTrue, TellsChange
  <2> QED
    BY <2>1, <2>2
<1> QED
  BY <1>1, <1>3 DEF Envelope, EventId

\* Before the connector is first started there is nothing to tell.
LEMMA InitCapture == CaptureInit => CaptureInv
<1> SUFFICES ASSUME CaptureInit PROVE CaptureInv
  OBVIOUS
<1>1. /\ wal = << >> /\ topic = << >> /\ DOMAIN wal = {} /\ DOMAIN topic = {}
      /\ connector = "new" /\ landed = {} /\ position = 0 /\ start = 0 /\ consumed = 0 /\ flushed = 0
      /\ confirmed = 0 /\ clock = 0 /\ restarts = 0 /\ Len(wal) = 0 /\ Len(topic) = 0
  BY DEF CaptureInit
<1>2. CaptureTyped
  BY <1>1 DEF CaptureTyped
<1> QED
  BY <1>1, <1>2 DEF CaptureInv, MessagesAreTrue, TopicIsComplete, LandedIsTopic

\* A new change leaves what was the newest among earlier ones.
LEMMA CommitCapture ==
  ASSUME CaptureInv, NEW k \in Keys, NEW op \in Ops, Commit(k, op)
  PROVE  CaptureInv'
<1> USE DEF CaptureInv
<1> DEFINE new == [key |-> k, op |-> op, value |-> IF op = "d" THEN ValueOf(k) ELSE Len(wal) + 1]
<1>1. /\ wal' = Append(wal, new)
      /\ start' = start /\ connector' = connector /\ position' = position
      /\ confirmed' = confirmed /\ topic' = topic /\ consumed' = consumed /\ flushed' = flushed
      /\ landed' = landed /\ clock' = clock /\ restarts' = restarts
  BY DEF Commit
<1>2. new \in Change
  <2>1. CASE op = "d"
    <3>1. k \in Rows
      BY <2>1 DEF Commit
    <3>2. PICK n \in 1..Len(wal) : NewestAt(k, Len(wal), n)
      BY <3>1, RowIsNewest
    <3>3. ValueOf(k) = wal[n].value
      BY <3>2, RowIsNewest
    <3>4. wal[n] \in Change
      BY DEF CaptureTyped
    <3> QED
      BY <2>1, <3>3, <3>4 DEF Change
  <2>2. CASE op # "d"
    BY <2>2 DEF Change, CaptureTyped
  <2> QED
    BY <2>1, <2>2
<1> HIDE DEF new
<1>3. /\ Len(wal) \in Nat /\ Len(wal') = Len(wal) + 1 /\ wal' \in Seq(Change)
      /\ DOMAIN wal = 1..Len(wal) /\ DOMAIN wal' = 1..(Len(wal) + 1)
      /\ \A n \in 1..Len(wal) : wal'[n] = wal[n]
  BY <1>1, <1>2 DEF CaptureTyped
<1>4. start \in Nat /\ position \in Nat /\ start <= position /\ position <= Len(wal)
  BY DEF CaptureTyped
<1>5. CaptureTyped'
  BY <1>1, <1>3 DEF CaptureTyped
<1>6. \A c \in Keys : \A n : NewestAt(c, start, n)' <=> NewestAt(c, start, n)
  BY <1>1, <1>3, <1>4 DEF NewestAt
<1>7. \A i \in DOMAIN topic : topic[i].key \in Keys
  <2>1. \A i \in DOMAIN topic : topic[i] \in Message
    BY DEF CaptureTyped
  <2> QED
    BY <2>1 DEF Message
<1>8. MessagesAreTrue'
  <2> SUFFICES ASSUME NEW i \in DOMAIN topic
               PROVE  IF topic[i].op = "r" THEN TellsRow(topic[i])' ELSE TellsChange(topic[i])'
    BY <1>1 DEF MessagesAreTrue, TellsRow, TellsChange, NewestAt
  <2>1. CASE topic[i].op = "r"
    <3>1. TellsRow(topic[i])
      BY <2>1 DEF MessagesAreTrue
    <3> QED
      BY <1>1, <1>3, <1>4, <1>6, <1>7, <2>1, <3>1 DEF TellsRow
  <2>2. CASE topic[i].op # "r"
    <3>1. TellsChange(topic[i])
      BY <2>2 DEF MessagesAreTrue
    <3> QED
      BY <1>1, <1>3, <1>4, <2>2, <3>1 DEF TellsChange
  <2> QED
    BY <2>1, <2>2
<1>9. TopicIsComplete'
  <2>1. ASSUME connector' # "new", NEW c \in Keys, NEW n \in 1..start,
               NewestAt(c, start, n)', wal'[n].op # "d"
        PROVE  \E i \in DOMAIN topic : topic[i].key = c /\ topic[i].op = "r"
    <3>1. NewestAt(c, start, n) /\ wal[n].op # "d"
      BY <2>1, <1>3, <1>4, <1>6
    <3> QED
      BY <1>1, <2>1, <3>1 DEF TopicIsComplete
  <2>2. \A n \in (start + 1)..position : \E i \in DOMAIN topic : topic[i].lsn = n
    BY DEF TopicIsComplete
  <2> QED
    BY <1>1, <2>1, <2>2 DEF TopicIsComplete, NewestAt
<1>12. LandedIsTopic'
  BY <1>1 DEF LandedIsTopic, Envelope, EventId, Operation
<1> QED
  BY <1>5, <1>8, <1>9, <1>12

\* What is in the topic is what the connector found when it was first started.
LEMMA SnapshotCapture ==
  ASSUME CaptureInv, Snapshot
  PROVE  CaptureInv'
<1> USE DEF CaptureInv
<1>1. /\ connector = "new" /\ connector' = "up"
      /\ position' = Len(wal) /\ confirmed' = Len(wal) /\ start' = Len(wal)
      /\ wal' = wal /\ consumed' = consumed /\ flushed' = flushed /\ landed' = landed
      /\ clock' = clock /\ restarts' = restarts
  BY DEF Snapshot
<1>2. topic = << >> /\ DOMAIN topic = {} /\ Len(topic) = 0 /\ consumed = 0 /\ flushed = 0 /\ landed = {}
  <2>1. topic = << >>
    BY <1>1 DEF CaptureTyped
  <2>2. DOMAIN topic = {} /\ Len(topic) = 0
    BY <2>1
  <2> QED
    BY <2>1, <2>2 DEF CaptureTyped, LandedIsTopic
<1>3. Len(wal) \in Nat /\ clock \in Nat
  BY DEF CaptureTyped
<1>4. /\ topic' \in Seq({SnapshotOf(k) : k \in Rows})
      /\ \A k \in Rows : \E i \in DOMAIN topic' : topic'[i] = SnapshotOf(k)
  BY SnapshotTells
<1>5. ASSUME NEW k \in Rows
      PROVE  /\ k \in Keys /\ SnapshotOf(k) \in Message
             /\ \E n \in 1..Len(wal) : /\ NewestAt(k, Len(wal), n) /\ wal[n].op # "d"
                                       /\ SnapshotOf(k).value = wal[n].value
  <2>1. k \in Keys
    BY DEF Rows
  <2>2. PICK n \in 1..Len(wal) : NewestAt(k, Len(wal), n) /\ wal[n].op # "d"
    BY <2>1, RowIsNewest
  <2>3. ValueOf(k) = wal[n].value
    BY <2>1, <2>2, RowIsNewest
  <2>4. wal[n] \in Change
    BY DEF CaptureTyped
  <2>5. ValueOf(k) \in Nat
    BY <2>3, <2>4 DEF Change
  <2> QED
    BY <1>3, <2>1, <2>2, <2>3, <2>5 DEF SnapshotOf, Message
<1>6. ASSUME NEW i \in DOMAIN topic'
      PROVE  \E k \in Rows : topic'[i] = SnapshotOf(k)
  BY <1>4
<1>7. \A k \in Rows : /\ SnapshotOf(k).key = k /\ SnapshotOf(k).op = "r"
                      /\ SnapshotOf(k).lsn = Len(wal) /\ SnapshotOf(k).ts = clock
  BY DEF SnapshotOf
<1>8. topic' \in Seq(Message) /\ Len(topic') \in Nat /\ DOMAIN topic' = 1..Len(topic')
  <2>1. {SnapshotOf(k) : k \in Rows} \subseteq Message
    BY <1>5
  <2>2. topic' \in Seq(Message)
    BY <1>4, <2>1
  <2> QED
    BY <2>2
<1>9. CaptureTyped'
  BY <1>1, <1>2, <1>3, <1>8 DEF CaptureTyped
<1>10. MessagesAreTrue'
  <2> SUFFICES ASSUME NEW i \in DOMAIN topic'
               PROVE  topic'[i].op = "r" /\ TellsRow(topic[i])'
    BY DEF MessagesAreTrue
  <2>1. PICK k \in Rows : topic'[i] = SnapshotOf(k)
    BY <1>6
  <2> QED
    BY <1>1, <1>5, <1>7, <2>1 DEF TellsRow, NewestAt
<1>11. TopicIsComplete'
  <2>1. ASSUME NEW c \in Keys, NEW n \in 1..Len(wal), NewestAt(c, Len(wal), n),
               wal[n].op # "d"
        PROVE  \E i \in DOMAIN topic' : topic'[i].key = c /\ topic'[i].op = "r"
    <3>1. c \in Rows
      BY <2>1, RowIsNewest
    <3> QED
      BY <1>4, <1>7, <3>1
  <2> QED
    BY <1>1, <1>3, <2>1 DEF TopicIsComplete, NewestAt
<1>14. LandedIsTopic'
  BY <1>1, <1>2 DEF LandedIsTopic
<1> QED
  BY <1>9, <1>10, <1>11, <1>14

\* The next change goes to the end of the topic.
LEMMA EmitCapture ==
  ASSUME CaptureInv, Emit
  PROVE  CaptureInv'
<1> USE DEF CaptureInv
<1> DEFINE new == MessageOf(position + 1)
           last == Len(topic) + 1
<1>1. /\ connector = "up" /\ position < Len(wal) /\ position' = position + 1
      /\ topic' = Append(topic, new)
      /\ start' = start /\ wal' = wal /\ connector' = connector /\ confirmed' = confirmed
      /\ consumed' = consumed /\ flushed' = flushed /\ landed' = landed /\ clock' = clock /\ restarts' = restarts
  BY DEF Emit
<1>2. /\ position \in Nat /\ start \in Nat /\ start <= position /\ Len(wal) \in Nat
      /\ confirmed \in Nat /\ confirmed <= position
      /\ clock \in Nat /\ restarts \in Nat /\ consumed \in Nat /\ flushed \in Nat
      /\ consumed + flushed <= Len(topic) /\ Len(topic) \in Nat
      /\ DOMAIN topic = 1..Len(topic) /\ DOMAIN wal = 1..Len(wal)
  BY DEF CaptureTyped
<1>3. /\ new.key = wal[position + 1].key /\ new.op = wal[position + 1].op
      /\ new.value = wal[position + 1].value /\ new.lsn = position + 1 /\ new.ts = clock
  BY DEF MessageOf
<1>4. new \in Message /\ new.op # "r"
  <2>1. wal[position + 1] \in Change
    BY <1>1, <1>2 DEF CaptureTyped
  <2>2. "r" \notin Ops
    BY DEF Ops
  <2> QED
    BY <1>2, <2>1, <2>2 DEF Change, Message, MessageOf
<1> HIDE DEF new
<1>5. /\ Len(topic') = last /\ topic' \in Seq(Message) /\ DOMAIN topic' = 1..last
      /\ topic'[last] = new /\ \A i \in 1..Len(topic) : topic'[i] = topic[i]
  BY <1>1, <1>4 DEF CaptureTyped
<1>6. CaptureTyped'
  BY <1>1, <1>2, <1>5 DEF CaptureTyped
<1>7. MessagesAreTrue'
  <2> SUFFICES ASSUME NEW i \in DOMAIN topic'
               PROVE  IF topic'[i].op = "r" THEN TellsRow(topic'[i]) ELSE TellsChange(topic'[i])
    BY <1>1 DEF MessagesAreTrue, TellsRow, TellsChange, NewestAt
  <2>1. CASE i = last
    BY <1>1, <1>2, <1>3, <1>4, <1>5, <2>1 DEF TellsChange
  <2>2. CASE i \in 1..Len(topic)
    BY <1>2, <1>5, <2>2 DEF MessagesAreTrue
  <2> QED
    BY <1>2, <1>5, <2>1, <2>2
<1>8. TopicIsComplete'
  <2>1. ASSUME NEW c \in Keys, NEW n \in 1..start, NewestAt(c, start, n), wal[n].op # "d"
        PROVE  \E i \in DOMAIN topic' : topic'[i].key = c /\ topic'[i].op = "r"
    <3>1. PICK i \in DOMAIN topic : topic[i].key = c /\ topic[i].op = "r"
      BY <1>1, <2>1 DEF TopicIsComplete
    <3> QED
      BY <1>2, <1>5, <3>1
  <2>2. ASSUME NEW n \in (start + 1)..(position + 1)
        PROVE  \E i \in DOMAIN topic' : topic'[i].lsn = n
    <3>1. CASE n = position + 1
      BY <1>2, <1>3, <1>5, <3>1
    <3>2. CASE n # position + 1
      <4>1. n \in (start + 1)..position
        BY <1>2, <3>2
      <4>2. PICK i \in DOMAIN topic : topic[i].lsn = n
        BY <4>1 DEF TopicIsComplete
      <4>3. i \in DOMAIN topic' /\ topic'[i].lsn = n
        BY <1>2, <1>5, <4>2
      <4> QED
        BY <4>3
    <3> QED
      BY <3>1, <3>2
  <2> QED
    BY <1>1, <2>1, <2>2 DEF TopicIsComplete, NewestAt
<1>11. LandedIsTopic'
  <2>1. \A e \in landed : \E i \in DOMAIN topic' : e = Envelope(topic'[i])
    BY <1>2, <1>5 DEF LandedIsTopic
  <2>2. \A i \in 1..(consumed + flushed) : Envelope(topic'[i]) \in landed
    BY <1>2, <1>5 DEF LandedIsTopic
  <2> QED
    BY <1>1, <2>1, <2>2 DEF LandedIsTopic, Envelope, EventId
<1> QED
  BY <1>6, <1>7, <1>8, <1>11

\* A connector that comes back goes back to what it stored, and
\* emits what came after it again.
LEMMA RestartCapture ==
  ASSUME CaptureInv, Restart
  PROVE  CaptureInv'
<1> USE DEF CaptureInv
<1>1. /\ connector = "down" /\ connector' = "up" /\ position' = confirmed
      /\ start' = start /\ wal' = wal /\ confirmed' = confirmed /\ topic' = topic
      /\ consumed' = consumed /\ flushed' = flushed /\ landed' = landed /\ clock' = clock /\ restarts' = restarts
  BY DEF Restart
<1>2. /\ position \in Nat /\ confirmed \in Nat /\ start \in Nat /\ Len(wal) \in Nat
      /\ start <= confirmed /\ confirmed <= position /\ restarts \in Nat
  BY DEF CaptureTyped
<1>3. CaptureTyped'
  BY <1>1 DEF CaptureTyped
<1>4. MessagesAreTrue' /\ LandedIsTopic'
  BY <1>1 DEF MessagesAreTrue, TellsRow, TellsChange, NewestAt, LandedIsTopic, Envelope, EventId
<1>5. TopicIsComplete'
  <2>1. \A c \in Keys : \A n \in 1..start : NewestAt(c, start, n) /\ wal[n].op # "d" =>
          \E i \in DOMAIN topic : topic[i].key = c /\ topic[i].op = "r"
    BY <1>1 DEF TopicIsComplete
  <2>2. \A n \in (start + 1)..confirmed : \E i \in DOMAIN topic : topic[i].lsn = n
    BY <1>2 DEF TopicIsComplete
  <2> QED
    BY <1>1, <2>1, <2>2 DEF TopicIsComplete, NewestAt
<1> QED
  BY <1>3, <1>4, <1>5

\* A set of natural numbers that is not empty has a least element.
LEMMA LeastNatural ==
  ASSUME NEW S \in SUBSET Nat, S # {}
  PROVE  \E m \in S : \A n \in S : m <= n
<1>1. \E R : IsWellFoundedOn(R, Nat) /\ \A x, y \in Nat : y < x => <<y, x>> \in R
  <2>1. IsWellFoundedOn(OpToRel(<, Nat), Nat)
    BY NatLessThanWellFounded
  <2>2. \A x, y \in Nat : y < x => <<y, x>> \in OpToRel(<, Nat)
    BY DEF OpToRel
  <2> QED
    BY <2>1, <2>2
<1>2. PICK R : IsWellFoundedOn(R, Nat) /\ \A x, y \in Nat : y < x => <<y, x>> \in R
  BY <1>1
<1>3. \E x \in S : \A y \in S : ~(<<y, x>> \in R)
  BY <1>2, WFMin
<1>4. PICK x \in S : \A y \in S : ~(<<y, x>> \in R)
  BY <1>3
<1>5. \A y \in S : ~(y < x)
  BY <1>2, <1>4
<1>6. \A y \in S : x \in Nat /\ y \in Nat
  OBVIOUS
<1>7. \A y \in S : x <= y
  BY <1>5, <1>6
<1> QED
  BY <1>7

\* What a flush is about to store of its batch.
LEMMA BatchIsLanded ==
  ASSUME CaptureInv, NEW n \in 1..BatchSize, Land(n), NEW i \in Batch(n)
  PROVE  Envelope(topic[i]) \in landed'
<1> USE DEF CaptureInv
<1> DEFINE Same == {j \in Batch(n) : EventId(topic[j]) = EventId(topic[i])}
<1>1. /\ consumed \in Nat /\ n \in Nat /\ BatchSize \in Nat /\ Len(topic) \in Nat
      /\ DOMAIN topic = 1..Len(topic) /\ consumed + n <= Len(topic)
  BY CaptureAssumption DEF CaptureTyped, Land
<1>2. Batch(n) \subseteq DOMAIN topic /\ Batch(n) \subseteq Nat
  BY <1>1 DEF Batch
<1>3. \A m : Envelope(m).id = EventId(m)
  BY DEF Envelope
<1>4. CASE \E e \in landed : e.id = EventId(topic[i])
  <2>1. PICK e \in landed : e.id = EventId(topic[i])
    BY <1>4
  <2>2. PICK j \in DOMAIN topic : e = Envelope(topic[j])
    BY DEF LandedIsTopic
  <2>3. Envelope(topic[j]) = Envelope(topic[i])
    BY <1>2, <1>3, <2>1, <2>2, OneEventPerId
  <2> QED
    BY <2>2, <2>3 DEF Land
<1>5. CASE \A e \in landed : e.id # EventId(topic[i])
  <2>1. i \in Same /\ Same \subseteq Nat
    BY <1>2
  <2>2. PICK j \in Same : \A h \in Same : j <= h
    <3> HIDE DEF Same
    <3> QED
      BY <2>1, LeastNatural
  <2>3. \A h \in Batch(n) : h < j => EventId(topic[h]) # EventId(topic[j])
    <3> SUFFICES ASSUME NEW g \in Batch(n), g < j, EventId(topic[g]) = EventId(topic[j])
                 PROVE  FALSE
      OBVIOUS
    <3>1. g \in Same
      BY <2>2
    <3>2. j <= g /\ g \in Nat /\ j \in Nat
      BY <1>2, <2>2, <3>1
    <3> QED
      BY <3>2
  <2>4. Envelope(topic[j]) \in landed'
    BY <1>5, <2>2, <2>3 DEF Land
  <2>5. Envelope(topic[j]) = Envelope(topic[i])
    BY <1>2, <2>2, OneEventPerId
  <2> QED
    BY <2>4, <2>5
<1> QED
  BY <1>4, <1>5

\* A flush stores what the topic holds, and all of its batch.
LEMMA LandCapture ==
  ASSUME CaptureInv, NEW n \in 1..BatchSize, Land(n)
  PROVE  CaptureInv'
<1> USE DEF CaptureInv
<1>1. /\ flushed = 0 /\ flushed' = n /\ consumed + n <= Len(topic)
      /\ consumed' = consumed /\ landed \subseteq landed'
      /\ start' = start /\ wal' = wal /\ connector' = connector /\ position' = position
      /\ confirmed' = confirmed /\ topic' = topic /\ clock' = clock /\ restarts' = restarts
  BY DEF Land
<1>2. /\ consumed \in Nat /\ Len(topic) \in Nat /\ DOMAIN topic = 1..Len(topic)
      /\ n \in Nat
  BY CaptureAssumption DEF CaptureTyped
<1>3. CaptureTyped'
  BY <1>1, <1>2 DEF CaptureTyped
<1>4. MessagesAreTrue' /\ TopicIsComplete'
  BY <1>1 DEF MessagesAreTrue, TellsRow, TellsChange, NewestAt, TopicIsComplete
<1>5. \A e \in landed' : \E j \in DOMAIN topic : e = Envelope(topic[j])
  <2>1. Batch(n) \subseteq DOMAIN topic
    BY <1>1, <1>2 DEF Batch
  <2> QED
    BY <2>1 DEF Land, LandedIsTopic
<1>6. \A j \in 1..(consumed + n) : Envelope(topic[j]) \in landed'
  <2> SUFFICES ASSUME NEW j \in 1..(consumed + n) PROVE Envelope(topic[j]) \in landed'
    OBVIOUS
  <2>1. j \in Batch(n) \/ j \in 1..(consumed + flushed)
    BY <1>1, <1>2 DEF Batch
  <2>2. CASE j \in Batch(n)
    BY <2>2, BatchIsLanded
  <2>3. CASE j \in 1..(consumed + flushed)
    BY <1>1, <2>3 DEF LandedIsTopic
  <2> QED
    BY <2>1, <2>2, <2>3
<1>7. LandedIsTopic'
  BY <1>1, <1>5, <1>6 DEF LandedIsTopic, Envelope, EventId
<1> QED
  BY <1>3, <1>4, <1>7

\* An acknowledged batch has landed; one that is not is delivered again.
LEMMA AcknowledgeCapture ==
  ASSUME CaptureInv, Acknowledge \/ DieBeforeCommit
  PROVE  CaptureInv'
<1> USE DEF CaptureInv
<1>1. /\ flushed' = 0 /\ consumed' \in {consumed, consumed + flushed} /\ landed' = landed
      /\ start' = start /\ wal' = wal /\ connector' = connector /\ position' = position
      /\ confirmed' = confirmed /\ topic' = topic /\ clock' = clock /\ restarts' = restarts
  BY DEF Acknowledge, DieBeforeCommit
<1>2. consumed \in Nat /\ flushed \in Nat /\ Len(topic) \in Nat
  BY DEF CaptureTyped
<1>3. CaptureTyped'
  BY <1>1, <1>2 DEF CaptureTyped
<1>4. MessagesAreTrue' /\ TopicIsComplete'
  BY <1>1 DEF MessagesAreTrue, TellsRow, TellsChange, NewestAt, TopicIsComplete
<1>5. \A j \in 1..(consumed' + flushed') : j \in 1..(consumed + flushed)
  <2>1. CASE consumed' = consumed
    BY <1>1, <1>2, <2>1
  <2>2. CASE consumed' = consumed + flushed
    BY <1>1, <1>2, <2>2
  <2> QED
    BY <1>1, <2>1, <2>2
<1>6. LandedIsTopic'
  BY <1>1, <1>5 DEF LandedIsTopic, Envelope, EventId
<1> QED
  BY <1>3, <1>4, <1>6

\* Every step of the capture keeps the invariant.
LEMMA NextCapture ==
  ASSUME CaptureInv, [CaptureNext]_captureVars
  PROVE  CaptureInv'
<1> USE DEF CaptureInv
<1>1. CASE Tick
  <2>1. /\ clock' \in Instants /\ clock' > clock /\ start' = start /\ wal' = wal
        /\ connector' = connector /\ position' = position /\ confirmed' = confirmed
        /\ topic' = topic /\ consumed' = consumed /\ flushed' = flushed /\ landed' = landed /\ restarts' = restarts
    BY <1>1 DEF Tick
  <2>2. clock' \in Nat
    BY <2>1, CaptureAssumption
  <2>3. CaptureTyped'
    BY <2>1, <2>2 DEF CaptureTyped
  <2> QED
    BY <2>1, <2>3 DEF MessagesAreTrue, TellsRow, TellsChange, NewestAt, TopicIsComplete,
         LandedIsTopic, Envelope, EventId
<1>2. CASE StoreOffset
  <2>1. /\ confirmed' = position /\ start' = start /\ wal' = wal
        /\ connector' = connector /\ position' = position /\ clock' = clock
        /\ topic' = topic /\ consumed' = consumed /\ flushed' = flushed /\ landed' = landed /\ restarts' = restarts
    BY <1>2 DEF StoreOffset
  <2>2. CaptureTyped'
    BY <2>1 DEF CaptureTyped
  <2> QED
    BY <2>1, <2>2 DEF MessagesAreTrue, TellsRow, TellsChange, NewestAt, TopicIsComplete,
         LandedIsTopic, Envelope, EventId
<1>3. CASE Stop
  <2>1. /\ connector = "up" /\ connector' = "down" /\ restarts' = restarts + 1
        /\ confirmed' = confirmed /\ start' = start /\ wal' = wal
        /\ position' = position /\ clock' = clock
        /\ topic' = topic /\ consumed' = consumed /\ flushed' = flushed /\ landed' = landed
    BY <1>3 DEF Stop
  <2>2. restarts \in Nat
    BY DEF CaptureTyped
  <2>3. CaptureTyped'
    BY <2>1, <2>2 DEF CaptureTyped
  <2> QED
    BY <2>1, <2>3 DEF MessagesAreTrue, TellsRow, TellsChange, NewestAt, TopicIsComplete,
         LandedIsTopic, Envelope, EventId
<1>4. CASE UNCHANGED captureVars
  <2>1. /\ connector' = connector /\ restarts' = restarts
        /\ confirmed' = confirmed /\ start' = start /\ wal' = wal
        /\ position' = position /\ clock' = clock
        /\ topic' = topic /\ consumed' = consumed /\ flushed' = flushed /\ landed' = landed
    BY <1>4 DEF captureVars
  <2>2. CaptureTyped'
    BY <2>1 DEF CaptureTyped
  <2>3. MessagesAreTrue' /\ TopicIsComplete'
    BY <2>1 DEF MessagesAreTrue, TellsRow, TellsChange, NewestAt, TopicIsComplete
  <2>4. LandedIsTopic'
    BY <2>1 DEF LandedIsTopic, Envelope, EventId
  <2> QED
    BY <2>2, <2>3, <2>4
<1> HIDE DEF CaptureInv
<1>5. ASSUME NEW k \in Keys, NEW op \in Ops, Commit(k, op) PROVE CaptureInv'
  BY <1>5, CommitCapture
<1>6. ASSUME NEW n \in 1..BatchSize, Land(n) PROVE CaptureInv'
  BY <1>6, LandCapture
<1> QED
  BY <1>1, <1>2, <1>3, <1>4, <1>5, <1>6, SnapshotCapture, EmitCapture, RestartCapture,
     AcknowledgeCapture
  DEF CaptureNext

\* The invariant of the capture holds in every reachable state.
LEMMA SpecCapture == CaptureSpec => []CaptureInv
BY InitCapture, NextCapture, PTL DEF CaptureSpec

\* What the events of a record are, once everything has arrived: those of its
\* changes after the snapshot, all of them there, and of its row at the snapshot.
LEMMA EventsTell ==
  ASSUME CaptureInv, NEW k \in Keys, NEW e \in EventsOf(k)
  PROVE  /\ e.seq \in start..Len(wal) /\ e.at \in Nat
         /\ e.seq > start => /\ wal[e.seq].key = k /\ e.operation = Operation[wal[e.seq].op]
                             /\ e.payload = wal[e.seq].value
         /\ e.seq = start => /\ e.operation = "insert"
                             /\ \E n \in 1..start : /\ NewestAt(k, start, n) /\ wal[n].op # "d"
                                                    /\ e.payload = wal[n].value
<1> USE DEF CaptureInv
<1>1. e \in landed /\ e.key = k
  BY DEF EventsOf
<1>2. PICK i \in DOMAIN topic : e = Envelope(topic[i])
  BY <1>1 DEF LandedIsTopic
<1>3. /\ topic[i].key = k /\ e.seq = topic[i].lsn /\ e.at = topic[i].ts
      /\ e.payload = topic[i].value /\ e.operation = Operation[topic[i].op]
  BY <1>1, <1>2 DEF Envelope
<1>4. topic[i] \in Message /\ start \in Nat /\ Len(wal) \in Nat /\ start <= Len(wal)
  BY DEF CaptureTyped
<1>5. e.at \in Nat
  BY <1>3, <1>4 DEF Message
<1>6. CASE topic[i].op = "r"
  <2>1. TellsRow(topic[i])
    BY <1>6 DEF MessagesAreTrue
  <2>2. Operation["r"] = "insert"
    BY DEF Operation
  <2> QED
    BY <1>3, <1>4, <1>5, <1>6, <2>1, <2>2 DEF TellsRow
<1>7. CASE topic[i].op # "r"
  <2>1. TellsChange(topic[i])
    BY <1>7 DEF MessagesAreTrue
  <2> QED
    BY <1>3, <1>4, <1>5, <2>1 DEF TellsChange
<1> QED
  BY <1>6, <1>7

\* Once everything has arrived, no change since the snapshot and no row of it
\* is missing among the events of a record.
LEMMA EventsComplete ==
  ASSUME CaptureInv, CaughtUp, NEW k \in Keys
  PROVE  /\ \A n \in (start + 1)..Len(wal) : wal[n].key = k => \E e \in EventsOf(k) : e.seq = n
         /\ \A n \in 1..start : NewestAt(k, start, n) /\ wal[n].op # "d" =>
              \E e \in EventsOf(k) : e.seq = start
<1> USE DEF CaptureInv
<1>1. connector # "new" /\ position = Len(wal) /\ consumed = Len(topic)
  BY DEF CaughtUp
<1>2. start \in Nat /\ Len(wal) \in Nat /\ DOMAIN topic = 1..Len(topic)
  BY DEF CaptureTyped
<1>3. ASSUME NEW i \in DOMAIN topic, topic[i].key = k
      PROVE  Envelope(topic[i]) \in EventsOf(k) /\ Envelope(topic[i]).seq = topic[i].lsn
  <2>1. i \in 1..(consumed + flushed)
    BY <1>1, <1>2 DEF CaptureTyped
  <2> QED
    BY <1>3, <2>1 DEF LandedIsTopic, EventsOf, Envelope
<1>4. ASSUME NEW n \in (start + 1)..Len(wal), wal[n].key = k
      PROVE  \E e \in EventsOf(k) : e.seq = n
  <2>1. PICK i \in DOMAIN topic : topic[i].lsn = n
    BY <1>1 DEF TopicIsComplete
  <2>2. TellsChange(topic[i])
    BY <1>2, <2>1 DEF MessagesAreTrue, TellsRow
  <2> QED
    BY <1>3, <1>4, <2>1, <2>2 DEF TellsChange
<1>5. ASSUME NEW n \in 1..start, NewestAt(k, start, n), wal[n].op # "d"
      PROVE  \E e \in EventsOf(k) : e.seq = start
  <2>1. PICK i \in DOMAIN topic : topic[i].key = k /\ topic[i].op = "r"
    BY <1>1, <1>5 DEF TopicIsComplete
  <2>2. topic[i].lsn = start
    BY <2>1 DEF MessagesAreTrue, TellsRow
  <2> QED
    BY <1>3, <2>1, <2>2
<1> QED
  BY <1>4, <1>5

\* No crash of the connector loses a change, and no event that comes again
\* replaces a newer one: by log position, raw holds the source table.
THEOREM LatestIsTheSource == CaptureSpec => []LatestIsSource
<1>1. CaptureInv => LatestIsSource
  <2> SUFFICES ASSUME CaptureInv, CaughtUp, NEW k \in Keys
               PROVE  IF k \in Rows
                      THEN /\ Latest(k) # {}
                           /\ \A e \in Latest(k) : e.operation # "delete" /\ e.payload = ValueOf(k)
                      ELSE \A e \in Latest(k) : e.operation = "delete"
    BY DEF LatestIsSource
  <2>1. CaptureTyped /\ start \in Nat /\ Len(wal) \in Nat /\ start <= Len(wal)
    BY DEF CaptureInv, CaptureTyped
  <2>2. \A n \in 1..Len(wal) : wal[n].op \in Ops
    <3> SUFFICES ASSUME NEW n \in 1..Len(wal) PROVE wal[n].op \in Ops
      OBVIOUS
    <3>1. wal[n] \in Change
      BY <2>1 DEF CaptureTyped
    <3> QED
      BY <3>1 DEF Change
  <2>3. \A op \in Ops : Operation[op] = "delete" <=> op = "d"
    BY DEF Operation, Ops
  <2>4. \A e \in Latest(k) : e \in EventsOf(k) /\ \A f \in EventsOf(k) : f.seq <= e.seq
    BY DEF Latest
  <2>5. CASE k \in Rows
    <3>1. PICK n \in 1..Len(wal) : NewestAt(k, Len(wal), n) /\ wal[n].op # "d"
      BY <2>1, <2>5, RowIsNewest
    <3>2. ValueOf(k) = wal[n].value /\ wal[n].key = k
      BY <2>1, <3>1, RowIsNewest DEF NewestAt
    <3>3. CASE n > start
      <4>1. PICK g \in EventsOf(k) : g.seq = n
        BY <2>1, <3>2, <3>3, EventsComplete
      <4>2. \A e \in EventsOf(k) : e.seq <= n
        <5> SUFFICES ASSUME NEW e \in EventsOf(k), e.seq > n PROVE FALSE
          BY <2>1, EventsTell
        <5>1. e.seq \in (n + 1)..Len(wal) /\ wal[e.seq].key = k
          BY <2>1, <3>3, EventsTell
        <5> QED
          BY <3>1, <5>1 DEF NewestAt
      <4>3. g \in Latest(k)
        BY <4>1, <4>2 DEF Latest
      <4>4. ASSUME NEW e \in Latest(k)
            PROVE  e.operation # "delete" /\ e.payload = ValueOf(k)
        <5>1. e \in EventsOf(k) /\ e.seq = n
          BY <2>1, <2>4, <4>1, <4>2, <4>4, EventsTell
        <5>2. e.operation = Operation[wal[n].op] /\ e.payload = wal[n].value
          BY <3>3, <5>1, EventsTell
        <5> QED
          BY <2>2, <2>3, <3>1, <3>2, <5>2
      <4> QED
        BY <2>5, <4>3, <4>4
    <3>4. CASE n <= start
      <4>1. n \in 1..start /\ NewestAt(k, start, n)
        BY <2>1, <3>1, <3>4 DEF NewestAt
      <4>2. PICK g \in EventsOf(k) : g.seq = start
        BY <3>1, <4>1, EventsComplete
      <4>3. \A e \in EventsOf(k) : e.seq = start
        <5> SUFFICES ASSUME NEW e \in EventsOf(k), e.seq > start PROVE FALSE
          BY <2>1, EventsTell
        <5>1. e.seq \in (n + 1)..Len(wal) /\ wal[e.seq].key = k
          BY <2>1, <3>4, EventsTell
        <5> QED
          BY <3>1, <5>1 DEF NewestAt
      <4>4. g \in Latest(k)
        BY <2>1, <4>2, <4>3 DEF Latest
      <4>5. ASSUME NEW e \in Latest(k)
            PROVE  e.operation # "delete" /\ e.payload = ValueOf(k)
        <5>1. e \in EventsOf(k) /\ e.seq = start
          BY <2>4, <4>3, <4>5
        <5>2. PICK m \in 1..start : NewestAt(k, start, m) /\ e.payload = wal[m].value
          BY <5>1, EventsTell
        <5>3. m = n
          BY <2>1, <4>1, <5>2, NewestIsOne
        <5> QED
          BY <3>2, <5>1, <5>2, <5>3, EventsTell
      <4> QED
        BY <2>5, <4>4, <4>5
    <3> QED
      BY <2>1, <3>3, <3>4
  <2>6. ASSUME k \notin Rows, NEW e \in Latest(k), e.operation # "delete"
        PROVE  FALSE
    <3>1. e \in EventsOf(k) /\ e.seq \in start..Len(wal)
      BY <2>4, <2>6, EventsTell
    <3>2. ASSUME NEW j \in (e.seq + 1)..Len(wal), wal[j].key = k PROVE FALSE
      <4>1. j \in (start + 1)..Len(wal) /\ j > e.seq
        BY <2>1, <3>1, <3>2
      <4>2. PICK f \in EventsOf(k) : f.seq = j
        BY <3>2, <4>1, EventsComplete
      <4> QED
        BY <2>1, <2>4, <2>6, <3>1, <4>1, <4>2
    <3>3. CASE e.seq > start
      <4>1. wal[e.seq].key = k /\ e.operation = Operation[wal[e.seq].op]
        BY <3>1, <3>3, EventsTell
      <4>2. e.seq \in 1..Len(wal)
        BY <2>1, <3>1, <3>3
      <4>3. wal[e.seq].op # "d"
        BY <2>2, <2>3, <2>6, <4>1, <4>2
      <4>4. NewestAt(k, Len(wal), e.seq)
        BY <3>2, <4>1, <4>2 DEF NewestAt
      <4> QED
        BY <2>1, <2>6, <4>2, <4>3, <4>4, RowIsNewest
    <3>4. CASE e.seq = start
      <4>1. PICK n \in 1..start : NewestAt(k, start, n) /\ wal[n].op # "d"
        BY <3>1, <3>4, EventsTell
      <4>2. NewestAt(k, Len(wal), n)
        BY <2>1, <3>2, <3>4, <4>1 DEF NewestAt
      <4>3. n \in 1..Len(wal)
        BY <2>1
      <4> QED
        BY <2>1, <2>6, <4>1, <4>2, <4>3, RowIsNewest
    <3> QED
      BY <2>1, <3>1, <3>3, <3>4
  <2> QED
    BY <2>5, <2>6
<1> QED
  BY <1>1, SpecCapture, PTL
=============================================================================
