------------------------------- MODULE History -------------------------------
(***************************************************************************)
(* Effective-dated history: customer360/history.py, and its two callers,     *)
(* the consent versions of privacy/activation_policy.py and the customer      *)
(* history endpoint of api/main.py.  A build reads the stored events and the  *)
(* identity map once and folds the changes of each customer, oldest first,    *)
(* into windows; events arrive late and customers are merged between builds.  *)
(*                                                                         *)
(* An entity is a (tenant_id, canonical_customer_id) pair.  The windows are   *)
(* ordered by instant, the consent in force by the text of the instant.       *)
(* Left out: attributes, reasons.                                            *)
(***************************************************************************)
EXTENDS EventTime, Sequences, FiniteSets

CONSTANTS
  Records,      \* source records (of subscriptions, or of marketing engagement)
  Entities,     \* customers
  Feed,         \* the events the source may send
  MaxEvents,    \* bound: events stored
  States,       \* values of the field whose history is kept
  NoId          \* owner of a record the identity map does not have

Open == 0       \* valid_to of a version that has not ended

Event == [record : Records, at : Nat \ {0}, id : Nat,
          state : States \cup {"no_payload"}, deleted : BOOLEAN]

ASSUME FeedAssumption == Feed \subseteq Event
ASSUME BoundAssumption == MaxEvents \in Nat
ASSUME NoIdAssumption == NoId \notin Entities

VARIABLES
  view,      \* which of the two callers builds: "consent" or "subscription"
  stored,    \* events of the raw store
  owner,     \* identity map: record -> customer
  building,  \* a build is under way
  rows,      \* the changes this build read, per customer
  todo,      \* those of them not folded yet
  versions,  \* what this build has made of the others
  basis,     \* the changes the last finished build read
  published  \* its result

vars == <<view, stored, owner, building, rows, todo, versions, basis, published>>

RowStates == States \cup {"unknown", "deleted"}
Row == [at : Nat \ {0}, id : Nat, state : RowStates, deleted : BOOLEAN]
Version == [from : Nat, to : Nat, current : BOOLEAN, source : Nat,
            state : RowStates, deleted : BOOLEAN]

-----------------------------------------------------------------------------
(* The order the changes of one customer are folded in: instant, event id. *)
Precedes(a, b) == a.at < b.at \/ (a.at = b.at /\ a.id < b.id)

\* The first of the changes R, and the last.
Oldest(R) == {a \in R : \A b \in R : a = b \/ Precedes(a, b)}
Newest(R) == {a \in R : \A b \in R : a = b \/ Precedes(b, a)}

\* The row a caller makes of an event.  An event without payload is no
\* change for the consent versions, and "unknown" for the endpoint.
RowOf(c) ==
  [at |-> c.at, id |-> c.id, deleted |-> c.deleted,
   state |-> IF c.deleted THEN "deleted"
             ELSE IF c.state = "no_payload" THEN "unknown" ELSE c.state]

ConsentRows(S, e, own) ==
  {RowOf(c) : c \in {d \in S : own[d.record] = e /\ d.state # "no_payload"}}

SubscriptionRows(S, e, own) ==
  {RowOf(c) : c \in {d \in S : own[d.record] = e}}

RowsOf(e) ==
  IF view = "consent" THEN ConsentRows(stored, e, owner)
                      ELSE SubscriptionRows(stored, e, owner)

\* build_consent_history: the last event by text and id wins, and a delete
\* keeps the payload it deleted, so it leaves the consent as it was.
TextPrecedes(a, b) ==
  TextRank(a.at) < TextRank(b.at) \/ (a.at = b.at /\ a.id < b.id)

LatestConsent(S, e, own) ==
  LET R == {d \in S : own[d.record] = e /\ d.state # "no_payload"}
  IN {c.state : c \in {d \in R : \A f \in R : f = d \/ TextPrecedes(f, d)}}

-----------------------------------------------------------------------------
(* build_scd2_history, one row.                                             *)
Candidate(c) ==
  [from |-> c.at, to |-> Open, current |-> ~c.deleted, source |-> c.id,
   state |-> c.state, deleted |-> c.deleted]

Closed(v, at) == [v EXCEPT !.to = at, !.current = FALSE]

Extend_KeepFirst(vs, c) ==  \* mutant: of two changes of one instant the first stays
  CASE vs = << >> -> <<Candidate(c)>>
    [] vs # << >> /\ vs[Len(vs)].from = c.at -> vs
    [] OTHER -> Append([vs EXCEPT ![Len(vs)] = Closed(@, c.at)], Candidate(c))

Extend(vs, c) ==
  CASE vs = << >> -> <<Candidate(c)>>
    [] vs # << >> /\ vs[Len(vs)].from = c.at -> [vs EXCEPT ![Len(vs)] = Candidate(c)]
    [] OTHER -> Append([vs EXCEPT ![Len(vs)] = Closed(@, c.at)], Candidate(c))

\* point_in_time: the state at t, or none.
Covering(vs, t) ==
  {i \in DOMAIN vs : vs[i].from <= t /\ (vs[i].to = Open \/ t < vs[i].to)}

PointInTime_ShowsDeleted(vs, t) ==  \* mutant: a deletion answers like a state
  LET M == {vs[i] : i \in Covering(vs, t)}
      best == {v \in M : \A w \in M : w.from < v.from \/ (w.from = v.from /\ w.source <= v.source)}
  IN {v.state : v \in best}

PointInTime(vs, t) ==
  LET M == {vs[i] : i \in Covering(vs, t)}
      best == {v \in M : \A w \in M : w.from < v.from \/ (w.from = v.from /\ w.source <= v.source)}
  IN {v.state : v \in {w \in best : ~w.deleted}}

\* validate_scd2_invariants; the versions are in order already.
Errors(vs) ==
  {<<"invalid_window", vs[i].source>> :
     i \in {j \in DOMAIN vs : vs[j].to # Open /\ vs[j].from >= vs[j].to}}
  \cup {<<"multiple_current", 0>> :
     i \in {j \in DOMAIN vs : vs[j].current /\ \E k \in DOMAIN vs : k # j /\ vs[k].current}}
  \cup {<<"overlap", vs[i].source>> :
     i \in {j \in DOMAIN vs : j > 1 /\ (vs[j - 1].to = Open \/ vs[j - 1].to > vs[j].from)}}

-----------------------------------------------------------------------------
Init ==
  /\ view \in {"consent", "subscription"}
  /\ stored = {}
  /\ owner = [r \in Records |-> NoId]
  /\ building = FALSE
  /\ rows = [e \in Entities |-> {}]
  /\ todo = [e \in Entities |-> {}]
  /\ versions = [e \in Entities |-> << >>]
  /\ basis = [e \in Entities |-> {}]
  /\ published = [e \in Entities |-> << >>]

\* An event is stored, however old its effective time; ids are unique.
Arrive(c) ==
  /\ Cardinality(stored) < MaxEvents
  /\ \A d \in stored : d.id # c.id
  /\ stored' = stored \cup {c}
  /\ UNCHANGED <<view, owner, building, rows, todo, versions, basis, published>>

\* A run of the resolver or a stewardship decision gives a record another owner.
Remap(r, e) ==
  /\ owner' = [owner EXCEPT ![r] = e]
  /\ UNCHANGED <<view, stored, building, rows, todo, versions, basis, published>>

\* A caller reads the events and the map.
Begin ==
  /\ ~building
  /\ building' = TRUE
  /\ rows' = [e \in Entities |-> RowsOf(e)]
  /\ todo' = rows'
  /\ versions' = [e \in Entities |-> << >>]
  /\ UNCHANGED <<view, stored, owner, basis, published>>

Fold_AnyOrder(e) ==  \* mutant: rows are folded as read, not sorted
  /\ building
  /\ \E c \in todo[e] :
       /\ versions' = [versions EXCEPT ![e] = Extend(@, c)]
       /\ todo' = [todo EXCEPT ![e] = @ \ {c}]
  /\ UNCHANGED <<view, stored, owner, building, rows, basis, published>>

Fold(e) ==
  /\ building
  /\ \E c \in Oldest(todo[e]) :
       /\ versions' = [versions EXCEPT ![e] = Extend(@, c)]
       /\ todo' = [todo EXCEPT ![e] = @ \ {c}]
  /\ UNCHANGED <<view, stored, owner, building, rows, basis, published>>

Finish ==
  /\ building
  /\ \A e \in Entities : todo[e] = {}
  /\ building' = FALSE
  /\ published' = versions
  /\ basis' = rows
  /\ UNCHANGED <<view, stored, owner, rows, todo, versions>>

Next ==
  \/ \E c \in Feed : Arrive(c)
  \/ \E r \in Records, e \in Entities \cup {NoId} : Remap(r, e)
  \/ Begin
  \/ \E e \in Entities : Fold(e)
  \/ Finish

Spec == Init /\ [][Next]_vars

-----------------------------------------------------------------------------
(* Properties.                                                             *)

TypeOK ==
  /\ view \in {"consent", "subscription"}
  /\ stored \subseteq Event
  /\ owner \in [Records -> Entities \cup {NoId}]
  /\ building \in BOOLEAN
  /\ rows \in [Entities -> SUBSET Row]
  /\ todo \in [Entities -> SUBSET Row]
  /\ versions \in [Entities -> Seq(Version)]
  /\ basis \in [Entities -> SUBSET Row]
  /\ published \in [Entities -> Seq(Version)]

\* A finished history passes the validator the code ships for it: no window
\* is empty or turned round, no two overlap, and at most one is current.
PublishedIsValid == \A e \in Entities : Errors(published[e]) = {}

\* The state at an instant, computed from the changes alone: the newest one
\* at or before it, unless that one is a deletion.
StateAsOf(R, t) ==
  {c.state : c \in {d \in Newest({r \in R : r.at <= t}) : ~d.deleted}}

\* The point-in-time answer over the windows is the one the changes give, at
\* every instant: no future state leaks, whatever the order of arrival.
AnswersAreExact ==
  \A e \in Entities : \A c \in basis[e] : \A t \in {c.at - 1, c.at, c.at + 1} :
    PointInTime(published[e], t) = StateAsOf(basis[e], t)

\* A later build changes the answer for an instant only if the changes up to
\* that instant changed: late events and merges rewrite nothing before them.
PastStands ==
  [][\A e \in Entities : \A c \in basis[e] :
       {r \in basis[e] : r.at <= c.at} = {r \in basis'[e] : r.at <= c.at}
         => PointInTime(published'[e], c.at) = PointInTime(published[e], c.at)]_vars

\* While nothing has changed since the build, the consent the activation run
\* uses is the state of the last version, unless that version is a deletion
\* or changes within one second differ in whether they have a fraction.
ConsentAgrees ==
  view = "consent" =>
    \A e \in Entities :
      LET vs == published[e]
      IN vs # << >> /\ basis[e] = RowsOf(e) /\ ~vs[Len(vs)].deleted /\ ~SplitSecond(basis[e])
           => LatestConsent(stored, e, owner) = {vs[Len(vs)].state}
=============================================================================
