------------------------------- MODULE MCReplay -------------------------------
(* Small instance: an ingest, two replays over one path, a repair.           *)
EXTENDS Replay

CONSTANTS t1, t2, b1, b2, h1, p1, shared, own

AllJobs == 1..4
JobKind == <<"ingest", "replay", "replay", "dlq">>
JobPath == <<own, shared, shared, own>>
JobWanted ==
  <<[batches |-> {}, tables |-> {}], [batches |-> {b1}, tables |-> {}],
    [batches |-> {}, tables |-> {t2}], [batches |-> {}, tables |-> {}]>>
ResettingJobs == {3}
JobRuns == <<2, 1, 1, 2>>

\* A well-formed record with no hash or offset of its own.
Line(n, i, at, t, b) ==
  [line |-> n, id |-> i, at |-> at, table |-> t, batch |-> b, repaired |-> FALSE,
   hash |-> NoHash, place |-> NoPlace, version |-> "number", form |-> "ok"]
As(r, form) == [r EXCEPT !.form = form]
Versioned(r, v) == [r EXCEPT !.version = v]
Keyed(r, h, p) == [r EXCEPT !.hash = h, !.place = p]

SmallInputs ==
  { \* a late copy of an id, a record to repair
    {Line(1, 1, 2, t1, b1), Line(2, 1, 1, t1, b1), As(Line(3, 2, 1, t2, b1), "upsert"), Line(4, 3, 1, t2, b2)},
    \* a version that is not supported, one record to repair
    {Line(1, 1, 1, t1, b1), Versioned(Line(2, 2, 1, t1, b1), "other"), As(Line(3, 3, 1, t1, b1), "incomplete")},
    \* a hash given to two events, and an offset only the one that fails carries
    {Keyed(Line(1, 1, 1, t1, b1), h1, NoPlace), Keyed(Line(2, 2, 2, t2, b2), h1, p1), Keyed(Line(3, 3, 3, t2, b2), NoHash, p1)},
    \* a null batch alone, a version as text
    {Line(1, 1, 1, t1, NoBatch)},
    {Versioned(Line(1, 1, 1, t1, b1), "text"), As(Versioned(Line(2, 2, 1, t1, b1), "text"), "upsert")},
    \* groups that do not sort
    {Line(1, 1, 1, t2, b1), As(Line(2, 2, 1, t2, NoBatch), "no_batch")},
    {Line(1, 1, 1, t1, b1), Line(2, 2, 1, NoTable, b1)},
    \* a record without its time, a version that is no number
    {Line(1, 1, 1, t1, b1), As(Line(2, 2, 1, t1, b1), "no_time")},
    {Line(1, 1, 1, t1, b1), Versioned(Line(2, 2, 1, t2, b2), "words")}}
=============================================================================
