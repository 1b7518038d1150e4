------------------------------ MODULE MCHistory ------------------------------
(* Small instance: late and tied events; 2 and 3 are in one second.         *)
EXTENDS History

CONSTANTS r1, r2, A, B

Consents == {"in", "out"}

\* Ids 1 to 3: a change, then one that may tie with it, be empty or delete,
\* and one of another record, early or late.
Sent(r, ats, id, states, deletes) ==
  [record : {r}, at : ats, id : {id}, state : states, deleted : deletes]

SmallFeed ==
  Sent(r1, 1..3, 1, {"in"}, {FALSE})
    \cup Sent(r1, 1..2, 2, {"out"}, BOOLEAN)
    \cup Sent(r1, {2}, 2, {"no_payload"}, {FALSE})
    \cup Sent(r2, {1, 3}, 3, {"in", "out"}, {FALSE})
=============================================================================
