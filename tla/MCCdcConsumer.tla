----------------------------- MODULE MCCdcConsumer -----------------------------
(***************************************************************************)
(* Instances of CdcConsumer for TLC.                                        *)
(***************************************************************************)
EXTENDS CdcConsumer, TLC

CONSTANTS c1, c2, p1, p2, e1, e2, h1, h2

Event(e, h) == [form |-> "event", id |-> e, hash |-> h]
Malformed == [form |-> "malformed", id |-> e1, hash |-> h1]
Undecodable == [form |-> "undecodable", id |-> e1, hash |-> h1]

EventAndMalformed == {Event(e1, h1), Malformed}
\* Every form of message, and a second delivery of e1 under another event id with
\* the same event_hash.
AllForms == {Event(e1, h1), Event(e2, h1), Malformed, Undecodable}
SameHash == {Event(e1, h1), Event(e2, h1)}

Symmetry == Permutations(Consumers) \cup Permutations(Partitions)
=============================================================================
