------------------------------ MODULE CdcLanding ------------------------------
(***************************************************************************)
(* What landing CDC events promises, whoever does it and however often it   *)
(* is restarted: the warehouse keeps what it stored, stores only what was   *)
(* delivered, and the acknowledged prefix of a partition only grows and     *)
(* holds nothing that was not stored first.                                 *)
(***************************************************************************)
EXTENDS Naturals, Sequences

CONSTANTS Partitions, Traffic, MaxLog

VARIABLES
  log,          \* the messages delivered on each partition
  acknowledged, \* how many messages of each partition will not be asked for again
  landed,       \* ids of the events stored
  quarantined   \* places of the malformed messages stored for repair

vars == <<log, acknowledged, landed, quarantined>>

Delivered == {x \in Partitions \X (1..MaxLog) : x[2] <= Len(log[x[1]])}
Form(x) == log[x[1]][x[2]].form
IdAt(x) == log[x[1]][x[2]].id

\* The message at place x is stored, as an event or as a rejection.
Stored(x, ids, places) ==
  \/ Form(x) = "event" /\ IdAt(x) \in ids
  \/ Form(x) = "malformed" /\ x \in places

Init ==
  /\ log = [p \in Partitions |-> << >>]
  /\ acknowledged = [p \in Partitions |-> 0]
  /\ landed = {}
  /\ quarantined = {}

Deliver(p, m) ==
  /\ Len(log[p]) < MaxLog
  /\ log' = [log EXCEPT ![p] = Append(@, m)]
  /\ UNCHANGED <<acknowledged, landed, quarantined>>

\* All of the messages X, each of them delivered, are stored at once.
Store(X) ==
  /\ landed' = landed \cup {IdAt(x) : x \in {y \in X : Form(y) = "event"}}
  /\ quarantined' = quarantined \cup {x \in X : Form(x) = "malformed"}
  /\ UNCHANGED <<log, acknowledged>>

\* A longer prefix is acknowledged; every message in it is stored.
Acknowledge ==
  /\ acknowledged' \in [Partitions -> 0..MaxLog]
  /\ \A p \in Partitions : acknowledged[p] <= acknowledged'[p]
  /\ \A p \in Partitions : \A o \in 1..acknowledged'[p] :
       <<p, o>> \in Delivered /\ Stored(<<p, o>>, landed, quarantined)
  /\ UNCHANGED <<log, landed, quarantined>>

Next ==
  \/ \E p \in Partitions, m \in Traffic : Deliver(p, m)
  \/ \E X \in SUBSET Delivered : Store(X)
  \/ Acknowledge

Spec == Init /\ [][Next]_vars
=============================================================================
