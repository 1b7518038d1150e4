------------------------------ MODULE MCActivation ------------------------------
(***************************************************************************)
(* Instances of Activation for TLC: two marketing records of customers A   *)
(* and B, whom later evidence may merge into C.                             *)
(***************************************************************************)
EXTENDS Activation, TLC

CONSTANTS ra, rb, A, B, C

Apart == (ra :> A) @@ (rb :> B)
Merged == (ra :> C) @@ (rb :> C)
Alternating == {Apart, Merged}

PlainClass == [c \in Customers |-> "plain"]
\* B needs three attempts, A is rejected, C needs two.
MixedClass == (A :> "invalid") @@ (B :> "flaky") @@ (C :> "limited")
=============================================================================
