------------------------------ MODULE MCDelivery ------------------------------
(***************************************************************************)
(* An instance of Delivery for TLC: two customers of one tenant and one of  *)
(* another, two export files, and what the events may say: everybody known; *)
(* one customer merged away and the one alone in its tenant withheld; that  *)
(* one without an active record, which is in tenant U and withheld; and     *)
(* everybody withheld.                                                      *)
(***************************************************************************)
EXTENDS Delivery, TLC

CONSTANTS a1, a2, b1, A, B, U, churn_risk, campaign

TwoFiles == <<churn_risk, campaign>>
Refusals == (churn_risk :> {<<a2, A>>}) @@ (campaign :> {})
Everyone == (a1 :> A) @@ (a2 :> A) @@ (b1 :> B)
SomeWorlds ==
  { [known |-> Everyone, withheld |-> {}],
    [known |-> [Everyone EXCEPT ![a2] = Absent], withheld |-> {b1}],
    [known |-> [Everyone EXCEPT ![b1] = U], withheld |-> {b1}],
    [known |-> Everyone, withheld |-> {a1, a2, b1}] }
=============================================================================
