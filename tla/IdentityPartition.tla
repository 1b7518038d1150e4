--------------------------- MODULE IdentityPartition ---------------------------
(***************************************************************************)
(* What an identity graph promises, however it is represented: nodes fall   *)
(* into disjoint groups, all apart at first, and each link joins two of them.*)
(***************************************************************************)
CONSTANT Nodes

VARIABLE groups

Apart == {{n} : n \in Nodes}
GroupOf(n) == CHOOSE g \in groups : n \in g

Init == groups = Apart

Join(m, n) ==
  groups' = (groups \ {GroupOf(m), GroupOf(n)}) \cup {GroupOf(m) \cup GroupOf(n)}

\* A new resolution starts from nothing.
Forget == groups' = Apart

Next == Forget \/ \E m, n \in Nodes : Join(m, n)

Spec == Init /\ [][Next]_groups
=============================================================================
