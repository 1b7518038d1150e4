------------------------------- MODULE MCResolver -------------------------------
(***************************************************************************)
(* Instances of Resolver for TLC.                                           *)
(***************************************************************************)
EXTENDS Resolver, TLC

CONSTANTS r1, r2, r3, t1, t2, account, email, device, ref

\* IDENTIFIER_WEIGHTS: external_account_id, email, device_id, order_customer_ref.
Weights == (account :> 1) @@ (email :> 2) @@ (device :> 3) @@ (ref :> 4)
ByWeight == [i \in Identifiers |-> Weights[i]]

\* Every population in which the records hold whatever identifiers.
Everything == [Records -> Evidence]
Together == {Records}
OneByOne == {{r} : r \in Records}

Symmetry == Permutations(Records) \cup Permutations(Tenants)
=============================================================================
