---------------------------- MODULE MCContractGate ----------------------------
(* Small instance: every contract of one field, over three values.           *)
EXTENDS ContractGate

CONSTANTS f, s1, s2, n, p1

TypesOfValues == [x \in {s1, s2, n} |-> IF x = n THEN {"number"} ELSE {"string"}]

FieldContracts ==
  [required : SUBSET {f}, nullable : SUBSET {f},
   types : [{f} -> {"string", "number", Untyped}],
   enums : [{f} -> {Unlisted, {}, {s1}, {s1, s2}}]] \cup {NoContract}

FieldPayloads == [{f} -> {s1, s2, n, Null, Missing}]
=============================================================================
