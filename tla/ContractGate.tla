------------------------------ MODULE ContractGate ------------------------------
(***************************************************************************)
(* The payload contract of a source table over its life: the compatibility   *)
(* gate (contracts/contract_gate.py) that a new contract must pass, and the    *)
(* validation of payloads (ingestion/contracts.py) by processes that read the  *)
(* contract once.  Payloads that were stored come back: a replay validates     *)
(* them again.                                                              *)
(*                                                                         *)
(* The gate looks at one table at a time, so there is one.  A payload gives    *)
(* each field a value, Null, or nothing.  A type name the code does not know    *)
(* matches every value; Matches says so.  Putting the file of a candidate in    *)
(* place of the one in force is done by hand (external).                      *)
(***************************************************************************)
EXTENDS FiniteSets

CONSTANTS
  Fields, Values, Types,
  Matches,     \* value -> the types it has (_matches_type)
  Contracts,   \* the contracts that are written
  Payloads,    \* what sources send
  Processes,   \* loaders and consumers
  Null, Missing,
  Untyped,            \* a field without an entry in "types"
  NoList,             \* the list of a field without an entry in "enums" is {NoList}
  NoContract,         \* the table is not in the file
  Unread              \* a process that has not read the file

Cell == Values \cup {Null, Missing}
Unlisted == {NoList}
Contract == [required : SUBSET Fields, nullable : SUBSET Fields,
             types : [Fields -> Types \cup {Untyped}],
             enums : [Fields -> SUBSET Values \cup {Unlisted}]]

ASSUME GateAssumption ==
  /\ Matches \in [Values -> SUBSET Types]
  /\ Contracts \subseteq Contract \cup {NoContract}
  /\ Payloads \subseteq [Fields -> Cell]
  /\ Null # Missing /\ Null \notin Values /\ Missing \notin Values
  /\ Untyped \notin Types
  /\ NoList \notin Values
  /\ NoContract \notin Contract
  /\ Unread \notin Contract \cup {NoContract}

VARIABLES
  contract,  \* contracts/cdc_payload_contracts.json
  cached,    \* process -> the contract load_contracts keeps for its life
  stored,    \* payloads that were accepted
  tightened  \* <<field, value>>: what changes of the contract put an end to
             \* without a breaking finding

gateVars == <<contract, cached, stored, tightened>>

-----------------------------------------------------------------------------
(* compare_contracts, for a table that both contracts have.                 *)
Finding(change, compatibility, S) ==
  {[change |-> change, compatibility |-> compatibility, field |-> f] : f \in S}

Typed(c) == {f \in Fields : c.types[f] # Untyped}
Listed(c) == {f \in Fields : c.enums[f] # Unlisted}
ListOf(c, f) == IF f \in Listed(c) THEN c.enums[f] ELSE {}

RequiredFindings(c, d) ==
  Finding("removed_required_field", "breaking", c.required \ d.required)
    \cup Finding("added_required_field", "breaking", d.required \ c.required)

NullableFindings(c, d) ==
  Finding("added_nullable_field", "compatible", (d.nullable \ c.nullable) \ c.required)

TypeFindings_OnlyRequired(c, d) ==   \* mutant: optional fields may change their type
  Finding("type_changed", "breaking",
          {f \in Typed(c) \cap Typed(d) \cap c.required : d.types[f] # c.types[f]})
TypeFindings(c, d) ==
  Finding("removed_typed_field", "breaking", (Typed(c) \ Typed(d)) \cap c.required)
    \cup Finding("removed_typed_field", "review", (Typed(c) \ Typed(d)) \ c.required)
    \cup Finding("type_changed", "breaking",
                 {f \in Typed(c) \cap Typed(d) : d.types[f] # c.types[f]})
    \cup Finding("added_typed_field", "breaking", (Typed(d) \ Typed(c)) \cap d.required)
    \cup Finding("added_typed_field", "compatible", (Typed(d) \ Typed(c)) \ d.required)

\* Only fields that had a list are compared; a list that is gone is an empty one.
EnumFindings_Added(c, d) ==   \* mutant: the difference is taken the wrong way round
  Finding("removed_enum_value", "breaking",
          {f \in Listed(c) : ListOf(d, f) \ c.enums[f] # {}})
EnumFindings(c, d) ==
  Finding("removed_enum_value", "breaking",
          {f \in Listed(c) : c.enums[f] \ ListOf(d, f) # {}})
    \cup Finding("added_enum_value", "review",
                 {f \in Listed(c) : ListOf(d, f) \ c.enums[f] # {}})

Findings(c, d) ==
  IF c = d THEN {}
  ELSE IF c = NoContract THEN Finding("new_source_table", "compatible", {"*"})
  ELSE IF d = NoContract THEN Finding("removed_source_table", "breaking", {"*"})
  ELSE RequiredFindings(c, d) \cup NullableFindings(c, d)
         \cup TypeFindings(c, d) \cup EnumFindings(c, d)

\* main with --fail-on-breaking.
Passes(c, d) == \A x \in Findings(c, d) : x.compatibility # "breaking"

-----------------------------------------------------------------------------
(* validate_payload_contract, field by field.                               *)
Given(x) == x \notin {Null, Missing}

RequiredHolds(c, f, x) == f \in c.required => Given(x)
TypeHolds(c, f, x) ==
  /\ f \in Typed(c) /\ x = Null => f \in c.nullable
  /\ f \in Typed(c) /\ Given(x) => c.types[f] \in Matches[x]
EnumHolds(c, f, x) == f \in Listed(c) /\ Given(x) => x \in c.enums[f]

Conforms(c, v) ==
  c # NoContract =>
    \A f \in Fields : RequiredHolds(c, f, v[f]) /\ TypeHolds(c, f, v[f]) /\ EnumHolds(c, f, v[f])

-----------------------------------------------------------------------------
(* Where the gate does not look.                                            *)
BlindSpot(c, d, f, x) ==
  \/ c = NoContract /\ d # NoContract
  \/ /\ c # NoContract /\ d # NoContract
     /\ \/ f \in Typed(d) \ Typed(c) /\ x # Missing
        \/ f \in Listed(d) \ Listed(c) /\ Given(x)
        \/ f \in Typed(d) /\ f \in c.nullable \ d.nullable /\ x = Null

BlindSpots(c, d) == {p \in Fields \X Cell : BlindSpot(c, d, p[1], p[2])}

-----------------------------------------------------------------------------
GateInit ==
  /\ contract \in Contracts
  /\ cached = [p \in Processes |-> Unread]
  /\ stored = {}
  /\ tightened = {}

\* A candidate that passes the gate is put in force.
Adopt(d) ==
  /\ Passes(contract, d)
  /\ contract' = d
  /\ tightened' = tightened \cup BlindSpots(contract, d)
  /\ UNCHANGED <<cached, stored>>

\* load_contracts: the first validation of a process reads the file.
Read(p) ==
  /\ cached[p] = Unread
  /\ cached' = [cached EXCEPT ![p] = contract]
  /\ UNCHANGED <<contract, stored, tightened>>

Exit(p) ==
  /\ cached[p] # Unread
  /\ cached' = [cached EXCEPT ![p] = Unread]
  /\ UNCHANGED <<contract, stored, tightened>>

\* A payload is validated and stored; others go to the rejected events.
Accept(p, v) ==
  /\ cached[p] # Unread
  /\ Conforms(cached[p], v)
  /\ stored' = stored \cup {v}
  /\ UNCHANGED <<contract, cached, tightened>>

GateNext ==
  \/ \E d \in Contracts : Adopt(d)
  \/ \E p \in Processes : Read(p) \/ Exit(p)
  \/ \E p \in Processes, v \in Payloads : Accept(p, v)

GateSpec == GateInit /\ [][GateNext]_gateVars

-----------------------------------------------------------------------------
(* Properties.                                                             *)

GateTypeOK ==
  /\ contract \in Contracts
  /\ cached \in [Processes -> Contracts \cup {Unread}]
  /\ stored \subseteq Payloads
  /\ tightened \subseteq Fields \X Cell

\* A contract that passes the gate rejects nothing the one before it accepted,
\* but in the gate's blind spots: a first contract for the table, a first type
\* or list for a field, a field that may no longer be null.
GateIsSound ==
  [][\A v \in Payloads :
       Conforms(contract, v) /\ ~Conforms(contract', v)
         => \E f \in Fields : BlindSpot(contract, contract', f, v[f])]_gateVars

\* What was ever accepted, by a process with whatever contract it has kept, is
\* accepted when it is replayed, but for values in a blind spot of one of the
\* changes: no chain of gated changes adds up to more than its parts.
StoredStaysValid ==
  \A v \in stored : Conforms(contract, v) \/ \E f \in Fields : <<f, v[f]>> \in tightened
=============================================================================
