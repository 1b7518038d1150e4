-------------------------------- MODULE Resolver --------------------------------
(***************************************************************************)
(* Identity resolution: _component_records of identity_resolution/resolver.py,*)
(* the canonical ids and weak links _resolve_identity_core makes of it, and  *)
(* their upsert into the identity map.  A run resolves the records it is     *)
(* given: all of them in the batch pipelines, those of one Kafka batch in    *)
(* streaming/consumer.py.                                                   *)
(*                                                                         *)
(* Left out: golden values (survivorship), the audit rows, normalization of  *)
(* the identifiers, and hash collisions of canonical ids.  A record stands   *)
(* for its latest version; its tenant is part of its identity.              *)
(***************************************************************************)
EXTENDS Naturals, Sequences, FiniteSets

CONSTANTS
  Records, Tenants,
  Strong,      \* identifiers whose rule reaches AUTO_MERGE_MIN
  Weak,        \* identifiers whose rule is in the review band
  Rank,        \* place of an identifier in the order by weight, then by text
  Populations, \* what the records may say: a tenant and identifiers for each
  Batches,     \* sets of records that are resolved together
  NoId         \* a record without a mapping

Identifiers == Strong \cup Weak
Evidence == [tenant : Tenants, ids : SUBSET Identifiers]

ASSUME ResolverAssumption ==
  /\ IsFiniteSet(Records) /\ IsFiniteSet(Identifiers)
  /\ Strong \cap Weak = {}
  /\ Rank \in [Identifiers -> Nat]
  /\ \A i, j \in Identifiers : Rank[i] = Rank[j] => i = j
  /\ \A i \in Strong, j \in Weak : Rank[i] < Rank[j]
  /\ Populations \subseteq [Records -> Evidence]
  /\ Batches \subseteq SUBSET Records
  \* Nodes and seeds begin with "record:" or "id:", and a token with its type.
  /\ Records \cap Identifiers = {} /\ Records \cap (Tenants \X Identifiers) = {}
  /\ NoId \notin Tenants \X (Identifiers \cup Records)

\* Nodes of the identity graph: records, and identifiers in their tenant.
\* Canonical ids: an identifier, or a record, in its tenant.
Nodes == Records \cup Tenants \X Identifiers
CustomerIds == Tenants \X (Identifiers \cup Records)

VARIABLES
  evidence,   \* the tenant and the identifiers of each record
  pc,         \* idle, reading, resolved
  batch,      \* records of the run
  read,       \* those the first loop has come to, in the order of the dict
  pending,    \* identifiers of the last of them that it has yet to union
  parent,     \* UnionFind.parent; a node it does not hold is its own parent
  customer,   \* canonical id of each record of the run
  candidates, \* weak links of the run
  map         \* canonical id of each record in customer_identity_map

vars == <<evidence, pc, batch, read, pending, parent, customer, candidates, map>>

-----------------------------------------------------------------------------
InTenant(r, x) == <<evidence[r].tenant, x>>

\* UnionFind.find: the root of a node, and the path that find compresses.
Path[n \in Nodes] == IF parent[n] = n THEN {n} ELSE {n} \cup Path[parent[n]]
Root(n) == CHOOSE m \in Path[n] : parent[m] = m

\* UnionFind.union: find(left) and find(right) compress their paths, then the
\* right root gets the left one as its parent.
LinkedRoot_Swapped(l, r) == r   \* mutant: parent[item] = other, without its root
LinkedRoot(l, r) == Root(r)
Union(l, r) ==
  [n \in Nodes |->
     IF n = LinkedRoot(l, r) \/ n \in Path[l] THEN Root(l)
     ELSE IF n \in Path[r] THEN Root(r)
     ELSE parent[n]]

\* Only an identifier whose confidence reaches AUTO_MERGE_MIN links records.
Linking(r) == evidence[r].ids \cap Strong

Init ==
  /\ evidence \in Populations
  /\ pc = "idle"
  /\ batch = {}
  /\ read = << >>
  /\ pending = {}
  /\ parent = [n \in Nodes |-> n]
  /\ customer = [r \in Records |-> NoId]
  /\ candidates = {}
  /\ map = [r \in Records |-> NoId]

\* resolve_identity is called on a list of events; records come in the order of
\* their events.
Start(B) ==
  /\ pc = "idle"
  /\ pc' = "reading"
  /\ batch' = B
  /\ UNCHANGED <<evidence, read, pending, parent, customer, candidates, map>>

ReadRecord(r) ==
  /\ pc = "reading"
  /\ pending = {}
  /\ r \in batch
  /\ \A k \in DOMAIN read : read[k] # r
  /\ read' = Append(read, r)
  /\ pending' = Linking(r)
  /\ UNCHANGED <<evidence, pc, batch, parent, customer, candidates, map>>

\* uf.union(record_node, identifier_node), identifiers in any order.
Link(i) ==
  /\ i \in pending
  /\ LET r == read[Len(read)]
     IN parent' = Union(r, InTenant(r, i))
  /\ pending' = pending \ {i}
  /\ UNCHANGED <<evidence, pc, batch, read, customer, candidates, map>>

-----------------------------------------------------------------------------
SameComponent(r, s) == Root(r) = Root(s)

\* component_tokens: every identifier of a component, the weak ones included.
TokensOf(r) == UNION {evidence[s].ids : s \in {t \in batch : SameComponent(r, t)}}

\* _canonical_id: the strongest token, or the record when there is none.
Strongest(T) == CHOOSE i \in T : \A j \in T : Rank[i] <= Rank[j]
Seed_OwnTokens(r) == evidence[r].ids   \* mutant: not the tokens of its component
Seed(r) == TokensOf(r)
Scoped_Never(r, x) == <<CHOOSE t \in Tenants : TRUE, x>>   \* mutant: no tenant in the seed
Scoped(r, x) == InTenant(r, x)
CanonicalId(r) == Scoped(r, IF Seed(r) = {} THEN r ELSE Strongest(Seed(r)))

\* weak_token_records, and by_root: the first record of each component among
\* those that hold identifier i in tenant t.
Holders(t, i) == {k \in DOMAIN read : evidence[read[k]].tenant = t /\ i \in evidence[read[k]].ids}
Leading(t, i) ==
  {k \in Holders(t, i) : \A j \in Holders(t, i) : SameComponent(read[j], read[k]) => k <= j}

\* The first of them, the anchor, is paired with each of the others; a pair of
\* one customer is dropped.
Paired_Neighbours(a, k, L) == k = a + 1   \* mutant: only the next record is paired
Paired(a, k, L) == a < k /\ \A j \in L : a <= j
WeakLinks(named) ==
  {l \in [id : Weak, left : batch, right : batch] :
     /\ named[l.left] # named[l.right]
     /\ \E t \in Tenants : \E a, k \in Leading(t, l.id) :
          /\ Paired(a, k, Leading(t, l.id))
          /\ l.left = read[a] /\ l.right = read[k]}

\* Grouping, canonical ids and weak links; the graph is dropped.
Group ==
  /\ pc = "reading"
  /\ pending = {}
  /\ batch = {read[k] : k \in DOMAIN read}
  /\ pc' = "resolved"
  /\ customer' = [r \in Records |-> IF r \in batch THEN CanonicalId(r) ELSE NoId]
  /\ candidates' = WeakLinks(customer')
  /\ parent' = [n \in Nodes |-> n]
  /\ UNCHANGED <<evidence, batch, read, pending, map>>

\* load_identity_to_postgres, and the return from the run.
Load ==
  /\ pc = "resolved"
  /\ pc' = "idle"
  /\ map' = [r \in Records |-> IF r \in batch THEN customer[r] ELSE map[r]]
  /\ batch' = {}
  /\ read' = << >>
  /\ customer' = [r \in Records |-> NoId]
  /\ candidates' = {}
  /\ UNCHANGED <<evidence, pending, parent>>

Next ==
  \/ \E B \in Batches : Start(B)
  \/ \E r \in Records : ReadRecord(r)
  \/ \E i \in Identifiers : Link(i)
  \/ Group \/ Load

Spec == Init /\ [][Next]_vars
-----------------------------------------------------------------------------
(* Properties *)

TypeOK ==
  /\ evidence \in [Records -> Evidence]
  /\ pc \in {"idle", "reading", "resolved"}
  /\ batch \subseteq Records
  /\ read \in Seq(batch)
  /\ pending \subseteq Strong
  /\ parent \in [Nodes -> Nodes]
  /\ customer \in [Records -> CustomerIds \cup {NoId}]
  /\ candidates \subseteq [id : Weak, left : batch, right : batch]
  /\ map \in [Records -> CustomerIds \cup {NoId}]

\* The reference: records linked by a chain of records of one tenant in which
\* each shares a strong identifier with the next.
Shares(r, s) ==
  /\ evidence[r].tenant = evidence[s].tenant
  /\ evidence[r].ids \cap evidence[s].ids \cap Strong # {}
Linked(r, s) ==
  \A S \in SUBSET batch :
    r \in S /\ (\A x \in S, y \in batch : Shares(x, y) => y \in S) => s \in S

Bare(r) == evidence[r].ids \cap Strong = {}

\* No two records get one customer but those a chain of strong identifiers
\* connects, never records of two tenants - except
\* that records without any strong identifier are merged on a weak one
\* (_canonical_id takes its seed from weak tokens too, resolver.py:276-280, 344).
MergeHasEvidence ==
  pc = "resolved" =>
    \A r, s \in batch : customer[r] = customer[s] =>
      \/ Linked(r, s)
      \/ /\ Bare(r) /\ Bare(s)
         /\ evidence[r].tenant = evidence[s].tenant
         /\ evidence[r].ids \cap evidence[s].ids # {}

\* "The canonical customer ID is deterministic from the strongest identifier in
\* the component" (docs/identity_resolution.md:18-19), whatever the order.
IdIsStrongest ==
  pc = "resolved" =>
    \A r \in batch :
      LET tokens == UNION {evidence[s].ids : s \in {t \in batch : Linked(r, t)}}
      IN tokens # {} =>
           /\ customer[r] \in {evidence[r].tenant} \X tokens
           /\ \A i \in tokens : Rank[customer[r][2]] <= Rank[i]

\* Weak evidence between two customers is never lost: all customers that hold one
\* weak identifier in a tenant are connected by review candidates, and each
\* candidate is about two customers who share it (resolver.py:344-361, 698-702).
WeakEvidenceIsReviewed ==
  pc = "resolved" =>
    /\ \A r, s \in batch, i \in Weak :
         /\ evidence[r].tenant = evidence[s].tenant
         /\ i \in evidence[r].ids \cap evidence[s].ids
         => \E a \in batch : \A x \in {r, s} :
              \/ customer[x] = customer[a]
              \/ \E l \in candidates : l.id = i /\ l.left = a /\ customer[l.right] = customer[x]
    /\ \A l \in candidates :
         /\ evidence[l.left].tenant = evidence[l.right].tenant
         /\ l.id \in evidence[l.left].ids \cap evidence[l.right].ids
         /\ customer[l.left] # customer[l.right]

\* The union-find forest, with its path compression, is a partition of the nodes
\* that links only ever join.
Graph == INSTANCE IdentityPartition WITH
  groups <- {{m \in Nodes : Root(m) = Root(n)} : n \in Nodes}
GraphSpec == Graph!Spec

\* docs/master_data_management.md:58, of evidence in the review band: "Not merged.
\* Routed to identity.identity_review_queue".
WeakIsNotMerged ==
  pc = "resolved" =>
    \A r, s \in batch : customer[r] = customer[s] => Linked(r, s)

\* docs/master_data_management.md:57, of evidence from AUTO_MERGE_MIN on:
\* "Auto-merges through the canonical resolver": so do two mapped records.
StrongIsMerged ==
  \A r, s \in Records :
    map[r] # NoId /\ map[s] # NoId /\ Shares(r, s) => map[r] = map[s]
=============================================================================
