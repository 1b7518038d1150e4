---------------------------- MODULE ResolverProofs ----------------------------
(***************************************************************************)
(* Proofs about Resolver, for every number of records, tenants and            *)
(* identifiers, whatever the batches and the order in which records are read. *)
(*                                                                         *)
(* UnionFind first: in a parent function without cycles, Path is what its      *)
(* recursion says (PathStep), every node has one root (Roots), and Union       *)
(* makes one group of two (UnionRoots).  Instead of an induction along a path, *)
(* each argument takes the set of nodes that are counterexamples: a parent of  *)
(* one is one too, and no root is, so there are none.                         *)
(***************************************************************************)
EXTENDS Resolver, FiniteSetTheorems, WellFoundedInduction, TLAPS

Closed(S) == \A n \in S : parent[n] \in S

\* No cycle but that of a root: whatever is closed under parent holds a root.
Grounded ==
  \A S \in SUBSET Nodes : S # {} /\ Closed(S) => \E n \in S : parent[n] = n

Forest == parent \in [Nodes -> Nodes] /\ Grounded

-----------------------------------------------------------------------------
(* find and union (resolver.py, UnionFind).                                 *)

\* What can be reached from a node by parent: the least closed set with it.
Reach(n) == {m \in Nodes : \A S \in SUBSET Nodes : n \in S /\ Closed(S) => m \in S}

\* Reach satisfies the equation that defines Path.
LEMMA ReachStep ==
  ASSUME Forest, NEW n \in Nodes
  PROVE  Reach(n) = IF parent[n] = n THEN {n} ELSE {n} \cup Reach(parent[n])
<1>0. parent[n] \in Nodes
  BY DEF Forest
<1>1. CASE parent[n] = n
  <2>1. {n} \in SUBSET Nodes /\ Closed({n})
    BY <1>1 DEF Closed
  <2> QED
    BY <1>1, <2>1 DEF Reach
<1>2. CASE parent[n] # n
  <2>1. n \in Reach(n)
    BY DEF Reach
  <2>2. Reach(parent[n]) \subseteq Reach(n)
    BY DEF Reach, Closed
  <2>3. Reach(n) \subseteq {n} \cup Reach(parent[n])
    <3> DEFINE T == {n} \cup Reach(parent[n])
    <3>1. T \in SUBSET Nodes
      BY DEF Reach
    <3>2. Closed(T)
      <4> SUFFICES ASSUME NEW m \in T PROVE parent[m] \in T
        BY DEF Closed
      <4>1. parent[n] \in Reach(parent[n])
        BY <1>0 DEF Reach
      <4>2. CASE m \in Reach(parent[n])
        BY <4>2 DEF Reach, Closed, Forest
      <4> QED
        BY <4>1, <4>2
    <3> QED
      BY <3>1, <3>2 DEF Reach
  <2> QED
    BY <1>2, <2>1, <2>2, <2>3
<1> QED
  BY <1>1, <1>2

\* In a forest the recursion that defines Path ends, so Path satisfies its equation.
LEMMA PathStep ==
  ASSUME Forest
  PROVE  \A n \in Nodes : /\ parent[n] = n => Path[n] = {n}
                          /\ parent[n] # n => Path[n] = {n} \cup Path[parent[n]]
<1> DEFINE g == [n \in Nodes |-> Reach(n)]
<1>1. g = [n \in Nodes |-> IF parent[n] = n THEN {n} ELSE {n} \cup g[parent[n]]]
  BY ReachStep DEF Forest
<1> HIDE DEF g
<1>2. Path = [n \in Nodes |-> IF parent[n] = n THEN {n} ELSE {n} \cup Path[parent[n]]]
  BY <1>1, Zenon DEF Path
<1> QED
  BY <1>2

\* A path stays in the graph, and goes on to the parent of each of its nodes.
LEMMA PathClosed ==
  ASSUME Forest, NEW n \in Nodes
  PROVE  Path[n] \subseteq Nodes /\ n \in Path[n] /\ Closed(Path[n])
<1> DEFINE P(m) == Path[m] \subseteq Nodes /\ m \in Path[m] /\ Closed(Path[m])
           S == {m \in Nodes : ~P(m)}
<1>1. \A m \in S : parent[m] # m
  BY PathStep DEF Closed
<1>2. Closed(S)
  <2> SUFFICES ASSUME NEW m \in S, P(parent[m]) PROVE FALSE
    BY DEF Closed, Forest
  <2>1. Path[m] = {m} \cup Path[parent[m]]
    BY <1>1, PathStep
  <2> QED
    BY <2>1 DEF Closed
<1> QED
  BY <1>1, <1>2 DEF Forest, Grounded

\* There is one root on a path.
LEMMA OneRoot ==
  ASSUME Forest, NEW n \in Nodes, NEW x \in Path[n], NEW y \in Path[n],
         parent[x] = x, parent[y] = y
  PROVE  x = y
<1> DEFINE S == {m \in Nodes : \E a, b \in Path[m] : a # b /\ parent[a] = a /\ parent[b] = b}
<1>1. \A m \in S : parent[m] # m
  BY PathStep
<1>2. Closed(S)
  <2> SUFFICES ASSUME NEW m \in S PROVE parent[m] \in S
    BY DEF Closed
  <2>1. Path[m] = {m} \cup Path[parent[m]] /\ parent[m] \in Nodes
    BY <1>1, PathStep DEF Forest
  <2>2. PICK a, b \in Path[m] : a # b /\ parent[a] = a /\ parent[b] = b
    OBVIOUS
  <2>3. a \in Path[parent[m]] /\ b \in Path[parent[m]]
    BY <1>1, <2>1, <2>2
  <2> QED
    BY <2>1, <2>2, <2>3
<1> QED
  BY <1>1, <1>2 DEF Forest, Grounded

\* find returns a root, the same for all nodes of a path.
LEMMA Roots ==
  ASSUME Forest, NEW n \in Nodes
  PROVE  /\ Root(n) \in Path[n] /\ Root(n) \in Nodes
         /\ parent[Root(n)] = Root(n)
         /\ parent[n] = n => Root(n) = n
         /\ Root(parent[n]) = Root(n)
<1>1. \A m \in Nodes : Root(m) \in Path[m] /\ parent[Root(m)] = Root(m)
  <2> SUFFICES ASSUME NEW m \in Nodes PROVE Root(m) \in Path[m] /\ parent[Root(m)] = Root(m)
    OBVIOUS
  <2>1. \E x \in Path[m] : parent[x] = x
    BY PathClosed DEF Forest, Grounded
  <2> QED
    BY <2>1 DEF Root
<1>2. Root(n) \in Nodes
  BY <1>1, PathClosed
<1>3. parent[n] = n => Root(n) = n
  BY <1>1, PathStep
<1>4. CASE parent[n] # n
  <2>1. Root(parent[n]) \in Path[n] /\ parent[n] \in Nodes
    BY <1>1, <1>4, PathStep DEF Forest
  <2> QED
    BY <1>1, <1>2, <1>3, <2>1, OneRoot
<1> QED
  BY <1>1, <1>2, <1>3, <1>4

LEMMA PathRoots ==
  ASSUME Forest, NEW n \in Nodes, NEW m \in Path[n]
  PROVE  m \in Nodes /\ Root(m) = Root(n)
<1> DEFINE S == {x \in Nodes : \E y \in Path[x] : Root(y) # Root(x)}
<1>1. \A x \in S : parent[x] # x
  BY PathStep
<1>2. Closed(S)
  <2> SUFFICES ASSUME NEW x \in S PROVE parent[x] \in S
    BY DEF Closed
  <2>1. Path[x] = {x} \cup Path[parent[x]] /\ parent[x] \in Nodes
    BY <1>1, PathStep DEF Forest
  <2>2. PICK y \in Path[x] : Root(y) # Root(x)
    OBVIOUS
  <2> QED
    BY <2>1, <2>2, Roots
<1>3. S = {}
  BY <1>1, <1>2 DEF Forest, Grounded
<1> QED
  BY <1>3, PathClosed

\* What sends each root to itself and each node where it sends its parent is Root.
FollowsParents(f) == \A n \in Nodes : (parent[n] = n => f[n] = n) /\ f[parent[n]] = f[n]
RootIsUnique ==
  Forest => \A f \in [Nodes -> Nodes] : FollowsParents(f) => \A n \in Nodes : Root(n) = f[n]

LEMMA RootIs == RootIsUnique
<1> SUFFICES ASSUME Forest, NEW f \in [Nodes -> Nodes], FollowsParents(f)
             PROVE  \A n \in Nodes : Root(n) = f[n]
  BY DEF RootIsUnique
<1> DEFINE S == {x \in Nodes : Root(x) # f[x]}
<1>1. \A x \in S : parent[x] # x
  BY Roots DEF FollowsParents
<1>2. Closed(S)
  BY Roots DEF Closed, Forest, FollowsParents
<1> QED
  BY <1>1, <1>2 DEF Forest, Grounded

\* The same of the graph after a step.
LEMMA NextRootIs == RootIsUnique'
BY RootIs, PTL

\* Nothing is linked in the graph a run starts with.
LEMMA NoLinks ==
  parent = [n \in Nodes |-> n] => Forest /\ \A n \in Nodes : Root(n) = n
<1> SUFFICES ASSUME parent = [n \in Nodes |-> n] PROVE Forest /\ \A n \in Nodes : Root(n) = n
  OBVIOUS
<1>1. Forest
  BY DEF Forest, Grounded
<1> QED
  BY <1>1, Roots

\* union: the group of the right node joins that of the left one, whatever the
\* paths that were compressed; all other groups stay.
LEMMA UnionRoots ==
  ASSUME Forest, NEW l \in Nodes, NEW r \in Nodes, parent' = Union(l, r)
  PROVE  /\ Forest'
         /\ \A n \in Nodes : Root(n)' = IF Root(n) = Root(r) THEN Root(l) ELSE Root(n)
<1>1. /\ Root(l) \in Nodes /\ Root(r) \in Nodes
      /\ Root(l) \in Path[l] /\ Root(r) \in Path[r]
      /\ parent[Root(l)] = Root(l) /\ parent[Root(r)] = Root(r)
      /\ Root(Root(l)) = Root(l) /\ Root(Root(r)) = Root(r)
  BY Roots
<1>2. \A n \in Nodes :
        /\ n = Root(r) \/ n \in Path[l] => parent'[n] = Root(l)
        /\ n # Root(r) /\ n \notin Path[l] /\ n \in Path[r] => parent'[n] = Root(r)
        /\ n \notin Path[l] /\ n \notin Path[r] => parent'[n] = parent[n]
  BY <1>1 DEF Union, LinkedRoot
<1>3. parent' \in [Nodes -> Nodes]
  BY <1>1 DEF Union, Forest
<1>4. Grounded'
  <2> SUFFICES ASSUME NEW S \in SUBSET Nodes, S # {}, \A n \in S : parent'[n] \in S,
                      \A n \in S : parent'[n] # n
               PROVE  FALSE
    BY DEF Grounded, Closed
  <2>1. Root(l) \notin S
    BY <1>1, <1>2
  <2>2. \A n \in S : n \notin Path[l] /\ n \notin Path[r]
    BY <1>2, <2>1
  <2>3. \A n \in S : parent'[n] = parent[n]
    BY <1>2, <2>2
  <2> QED
    BY <2>3 DEF Forest, Grounded, Closed
<1>5. Forest'
  BY <1>3, <1>4 DEF Forest
<1>6. PICK f \in [Nodes -> Nodes] :
        \A n \in Nodes : f[n] = IF Root(n) = Root(r) THEN Root(l) ELSE Root(n)
  <2> DEFINE g == [n \in Nodes |-> IF Root(n) = Root(r) THEN Root(l) ELSE Root(n)]
  <2>1. g \in [Nodes -> Nodes]
    BY Roots
  <2> QED
    BY <2>1
<1>7. ASSUME NEW n \in Nodes
      PROVE  (parent'[n] = n => f[n] = n) /\ f[parent'[n]] = f[n]
  <2>1. CASE n = Root(r) \/ n \in Path[l]
    <3>1. parent'[n] = Root(l) /\ (Root(n) = Root(l) \/ Root(n) = Root(r))
      BY <1>1, <1>2, <2>1, PathRoots
    <3> QED
      BY <1>1, <1>6, <3>1
  <2>2. CASE n # Root(r) /\ n \notin Path[l] /\ n \in Path[r]
    <3>1. parent'[n] = Root(r) /\ Root(n) = Root(r)
      BY <1>2, <2>2, PathRoots
    <3> QED
      BY <1>1, <1>6, <2>2, <3>1
  <2>3. CASE n \notin Path[l] /\ n \notin Path[r]
    <3>1. parent'[n] = parent[n] /\ parent[n] \in Nodes
      BY <1>2, <2>3 DEF Forest
    <3>2. Root(parent[n]) = Root(n) /\ (parent[n] = n => Root(n) = n)
      BY Roots
    <3>3. n # Root(r)
      BY <1>1, <2>3
    <3> QED
      BY <1>6, <3>1, <3>2, <3>3
  <2> QED
    BY <2>1, <2>2, <2>3
<1>8. FollowsParents(f)'
  BY <1>7 DEF FollowsParents
<1>9. \A n \in Nodes : Root(n)' = f[n]
  BY <1>5, <1>6, <1>8, NextRootIs DEF RootIsUnique
<1> QED
  BY <1>5, <1>6, <1>9

-----------------------------------------------------------------------------
(* Evidence: chains of records (the reference of the properties).           *)

\* Chains run both ways, inside the run and inside a tenant; a record without
\* strong identifiers is in none.
LEMMA Chains ==
  ASSUME NEW r \in batch, NEW s \in batch, Linked(r, s)
  PROVE  /\ Linked(s, r)
         /\ evidence[r].tenant = evidence[s].tenant
         /\ Bare(r) => s = r
         /\ \A t : Linked(s, t) => Linked(r, t)
<1>1. \A t : Linked(s, t) => Linked(r, t)
  BY DEF Linked
<1>2. Linked(s, r)
  <2> DEFINE S == {x \in batch : Linked(x, r)}
  <2>1. r \in S
    BY DEF Linked
  <2>2. ASSUME NEW x \in S, NEW y \in batch, Shares(x, y)
        PROVE  y \in S
    <3>1. Shares(y, x)
      BY <2>2 DEF Shares
    <3>2. Linked(y, r)
      BY <3>1 DEF Linked
    <3> QED
      BY <3>2
  <2>3. s \in S
    BY <2>1, <2>2 DEF Linked
  <2> QED
    BY <2>3
<1>3. evidence[r].tenant = evidence[s].tenant
  <2> DEFINE S == {x \in batch : evidence[x].tenant = evidence[r].tenant}
  <2>1. s \in S
    BY DEF Linked, Shares
  <2> QED
    BY <2>1
<1>4. Bare(r) => s = r
  <2> SUFFICES ASSUME Bare(r) PROVE s \in {r}
    OBVIOUS
  <2> QED
    BY DEF Linked, Shares, Bare
<1> QED
  BY <1>1, <1>2, <1>3, <1>4

LEMMA OneLink ==
  ASSUME NEW r \in batch, NEW s \in batch, Shares(r, s) \/ r = s
  PROVE  Linked(r, s)
BY DEF Linked

\* The least number of a set.
LEMMA LeastNatural ==
  ASSUME NEW S \in SUBSET Nat, S # {}
  PROVE  \E m \in S : \A n \in S : m <= n
<1>1. \E R : IsWellFoundedOn(R, Nat) /\ \A x, y \in Nat : y < x => <<y, x>> \in R
  <2>1. IsWellFoundedOn(OpToRel(<, Nat), Nat)
    BY NatLessThanWellFounded
  <2>2. \A x, y \in Nat : y < x => <<y, x>> \in OpToRel(<, Nat)
    BY DEF OpToRel
  <2> QED
    BY <2>1, <2>2
<1>2. PICK R : IsWellFoundedOn(R, Nat) /\ \A x, y \in Nat : y < x => <<y, x>> \in R
  BY <1>1
<1>3. PICK x \in S : \A y \in S : ~(<<y, x>> \in R)
  BY <1>2, WFMin
<1>4. \A y \in S : ~(y < x) /\ x \in Nat /\ y \in Nat
  BY <1>2, <1>3
<1> QED
  BY <1>4

\* _canonical_id finds the identifier that comes first in its order.
LEMMA StrongestIs ==
  ASSUME NEW T \in SUBSET Identifiers, T # {}
  PROVE  /\ Strongest(T) \in T
         /\ \A i \in T : Rank[Strongest(T)] <= Rank[i]
<1> DEFINE N == {Rank[i] : i \in T}
<1>1. N \in SUBSET Nat /\ N # {}
  BY ResolverAssumption
<1>2. PICK m \in N : \A n \in N : m <= n
  BY <1>1, LeastNatural
<1>3. \E i \in T : \A j \in T : Rank[i] <= Rank[j]
  BY <1>2
<1> QED
  BY <1>3 DEF Strongest

-----------------------------------------------------------------------------
(* The inductive invariant.                                                 *)

\* The records of the run that speak for a node: the record itself, and the
\* records that hold the identifier in the tenant.
Attached(n) ==
  IF n \in Records THEN {n} \cap batch
  ELSE {r \in batch : evidence[r].tenant = n[1] /\ n[2] \in Linking(r)}

\* What is in one group is connected by evidence ...
JoinsAreEvidence ==
  \A m, n \in Nodes : Root(m) = Root(n) =>
    \A r \in Attached(m), s \in Attached(n) : Linked(r, s)

\* ... and the strong identifiers that were read are in the group of their record.
Joined(k) == Linking(read[k]) \ (IF k = Len(read) THEN pending ELSE {})
EvidenceIsJoined ==
  \A k \in DOMAIN read : \A i \in Joined(k) : Root(read[k]) = Root(InTenant(read[k], i))

Phases ==
  /\ pc = "idle" => batch = {} /\ read = << >>
  /\ pc # "reading" => pending = {} /\ parent = [n \in Nodes |-> n]
  /\ pc # "resolved" => candidates = {}
  /\ pending # {} => read # << >> /\ pending \subseteq Linking(read[Len(read)])

IndInv ==
  /\ TypeOK
  /\ Phases
  /\ Grounded
  /\ pc = "reading" => JoinsAreEvidence /\ EvidenceIsJoined
  /\ MergeHasEvidence
  /\ IdIsStrongest
  /\ WeakEvidenceIsReviewed

\* What the first loop has done when it ends (resolver.py:321-342).
AllRead ==
  /\ IndInv
  /\ pc = "reading"
  /\ pending = {}
  /\ batch = {read[k] : k \in DOMAIN read}

LEMMA NodeTypes ==
  ASSUME TypeOK
  PROVE  /\ Records \subseteq Nodes
         /\ \A r \in Records : evidence[r] \in Evidence /\ Linking(r) \subseteq Strong
         /\ \A r \in Records, i \in Identifiers :
              /\ InTenant(r, i) \in Nodes /\ InTenant(r, i) \notin Records
              /\ InTenant(r, i)[1] = evidence[r].tenant /\ InTenant(r, i)[2] = i
BY ResolverAssumption DEF TypeOK, Nodes, InTenant, Linking, Evidence, Identifiers

\* Once all is read, the groups of the records are the chains.
LEMMA Components ==
  ASSUME AllRead, NEW r \in batch, NEW s \in batch
  PROVE  SameComponent(r, s) <=> Linked(r, s)
<1> USE DEF AllRead, IndInv
<1>1. batch \subseteq Records /\ batch \subseteq Nodes
  BY NodeTypes DEF TypeOK
<1>2. ASSUME SameComponent(r, s) PROVE Linked(r, s)
  <2>1. r \in Attached(r) /\ s \in Attached(s)
    BY <1>1 DEF Attached
  <2> QED
    BY <1>1, <1>2, <2>1 DEF SameComponent, JoinsAreEvidence
<1>3. ASSUME Linked(r, s) PROVE SameComponent(r, s)
  <2> DEFINE S == {x \in batch : Root(x) = Root(r)}
  <2>1. ASSUME NEW x \in S, NEW y \in batch, Shares(x, y)
        PROVE  y \in S
    <3>1. PICK j \in DOMAIN read : x = read[j]
      OBVIOUS
    <3>2. PICK k \in DOMAIN read : y = read[k]
      OBVIOUS
    <3>3. PICK i \in Strong : i \in Linking(x) /\ i \in Linking(y)
      BY <2>1 DEF Shares, Linking
    <3>4. InTenant(x, i) = InTenant(y, i)
      BY <2>1 DEF InTenant, Shares
    <3>5. Root(x) = Root(InTenant(x, i)) /\ Root(y) = Root(InTenant(y, i))
      BY <3>1, <3>2, <3>3 DEF EvidenceIsJoined, Joined
    <3> QED
      BY <3>4, <3>5
  <2>2. s \in S
    BY <1>3, <2>1 DEF Linked
  <2> QED
    BY <2>2 DEF SameComponent
<1> QED
  BY <1>2, <1>3

\* The identifiers of the records of a chain.
ChainTokens(r) == UNION {evidence[s].ids : s \in {t \in batch : Linked(r, t)}}

LEMMA SeedIsOfChain ==
  ASSUME AllRead, NEW r \in batch
  PROVE  Seed(r) = ChainTokens(r)
<1>1. {t \in batch : SameComponent(r, t)} = {t \in batch : Linked(r, t)}
  BY Components
<1> QED
  BY <1>1 DEF Seed, TokensOf, ChainTokens

LEMMA ChainTokensAre ==
  ASSUME TypeOK, NEW r \in batch
  PROVE  /\ ChainTokens(r) \subseteq Identifiers
         /\ evidence[r].ids \subseteq ChainTokens(r)
         /\ \A i \in ChainTokens(r) : \E s \in batch : Linked(r, s) /\ i \in evidence[s].ids
         /\ \A s \in batch : Linked(r, s) => ChainTokens(s) = ChainTokens(r)
<1>1. \A s \in batch : evidence[s].ids \subseteq Identifiers
  BY NodeTypes DEF TypeOK, Evidence
<1>2. \A s \in batch : Linked(r, s) => evidence[s].ids \subseteq ChainTokens(r)
  BY DEF ChainTokens
<1>3. \A i \in ChainTokens(r) : \E s \in batch : Linked(r, s) /\ i \in evidence[s].ids
  BY DEF ChainTokens
<1>4. ASSUME NEW s \in batch, Linked(r, s) PROVE ChainTokens(s) = ChainTokens(r)
  <2>1. \A t \in batch : Linked(s, t) <=> Linked(r, t)
    BY <1>4, Chains
  <2>2. {t \in batch : Linked(r, t)} = {t \in batch : Linked(s, t)}
    BY <2>1
  <2> QED
    BY <2>2 DEF ChainTokens
<1> QED
  BY <1>1, <1>2, <1>3, <1>4, OneLink

\* The canonical id of a record is the first identifier of its chain, or the
\* record itself (resolver.py:342-346).
LEMMA CanonicalIds ==
  ASSUME AllRead, NEW r \in batch
  PROVE  /\ CanonicalId(r) \in CustomerIds
         /\ CanonicalId(r)[1] = evidence[r].tenant
         /\ ChainTokens(r) = {} => CanonicalId(r)[2] = r
         /\ ChainTokens(r) # {} =>
              /\ CanonicalId(r)[2] \in ChainTokens(r)
              /\ \A i \in ChainTokens(r) : Rank[CanonicalId(r)[2]] <= Rank[i]
         /\ \A s \in batch : Linked(r, s) /\ ChainTokens(r) # {} => CanonicalId(s) = CanonicalId(r)
<1> USE DEF AllRead, IndInv
<1>1. r \in Records /\ evidence[r].tenant \in Tenants
  BY NodeTypes DEF TypeOK, Evidence
<1>2. CanonicalId(r) =
        <<evidence[r].tenant, IF ChainTokens(r) = {} THEN r ELSE Strongest(ChainTokens(r))>>
  BY SeedIsOfChain DEF CanonicalId, Scoped, InTenant
<1>3. ChainTokens(r) # {} =>
        /\ Strongest(ChainTokens(r)) \in ChainTokens(r)
        /\ \A i \in ChainTokens(r) : Rank[Strongest(ChainTokens(r))] <= Rank[i]
  BY StrongestIs, ChainTokensAre
<1>4. ASSUME NEW s \in batch, Linked(r, s), ChainTokens(r) # {}
      PROVE  CanonicalId(s) = CanonicalId(r)
  <2>1. evidence[s].tenant = evidence[r].tenant /\ ChainTokens(s) = ChainTokens(r)
    BY <1>4, Chains, ChainTokensAre
  <2>2. CanonicalId(s) = <<evidence[s].tenant, Strongest(ChainTokens(s))>>
    BY <1>4, <2>1, SeedIsOfChain DEF CanonicalId, Scoped, InTenant
  <2> QED
    BY <1>2, <1>4, <2>1, <2>2
<1>5. CanonicalId(r) \in CustomerIds
  BY <1>1, <1>2, <1>3, ChainTokensAre DEF CustomerIds
<1> QED
  BY <1>2, <1>3, <1>4, <1>5

-----------------------------------------------------------------------------
(* What Group leaves: the properties.                                       *)

\* Records, chains and names after the step.
LEMMA Grouped ==
  ASSUME IndInv, Group
  PROVE  /\ AllRead
         /\ batch \subseteq Records /\ batch' = batch /\ evidence' = evidence
         /\ \A r, s : Linked(r, s)' <=> Linked(r, s)
         /\ \A r \in batch : customer'[r] = CanonicalId(r)
         /\ candidates' = WeakLinks(customer')
<1>1. batch' = batch /\ evidence' = evidence
  BY DEF Group
<1>2. \A r, s : Linked(r, s)' <=> Linked(r, s)
  BY <1>1 DEF Linked, Shares
<1> QED
  BY <1>1, <1>2 DEF IndInv, TypeOK, Group, AllRead

\* Equal ids come from a shared identifier, and if it is strong its holders, and so
\* the records, are in one chain; if it is weak, neither has a strong one.
LEMMA GroupMerges ==
  ASSUME IndInv, Group
  PROVE  MergeHasEvidence'
<1> SUFFICES ASSUME NEW r \in batch, NEW s \in batch, CanonicalId(r) = CanonicalId(s)
             PROVE  \/ Linked(r, s)
                    \/ /\ Bare(r) /\ Bare(s)
                       /\ evidence[r].tenant = evidence[s].tenant
                       /\ evidence[r].ids \cap evidence[s].ids # {}
  BY Grouped DEF MergeHasEvidence, Bare
<1> DEFINE x == CanonicalId(r)[2]
<1>1. AllRead /\ TypeOK /\ r \in Records /\ s \in Records
  BY Grouped DEF AllRead, IndInv
<1>2. evidence[r].tenant = evidence[s].tenant
  BY <1>1, CanonicalIds
<1>3. \A y \in batch : ChainTokens(y) \subseteq Identifiers /\ ChainTokens(y) \cap Records = {}
  BY <1>1, ChainTokensAre, ResolverAssumption
<1>4. CASE ChainTokens(r) = {}
  <2>1. x = r
    BY <1>1, <1>4, CanonicalIds
  <2>2. ChainTokens(s) = {}
    BY <1>1, <1>3, <2>1, CanonicalIds
  <2>3. r = s
    BY <1>1, <2>1, <2>2, CanonicalIds
  <2> QED
    BY <2>3, OneLink
<1>5. CASE ChainTokens(r) # {}
  <2>1. /\ x \in ChainTokens(r) /\ \A i \in ChainTokens(r) : Rank[x] <= Rank[i]
    BY <1>1, <1>5, CanonicalIds
  <2>2. ChainTokens(s) # {}
    BY <1>1, <1>3, <2>1, CanonicalIds
  <2>3. x \in ChainTokens(s) /\ \A i \in ChainTokens(s) : Rank[x] <= Rank[i]
    BY <1>1, <2>2, CanonicalIds
  <2>4. PICK a \in batch : Linked(r, a) /\ x \in evidence[a].ids
    BY <1>1, <2>1, ChainTokensAre
  <2>5. PICK b \in batch : Linked(s, b) /\ x \in evidence[b].ids
    BY <1>1, <2>3, ChainTokensAre
  <2>6. x \in Identifiers
    BY <1>3, <2>1
  <2>7. CASE x \in Strong
    <3>1. Shares(a, b)
      BY <1>2, <2>4, <2>5, <2>7, Chains DEF Shares
    <3>2. Linked(a, b) /\ Linked(b, s)
      BY <2>5, <3>1, OneLink, Chains
    <3> QED
      BY <2>4, <3>2, Chains
  <2>8. CASE x \in Weak
    <3>1. \A i \in Strong : Rank[i] < Rank[x] /\ Rank[i] \in Nat /\ Rank[x] \in Nat
      BY <2>8, ResolverAssumption DEF Identifiers
    <3>2. ASSUME NEW y \in batch, NEW c \in batch, Linked(y, c), x \in evidence[c].ids,
                 \A i \in ChainTokens(y) : Rank[x] <= Rank[i]
          PROVE  Bare(y) /\ x \in evidence[y].ids
      <4>1. Bare(y)
        BY <1>1, <3>1, <3>2, ChainTokensAre DEF Bare
      <4> QED
        BY <3>2, <4>1, Chains
    <3> QED
      BY <1>2, <2>1, <2>3, <2>4, <2>5, <3>2
  <2> QED
    BY <2>6, <2>7, <2>8 DEF Identifiers
<1> QED
  BY <1>4, <1>5

LEMMA GroupNames ==
  ASSUME IndInv, Group
  PROVE  IdIsStrongest'
<1> SUFFICES ASSUME NEW r \in batch, ChainTokens(r) # {}
             PROVE  /\ CanonicalId(r) \in {evidence[r].tenant} \X ChainTokens(r)
                    /\ \A i \in ChainTokens(r) : Rank[CanonicalId(r)[2]] <= Rank[i]
  <2>1. \A r \in batch : UNION {evidence[s].ids : s \in {t \in batch : Linked(r, t)}}' = ChainTokens(r)
    BY Grouped DEF ChainTokens
  <2> QED
    BY <2>1, Grouped DEF IdIsStrongest
<1>1. CanonicalId(r) \in CustomerIds
  BY Grouped, CanonicalIds
<1>2. CanonicalId(r) = <<CanonicalId(r)[1], CanonicalId(r)[2]>>
  BY <1>1 DEF CustomerIds
<1> QED
  BY <1>2, Grouped, CanonicalIds

\* Each component that holds an identifier has a first record among its holders.
LEMMA LeadingOf ==
  ASSUME AllRead, NEW x \in batch, NEW i \in evidence[x].ids
  PROVE  \E k \in Leading(evidence[x].tenant, i) : Linked(x, read[k])
<1> DEFINE H == Holders(evidence[x].tenant, i)
           S == {k \in H : SameComponent(x, read[k])}
<1>1. DOMAIN read \subseteq Nat
  BY DEF AllRead, IndInv, TypeOK
<1>2. \E k \in S : TRUE
  BY DEF AllRead, Holders, SameComponent
<1>3. S \in SUBSET Nat
  BY <1>1 DEF Holders
<1>4. PICK k \in S : \A j \in S : k <= j
  BY <1>2, <1>3, LeastNatural
<1>5. k \in Leading(evidence[x].tenant, i)
  BY <1>4 DEF Leading, SameComponent
<1>6. read[k] \in batch
  BY <1>4 DEF AllRead, Holders
<1> QED
  BY <1>4, <1>5, <1>6, Components

\* The anchor is the first of the leading records, and is paired with each other.
LEMMA GroupReviews ==
  ASSUME IndInv, Group
  PROVE  WeakEvidenceIsReviewed'
<1>0. AllRead /\ TypeOK
  BY Grouped DEF IndInv
<1>1. ASSUME NEW t, NEW i \in Weak, NEW k \in Leading(t, i)
      PROVE  /\ k \in Nat
             /\ read[k] \in batch /\ evidence[read[k]].tenant = t /\ i \in evidence[read[k]].ids
  BY <1>0 DEF Leading, Holders, AllRead, TypeOK
<1>2. ASSUME NEW r \in batch, NEW s \in batch, NEW i \in Weak,
             evidence[r].tenant = evidence[s].tenant, i \in evidence[r].ids \cap evidence[s].ids
      PROVE  \E a \in batch : \A x \in {r, s} :
               \/ customer'[x] = customer'[a]
               \/ \E l \in candidates' :
                    l.id = i /\ l.left = a /\ customer'[l.right] = customer'[x]
  <2> DEFINE t == evidence[r].tenant
             L == Leading(t, i)
  <2>1. L \in SUBSET Nat /\ L # {}
    BY <1>0, <1>1, <1>2, LeadingOf
  <2>2. PICK a \in L : \A j \in L : a <= j
    BY <2>1, LeastNatural
  <2>3. ASSUME NEW x \in {r, s}
        PROVE  \/ customer'[x] = customer'[read[a]]
               \/ \E l \in candidates' :
                    l.id = i /\ l.left = read[a] /\ customer'[l.right] = customer'[x]
    <3>1. x \in batch /\ evidence[x].tenant = t /\ i \in evidence[x].ids
      BY <1>2
    <3>2. PICK k \in L : Linked(x, read[k])
      BY <1>0, <3>1, LeadingOf
    <3>3. ChainTokens(x) # {}
      BY <1>0, <3>1, ChainTokensAre
    <3>4. customer'[x] = customer'[read[k]]
      BY <1>0, <1>1, <3>1, <3>2, <3>3, CanonicalIds, Grouped
    <3>5. CASE customer'[read[k]] = customer'[read[a]]
      BY <3>4, <3>5
    <3>6. CASE customer'[read[k]] # customer'[read[a]]
      <4> DEFINE l == [id |-> i, left |-> read[a], right |-> read[k]]
      <4>1. a < k
        BY <1>1, <2>1, <2>2, <3>6
      <4>2. Paired(a, k, L)
        BY <2>2, <4>1 DEF Paired
      <4>3. t \in Tenants
        BY <1>0, <1>2, NodeTypes, Grouped DEF Evidence
      <4>4. l \in WeakLinks(customer')
        BY <1>1, <2>2, <3>6, <4>2, <4>3 DEF WeakLinks
      <4> QED
        BY <3>4, <4>4, Grouped
    <3> QED
      BY <3>5, <3>6
  <2> QED
    BY <1>1, <2>2, <2>3
<1>3. ASSUME NEW l \in candidates'
      PROVE  /\ evidence[l.left].tenant = evidence[l.right].tenant
             /\ l.id \in evidence[l.left].ids \cap evidence[l.right].ids
             /\ customer'[l.left] # customer'[l.right]
  <2>1. l \in WeakLinks(customer')
    BY <1>3, Grouped
  <2>2. l.id \in Weak /\ customer'[l.left] # customer'[l.right]
    BY <2>1 DEF WeakLinks
  <2>3. PICK t \in Tenants : \E a, k \in Leading(t, l.id) : l.left = read[a] /\ l.right = read[k]
    BY <2>1 DEF WeakLinks
  <2> QED
    BY <1>1, <2>2, <2>3
<1> QED
  BY <1>2, <1>3, Grouped DEF WeakEvidenceIsReviewed

-----------------------------------------------------------------------------
(* The steps.                                                               *)

\* Before the first union every node is its own group.
LEMMA NothingJoined ==
  ASSUME TypeOK, parent = [n \in Nodes |-> n], read = << >>
  PROVE  Grounded /\ JoinsAreEvidence /\ EvidenceIsJoined
<1>1. Forest /\ \A n \in Nodes : Root(n) = n
  BY NoLinks
<1>2. JoinsAreEvidence
  <2> SUFFICES ASSUME NEW n \in Nodes, NEW r \in Attached(n), NEW s \in Attached(n)
               PROVE  Linked(r, s)
    BY <1>1 DEF JoinsAreEvidence
  <2>1. CASE n \in Records
    BY <2>1, OneLink DEF Attached
  <2>2. CASE n \notin Records
    BY <2>2, OneLink DEF Attached, Shares, Linking
  <2> QED
    BY <2>1, <2>2
<1>3. EvidenceIsJoined
  BY DEF EvidenceIsJoined
<1> QED
  BY <1>1, <1>2, <1>3 DEF Forest

LEMMA InitInv == Init => IndInv
<1> SUFFICES ASSUME Init PROVE IndInv
  OBVIOUS
<1>1. TypeOK
  BY ResolverAssumption DEF Init, TypeOK
<1> QED
  BY <1>1, NothingJoined
     DEF Init, IndInv, Phases, MergeHasEvidence, IdIsStrongest, WeakEvidenceIsReviewed

LEMMA StartInv ==
  ASSUME IndInv, NEW B \in Batches, Start(B)
  PROVE  IndInv'
<1> USE DEF Start, IndInv
<1>1. B \subseteq Records
  BY ResolverAssumption
<1>2. TypeOK'
  <2>1. read' \in Seq(batch')
    BY DEF Phases
  <2>2. candidates' \subseteq [id : Weak, left : batch', right : batch']
    BY DEF Phases
  <2> QED
    BY <1>1, <2>1, <2>2 DEF TypeOK
<1>3. (parent = [n \in Nodes |-> n] /\ read = << >>)'
  BY DEF Phases
<1>4. (Grounded /\ JoinsAreEvidence /\ EvidenceIsJoined)'
  <2>1. (TypeOK /\ parent = [n \in Nodes |-> n] /\ read = << >>
         => Grounded /\ JoinsAreEvidence /\ EvidenceIsJoined)'
    BY NothingJoined, PTL
  <2> QED
    BY <1>2, <1>3, <2>1
<1>5. Phases'
  BY DEF Phases
<1> QED
  BY <1>2, <1>4, <1>5 DEF MergeHasEvidence, IdIsStrongest, WeakEvidenceIsReviewed

\* What the invariant says of groups depends on parent, and on who is in the run.
LEMMA SameGroups ==
  ASSUME parent' = parent
  PROVE  \A n : Root(n)' = Root(n)
<1>1. Path' = Path
  BY DEF Path
<1> QED
  BY <1>1 DEF Root

LEMMA SameChains ==
  ASSUME batch' = batch, evidence' = evidence
  PROVE  /\ \A r, s : Linked(r, s)' <=> Linked(r, s)
         /\ \A n : Attached(n)' = Attached(n)
         /\ \A r : Linking(r)' = Linking(r)
         /\ \A r, i : InTenant(r, i)' = InTenant(r, i)
BY DEF Linked, Shares, Attached, Linking, InTenant

LEMMA ReadInv ==
  ASSUME IndInv, NEW r \in Records, ReadRecord(r)
  PROVE  IndInv'
<1> USE DEF ReadRecord, IndInv
<1>1. read \in Seq(batch) /\ read' = Append(read, r) /\ r \in batch
  BY DEF TypeOK
<1>2. /\ Len(read') = Len(read) + 1 /\ Len(read) \in Nat
      /\ DOMAIN read' = DOMAIN read \cup {Len(read')} /\ DOMAIN read = 1..Len(read)
      /\ read'[Len(read')] = r
      /\ \A k \in DOMAIN read : read'[k] = read[k] /\ k # Len(read')
  BY <1>1
<1>3. TypeOK'
  <2>1. read' \in Seq(batch')
    BY <1>1
  <2>2. pending' \subseteq Strong
    BY DEF Linking
  <2> QED
    BY <2>1, <2>2 DEF TypeOK
<1>4. Phases'
  <2>1. read' # << >>
    BY <1>1
  <2>2. pending' = Linking(read[Len(read)])'
    BY <1>2 DEF Linking
  <2> QED
    BY <2>1, <2>2 DEF Phases
<1>5. JoinsAreEvidence'
  BY SameGroups, SameChains DEF JoinsAreEvidence
<1>6. EvidenceIsJoined'
  <2> SUFFICES ASSUME NEW k \in DOMAIN read', NEW i \in Joined(k)'
               PROVE  Root(read'[k]) = Root(InTenant(read'[k], i))
    BY SameGroups, SameChains DEF EvidenceIsJoined
  <2>1. k # Len(read')
    BY <1>2, SameChains DEF Joined
  <2>2. k \in DOMAIN read /\ read'[k] = read[k]
    BY <1>2, <2>1
  <2>3. i \in Joined(k)
    BY <2>1, <2>2, SameChains DEF Joined
  <2> QED
    BY <2>2, <2>3 DEF EvidenceIsJoined
<1>7. Grounded'
  BY DEF Grounded, Closed
<1> QED
  BY <1>3, <1>4, <1>5, <1>6, <1>7 DEF MergeHasEvidence, IdIsStrongest, WeakEvidenceIsReviewed

\* What a union joins: a record of the run, and an identifier it holds.
LEMMA LinkJoins ==
  ASSUME IndInv, NEW i \in Identifiers, Link(i)
  PROVE  LET r == read[Len(read)]
         IN /\ pc = "reading" /\ Len(read) \in DOMAIN read
            /\ r \in batch /\ r \in Nodes /\ i \in Linking(r) /\ InTenant(r, i) \in Nodes
            /\ r \in Attached(r) /\ r \in Attached(InTenant(r, i))
            /\ Forest'
            /\ \A n \in Nodes : Root(n)' = IF Root(n) = Root(InTenant(r, i)) THEN Root(r) ELSE Root(n)
<1> USE DEF Link, IndInv
<1> DEFINE r == read[Len(read)]
<1>1. pc = "reading" /\ read # << >> /\ i \in Linking(r)
  BY DEF Phases, TypeOK
<1>2. Len(read) \in DOMAIN read /\ r \in batch
  BY <1>1 DEF TypeOK
<1>3. r \in Records /\ r \in Nodes /\ InTenant(r, i) \in Nodes
  BY <1>2, NodeTypes DEF TypeOK
<1>4. r \in Attached(r) /\ r \in Attached(InTenant(r, i))
  BY <1>1, <1>2, <1>3, NodeTypes DEF Attached
<1>5. Forest /\ parent' = Union(r, InTenant(r, i))
  BY DEF Forest, TypeOK
<1> QED
  BY <1>1, <1>2, <1>3, <1>4, <1>5, UnionRoots

LEMMA LinkInv ==
  ASSUME IndInv, NEW i \in Identifiers, Link(i)
  PROVE  IndInv'
<1> USE DEF Link, IndInv
<1> DEFINE r == read[Len(read)]
           x == InTenant(r, i)
<1>1. /\ pc = "reading" /\ Len(read) \in DOMAIN read
      /\ r \in batch /\ r \in Nodes /\ i \in Linking(r) /\ x \in Nodes
      /\ r \in Attached(r) /\ r \in Attached(x)
      /\ Forest'
      /\ \A n \in Nodes : Root(n)' = IF Root(n) = Root(x) THEN Root(r) ELSE Root(n)
  BY LinkJoins
<1>2. batch' = batch /\ evidence' = evidence /\ read' = read
  OBVIOUS
<1>7. r' = r /\ x' = x
  BY <1>2, SameChains
<1> HIDE DEF x, r
<1>3. JoinsAreEvidence'
  <2> SUFFICES ASSUME NEW m \in Nodes, NEW n \in Nodes, Root(m)' = Root(n)',
                      NEW a \in Attached(m), NEW b \in Attached(n)
               PROVE  Linked(a, b)
    BY <1>2, SameChains DEF JoinsAreEvidence
  <2>1. \A c, d \in Nodes : Root(c) = Root(d) =>
          \A e \in Attached(c), f \in Attached(d) : Linked(e, f)
    BY <1>1 DEF JoinsAreEvidence
  <2>2. a \in batch /\ b \in batch
    BY DEF Attached
  <2>3. \/ Root(m) = Root(n)
        \/ Root(m) = Root(r) /\ Root(n) = Root(x)
        \/ Root(m) = Root(x) /\ Root(n) = Root(r)
    BY <1>1
  <2>4. CASE Root(m) = Root(n)
    BY <2>1, <2>4
  <2>5. CASE Root(m) = Root(r) /\ Root(n) = Root(x)
    <3>1. Linked(a, r) /\ Linked(r, b)
      BY <1>1, <2>1, <2>5
    <3> QED
      BY <1>1, <2>2, <3>1, Chains
  <2>6. CASE Root(m) = Root(x) /\ Root(n) = Root(r)
    <3>1. Linked(a, r) /\ Linked(r, b)
      BY <1>1, <2>1, <2>6
    <3> QED
      BY <1>1, <2>2, <3>1, Chains
  <2> QED
    BY <2>3, <2>4, <2>5, <2>6
<1>4. EvidenceIsJoined'
  <2> SUFFICES ASSUME NEW k \in DOMAIN read, NEW j \in Joined(k)'
               PROVE  Root(read[k])' = Root(InTenant(read[k], j))'
    BY <1>2, SameChains DEF EvidenceIsJoined
  <2>1. /\ j \in Linking(read[k]) /\ read[k] \in batch
        /\ j \in Joined(k) \/ (k = Len(read) /\ j = i)
    BY <1>2, SameChains DEF Joined, TypeOK
  <2>2. read[k] \in Nodes /\ InTenant(read[k], j) \in Nodes
    BY <2>1, NodeTypes DEF TypeOK, Linking, Identifiers
  <2>3. CASE j \in Joined(k)
    <3>1. Root(read[k]) = Root(InTenant(read[k], j))
      BY <1>1, <2>3 DEF EvidenceIsJoined
    <3>2. Root(InTenant(read[k], j))' =
            IF Root(InTenant(read[k], j)) = Root(x) THEN Root(r) ELSE Root(InTenant(read[k], j))
      BY <1>1, <1>2, <2>2, SameChains
    <3>3. Root(read[k])' = IF Root(read[k]) = Root(x) THEN Root(r) ELSE Root(read[k])
      BY <1>1, <1>2, <2>2
    <3> QED
      BY <3>1, <3>2, <3>3
  <2>4. CASE k = Len(read) /\ j = i
    <3>1. Root(r)' = Root(x)'
      BY <1>1, <1>7
    <3> QED
      BY <1>2, <2>4, <3>1, SameChains DEF r, x
  <2> QED
    BY <2>1, <2>3, <2>4
<1>5. TypeOK'
  BY <1>1 DEF TypeOK, Forest
<1>6. Phases'
  BY <1>1, <1>2, SameChains DEF Phases
<1> QED
  BY <1>1, <1>3, <1>4, <1>5, <1>6
     DEF Forest, MergeHasEvidence, IdIsStrongest, WeakEvidenceIsReviewed

LEMMA GroupInv ==
  ASSUME IndInv, Group
  PROVE  IndInv'
<1> USE DEF Group, IndInv
<1>1. AllRead /\ batch \subseteq Records /\ \A r \in batch : CanonicalId(r) \in CustomerIds
  BY Grouped, CanonicalIds
<1>2. parent' \in [Nodes -> Nodes] /\ Grounded'
  BY DEF Grounded
<1>3. candidates' \subseteq [id : Weak, left : batch', right : batch']
  BY DEF WeakLinks
<1>4. customer' \in [Records -> CustomerIds \cup {NoId}]
  BY <1>1
<1>5. TypeOK'
  BY <1>2, <1>3, <1>4 DEF TypeOK
<1>6. Phases'
  BY DEF Phases
<1> QED
  BY <1>2, <1>5, <1>6, GroupMerges, GroupNames, GroupReviews

LEMMA LoadInv ==
  ASSUME IndInv, Load
  PROVE  IndInv'
<1> USE DEF Load, IndInv
<1>1. TypeOK'
  BY DEF TypeOK
<1>2. Phases' /\ Grounded'
  BY DEF Phases, Grounded, Closed
<1> QED
  BY <1>1, <1>2 DEF MergeHasEvidence, IdIsStrongest, WeakEvidenceIsReviewed

LEMMA SameInv ==
  ASSUME IndInv, UNCHANGED vars
  PROVE  IndInv'
<1> USE DEF vars, IndInv
<1>1. TypeOK' /\ Phases' /\ Grounded'
  BY SameChains DEF TypeOK, Phases, Grounded, Closed, Linking
<1>2. pc = "reading" => (JoinsAreEvidence /\ EvidenceIsJoined)'
  <2> SUFFICES ASSUME pc = "reading" PROVE (JoinsAreEvidence /\ EvidenceIsJoined)'
    OBVIOUS
  <2>1. JoinsAreEvidence'
    BY SameGroups, SameChains DEF JoinsAreEvidence
  <2>2. EvidenceIsJoined'
    <3>1. \A k : Joined(k)' = Joined(k)
      BY DEF Joined, Linking
    <3>2. \A k, i : InTenant(read[k], i)' = InTenant(read[k], i)
      BY DEF InTenant
    <3> SUFFICES ASSUME NEW k \in DOMAIN read, NEW i \in Joined(k)'
                 PROVE  Root(read[k])' = Root(InTenant(read[k], i))'
      BY DEF EvidenceIsJoined
    <3>3. Root(read[k]) = Root(InTenant(read[k], i))
      BY <3>1 DEF EvidenceIsJoined
    <3>4. Root(read[k])' = Root(read[k])
      BY SameGroups
    <3>5. Root(InTenant(read[k], i))' = Root(InTenant(read[k], i))
      BY <3>2, SameGroups
    <3> QED
      BY <3>3, <3>4, <3>5
  <2> QED
    BY <2>1, <2>2
<1>3. MergeHasEvidence'
  BY SameChains DEF MergeHasEvidence, Bare
<1>4. IdIsStrongest'
  <2> DEFINE Named(r) == ChainTokens(r) # {} =>
               /\ customer[r] \in {evidence[r].tenant} \X ChainTokens(r)
               /\ \A i \in ChainTokens(r) : Rank[customer[r][2]] <= Rank[i]
  <2>1. \A r : ChainTokens(r)' = ChainTokens(r)
    BY SameChains DEF ChainTokens
  <2>2. IdIsStrongest <=> (pc = "resolved" => \A r \in batch : Named(r))
    BY DEF IdIsStrongest, ChainTokens
  <2>3. (IdIsStrongest <=> (pc = "resolved" => \A r \in batch : Named(r)))'
    BY DEF IdIsStrongest, ChainTokens
  <2> QED
    BY <2>1, <2>2, <2>3
<1>5. WeakEvidenceIsReviewed'
  BY DEF WeakEvidenceIsReviewed
<1> QED
  BY <1>1, <1>2, <1>3, <1>4, <1>5

LEMMA NextInv == IndInv /\ [Next]_vars => IndInv'
<1> SUFFICES ASSUME IndInv, [Next]_vars PROVE IndInv'
  OBVIOUS
<1>1. CASE \E B \in Batches : Start(B)
  BY <1>1, StartInv
<1>2. CASE \E r \in Records : ReadRecord(r)
  BY <1>2, ReadInv
<1>3. CASE \E i \in Identifiers : Link(i)
  BY <1>3, LinkInv
<1>4. CASE Group
  BY <1>4, GroupInv
<1>5. CASE Load
  BY <1>5, LoadInv
<1>6. CASE UNCHANGED vars
  BY <1>6, SameInv
<1> QED
  BY <1>1, <1>2, <1>3, <1>4, <1>5, <1>6 DEF Next

LEMMA SpecInv == Spec => []IndInv
BY InitInv, NextInv, PTL DEF Spec

-----------------------------------------------------------------------------
(* The theorems.                                                            *)

\* Every variable keeps its type; canonical ids are built from identifiers or
\* records in the tenant of their record.
THEOREM ResolverTyped == Spec => []TypeOK
<1>1. IndInv => TypeOK
  BY DEF IndInv
<1> QED
  BY <1>1, SpecInv, PTL

\* Two records get one customer only through a chain of strong identifiers, or when
\* neither has one and they share a weak one; never across tenants.
THEOREM MergesHaveEvidence == Spec => []MergeHasEvidence
<1>1. IndInv => MergeHasEvidence
  BY DEF IndInv
<1> QED
  BY <1>1, SpecInv, PTL

\* The canonical id comes from the strongest identifier of the chain, whatever the
\* order of records and unions.
THEOREM IdsAreStrongest == Spec => []IdIsStrongest
<1>1. IndInv => IdIsStrongest
  BY DEF IndInv
<1> QED
  BY <1>1, SpecInv, PTL

\* No weak evidence between two customers is lost, and none is made up.
THEOREM WeakEvidenceReachesReview == Spec => []WeakEvidenceIsReviewed
<1>1. IndInv => WeakEvidenceIsReviewed
  BY DEF IndInv
<1> QED
  BY <1>1, SpecInv, PTL

-----------------------------------------------------------------------------
(* The union-find forest is a partition whose links only ever join.         *)

ClassOf(n) == {m \in Nodes : Root(m) = Root(n)}
Classes == {ClassOf(n) : n \in Nodes}

LEMMA ClassesApart ==
  parent = [n \in Nodes |-> n] => Classes = Graph!Apart
<1> SUFFICES ASSUME parent = [n \in Nodes |-> n] PROVE Classes = Graph!Apart
  OBVIOUS
<1>1. \A n \in Nodes : ClassOf(n) = {n}
  BY NoLinks DEF ClassOf
<1> QED
  BY <1>1 DEF Classes, Graph!Apart

\* A union of two nodes joins their classes and leaves the others.
LEMMA LinkJoinsClasses ==
  ASSUME NEW r \in Nodes, NEW x \in Nodes,
         \A n \in Nodes : Root(n)' = IF Root(n) = Root(x) THEN Root(r) ELSE Root(n)
  PROVE  Classes' = (Classes \ {ClassOf(r), ClassOf(x)}) \cup {ClassOf(r) \cup ClassOf(x)}
<1> DEFINE both == ClassOf(r) \cup ClassOf(x)
           rest == Classes \ {ClassOf(r), ClassOf(x)}
           apart(n) == Root(n) # Root(r) /\ Root(n) # Root(x)
           next(n) == {m \in Nodes : Root(m)' = Root(n)'}
<1>1. \A n \in Nodes : ~apart(n) => next(n) = both
  BY DEF ClassOf
<1>2. \A n \in Nodes : apart(n) => next(n) = ClassOf(n)
  BY DEF ClassOf
<1>3. \A n \in Nodes : n \in ClassOf(n)
  BY DEF ClassOf
<1>4. \A n \in Nodes : apart(n) <=> ClassOf(n) \in rest
  <2> SUFFICES ASSUME NEW n \in Nodes PROVE apart(n) <=> ClassOf(n) \in rest
    OBVIOUS
  <2>1. ClassOf(n) \in Classes
    BY DEF Classes
  <2>2. ASSUME NEW m \in {r, x} PROVE Root(n) = Root(m) <=> ClassOf(n) = ClassOf(m)
    BY <1>3 DEF ClassOf
  <2> QED
    BY <2>1, <2>2
<1>5. Classes' = {next(n) : n \in Nodes}
  BY DEF Classes, ClassOf
<1>6. ASSUME NEW g \in rest PROVE g \in Classes'
  <2>1. PICK n \in Nodes : g = ClassOf(n)
    BY DEF Classes
  <2> QED
    BY <1>2, <1>4, <1>5, <2>1
<1>7. both \in Classes'
  BY <1>1, <1>5
<1>8. ASSUME NEW g \in Classes' PROVE g \in rest \cup {both}
  <2>1. PICK n \in Nodes : g = next(n)
    BY <1>5
  <2> QED
    BY <1>1, <1>2, <1>4, <2>1
<1> QED
  BY <1>6, <1>7, <1>8

LEMMA GraphStep == IndInv /\ [Next]_vars => [Graph!Next]_Classes
<1> SUFFICES ASSUME IndInv, [Next]_vars PROVE [Graph!Next]_Classes
  OBVIOUS
<1>1. ASSUME parent' = parent PROVE Classes' = Classes
  BY <1>1, SameGroups DEF Classes, ClassOf
<1>2. CASE \E i \in Identifiers : Link(i)
  <2>1. PICK i \in Identifiers : Link(i)
    BY <1>2
  <2>2. PICK r \in Nodes, x \in Nodes :
          \A n \in Nodes : Root(n)' = IF Root(n) = Root(x) THEN Root(r) ELSE Root(n)
    BY <2>1, LinkJoins
  <2>3. ASSUME NEW n \in Nodes PROVE Graph!GroupOf(n) = ClassOf(n)
    <3>1. ClassOf(n) \in Classes /\ n \in ClassOf(n)
      BY DEF Classes, ClassOf
    <3>2. \A g \in Classes : n \in g => g = ClassOf(n)
      BY DEF Classes, ClassOf
    <3> QED
      BY <3>1, <3>2 DEF Graph!GroupOf, Classes, ClassOf
  <2>4. Graph!Join(r, x)
    <3>1. Classes' = (Classes \ {Graph!GroupOf(r), Graph!GroupOf(x)})
                      \cup {Graph!GroupOf(r) \cup Graph!GroupOf(x)}
      BY <2>2, <2>3, LinkJoinsClasses
    <3> QED
      BY <3>1 DEF Graph!Join, Classes, ClassOf
  <2> QED
    BY <2>4 DEF Graph!Next
<1>3. CASE Group
  <2>1. (parent = [n \in Nodes |-> n])'
    BY <1>3 DEF Group
  <2>2. (parent = [n \in Nodes |-> n] => Classes = Graph!Apart)'
    BY ClassesApart, PTL
  <2> QED
    BY <2>1, <2>2 DEF Graph!Next, Graph!Forget, Classes, ClassOf
<1>4. CASE \E B \in Batches : Start(B)
  BY <1>1, <1>4 DEF Start
<1>5. CASE \E r \in Records : ReadRecord(r)
  BY <1>1, <1>5 DEF ReadRecord
<1>6. CASE Load
  BY <1>1, <1>6 DEF Load
<1>7. CASE UNCHANGED vars
  BY <1>1, <1>7 DEF vars
<1> QED
  BY <1>2, <1>3, <1>4, <1>5, <1>6, <1>7 DEF Next

\* UnionFind, with its path compression, implements the partition that
\* IdentityPartition describes.
THEOREM ResolverImplementsPartition == Spec => GraphSpec
<1>1. Init => Graph!Init
  BY ClassesApart DEF Init, Graph!Init, Classes, ClassOf
<1>2. IndInv /\ [Next]_vars => [Graph!Next]_Classes
  BY GraphStep
<1> QED
  BY <1>1, <1>2, SpecInv, PTL DEF Spec, GraphSpec, Graph!Spec, Classes, ClassOf
===============================================================================
