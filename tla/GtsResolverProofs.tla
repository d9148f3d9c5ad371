-------------------------- MODULE GtsResolverProofs --------------------------
(***************************************************************************)
(* What is proved of the resolver, for every document and registry, in     *)
(* every mode and with every depth limit.                                  *)
(*                                                                         *)
(* A resolution ends with flags; what they stand for was seen long before, *)
(* somewhere on a path that is gone.  So the invariant keeps the path: the *)
(* stack leads through what each position mentions (Mentions), the marks   *)
(* are the keys of the targets on it, and a target whose key is met again  *)
(* is one that is reached from itself.  That is where cycle_found comes    *)
(* from (FlagsHold).  And every position on the path is Known: it belongs  *)
(* to the host or to a document that the host leads to, so that whatever   *)
(* reference a fragment keeps names a document bundled with it (LeftsHold).*)
(*                                                                         *)
(* From is the least set closed under the edges: FromClosed, FromLeast.    *)
(* It is computed in as many rounds as the graph has nodes.  That this is  *)
(* enough rests on a count (WalkGrows); whatever is proved by induction    *)
(* here is proved by the least number for which it fails (LeastNatural).   *)
(***************************************************************************)
EXTENDS GtsSchemaResolver, FiniteSetTheorems, SequenceTheorems, WellFoundedInduction, TLAPS

-----------------------------------------------------------------------------
(* A set of naturals that is not empty has a least element. *)
LEMMA LeastNatural ==
    ASSUME NEW T \in SUBSET Nat, T # {}
    PROVE  \E least \in T : \A k \in T : least <= k
<1>1. \E x \in T : \A y \in T : ~ (<<y, x>> \in OpToRel(<, Nat))
  BY WFMin, NatLessThanWellFounded
<1>2. PICK x \in T : \A y \in T : ~ (<<y, x>> \in OpToRel(<, Nat))
  BY <1>1
<1>3. \A y \in T : y < x => <<y, x>> \in OpToRel(<, Nat)
  BY DEF OpToRel
<1>4. \A y \in T : ~ (y < x)
  BY <1>2, <1>3, Zenon
<1> QED
  BY <1>4

-----------------------------------------------------------------------------
(* What is reached in k steps, and how From computes it.                   *)
Onwards(edges, S) == S \cup UNION {edges[m] : m \in S}

IsWalk(After, n, edges, K) ==
    After = [k \in 0 .. K |-> IF k = 0 THEN {n} ELSE Onwards(edges, After[k - 1])]

LEMMA WalkExists ==
    ASSUME NEW n, NEW edges, NEW N \in Nat
    PROVE  \E After : IsWalk(After, n, edges, N)
<1> DEFINE Fails == {K \in Nat : ~ \E After : IsWalk(After, n, edges, K)}
<1> SUFFICES ASSUME Fails # {} PROVE FALSE
  OBVIOUS
<1>1. PICK K \in Fails : \A k \in Fails : K <= k
  BY LeastNatural
<1>2. CASE K = 0
  <2>1. IsWalk([k \in 0 .. 0 |-> {n}], n, edges, 0)
    BY DEF IsWalk
  <2> QED
    BY <1>1, <1>2, <2>1
<1>3. CASE K # 0
  <2>1. K \in Nat /\ K - 1 \in Nat /\ K - 1 \notin Fails
    BY <1>1, <1>3
  <2>2. PICK Before : IsWalk(Before, n, edges, K - 1)
    BY <2>1
  <2> DEFINE After == [k \in 0 .. K |-> IF k < K THEN Before[k] ELSE Onwards(edges, Before[K - 1])]
  <2>3. ASSUME NEW k \in 0 .. K
        PROVE  After[k] = IF k = 0 THEN {n} ELSE Onwards(edges, After[k - 1])
    <3>1. CASE k < K
      <4>1. k \in 0 .. K - 1 /\ (k # 0 => k - 1 \in 0 .. K /\ k - 1 < K)
        BY <2>1, <3>1
      <4>2. After[k] = Before[k] /\ (k # 0 => After[k - 1] = Before[k - 1])
        BY <3>1, <4>1
      <4>3. Before[k] = IF k = 0 THEN {n} ELSE Onwards(edges, Before[k - 1])
        BY <2>2, <4>1 DEF IsWalk
      <4> HIDE DEF After
      <4> QED
        BY <4>2, <4>3
    <3>2. CASE k = K
      <4>1. k - 1 \in 0 .. K /\ k - 1 < K /\ k # 0
        BY <2>1, <1>3, <3>2
      <4> QED
        BY <3>2, <4>1
    <3> QED
      BY <2>1, <3>1, <3>2
  <2>4. IsWalk(After, n, edges, K)
    <3>1. After = [k \in 0 .. K |-> IF k = 0 THEN {n} ELSE Onwards(edges, After[k - 1])]
      BY <2>3
    <3> HIDE DEF After
    <3> QED
      BY <3>1 DEF IsWalk
  <2> HIDE DEF After
  <2> QED
    BY <1>1, <2>4
<1> QED
  BY <1>2, <1>3

LEMMA FromWalk ==
    ASSUME NEW n, NEW edges, Cardinality(DOMAIN edges) \in Nat
    PROVE  \E After : /\ IsWalk(After, n, edges, Cardinality(DOMAIN edges))
                      /\ From(n, edges) = After[Cardinality(DOMAIN edges)]
<1>1. \E After : IsWalk(After, n, edges, Cardinality(DOMAIN edges))
  BY WalkExists
<1>2. From(n, edges) =
        (CHOOSE After : IsWalk(After, n, edges, Cardinality(DOMAIN edges)))[Cardinality(DOMAIN edges)]
  BY DEF From, IsWalk, Onwards
<1> QED
  BY <1>1, <1>2, Zenon

IsGraph(edges, S) == IsFiniteSet(S) /\ edges \in [S -> SUBSET S]
Closed(edges, T) == \A m \in T : edges[m] \subseteq T

(* A walk of k steps has met more than k positions, or all there is to meet. *)
LEMMA WalkGrows ==
    ASSUME NEW S, NEW edges, IsGraph(edges, S), NEW n \in S,
           NEW After, NEW N \in Nat, IsWalk(After, n, edges, N), NEW k \in 0 .. N
    PROVE  /\ n \in After[k] /\ After[k] \in SUBSET S
           /\ Closed(edges, After[k]) \/ Cardinality(After[k]) > k
<1> DEFINE Met(j) == /\ n \in After[j] /\ After[j] \in SUBSET S
                     /\ Closed(edges, After[j]) \/ Cardinality(After[j]) > j
           Fails == {j \in Nat : j <= N /\ ~ Met(j)}
<1> SUFFICES ASSUME Fails # {} PROVE FALSE
  OBVIOUS
<1>1. PICK j \in Fails : \A i \in Fails : j <= i
  BY LeastNatural
<1>2. CASE j = 0
  <2>1. After[0] = {n}
    BY <1>1, <1>2 DEF IsWalk
  <2>2. Cardinality({n}) = 1
    BY FS_Singleton, Zenon
  <2>3. Met(0)
    BY <2>1, <2>2
  <2> HIDE DEF Met
  <2> QED
    BY <1>1, <1>2, <2>3
<1>3. CASE j # 0
  <2>1. j - 1 \in 0 .. N /\ j \in 0 .. N /\ j - 1 \notin Fails
    BY <1>1, <1>3
  <2>2. Met(j - 1)
    BY <2>1
  <2>3. After[j] = Onwards(edges, After[j - 1])
    BY <2>1, <1>3 DEF IsWalk
  <2>4. After[j] \in SUBSET S /\ After[j - 1] \subseteq After[j] /\ n \in After[j]
    BY <2>2, <2>3 DEF IsGraph, Onwards
  <2>5. CASE Closed(edges, After[j - 1])
    <3>1. After[j] = After[j - 1]
      BY <2>3, <2>5 DEF Closed, Onwards
    <3> QED
      BY <1>1, <2>4, <2>5, <3>1
  <2>6. CASE ~ Closed(edges, After[j - 1])
    <3>1. After[j] # After[j - 1]
      BY <2>3, <2>6 DEF Closed, Onwards
    <3>2. IsFiniteSet(After[j]) /\ IsFiniteSet(After[j - 1])
      BY <2>2, <2>4, FS_Subset DEF IsGraph
    <3>3. Cardinality(After[j - 1]) < Cardinality(After[j])
      <4>1. /\ Cardinality(After[j - 1]) <= Cardinality(After[j])
            /\ Cardinality(After[j]) = Cardinality(After[j - 1]) => After[j] = After[j - 1]
        BY <2>4, <3>2, FS_Subset
      <4> QED
        BY <3>1, <3>2, <4>1, FS_CardinalityType
    <3>4. Cardinality(After[j - 1]) > j - 1
      BY <2>2, <2>6
    <3>5. Cardinality(After[j]) > j
      BY <2>1, <3>2, <3>3, <3>4, FS_CardinalityType
    <3> QED
      BY <1>1, <2>4, <3>5
  <2> QED
    BY <2>5, <2>6
<1> QED
  BY <1>2, <1>3

(* From reaches what it starts from, and all that an edge leads to. *)
LEMMA FromClosed ==
    ASSUME NEW S, NEW edges, IsGraph(edges, S), NEW n \in S
    PROVE  /\ n \in From(n, edges)
           /\ From(n, edges) \subseteq S
           /\ \A m \in From(n, edges) : edges[m] \subseteq From(n, edges)
<1> DEFINE N == Cardinality(DOMAIN edges)
<1>1. DOMAIN edges = S /\ N \in Nat
  BY FS_CardinalityType DEF IsGraph
<1>2. PICK After : IsWalk(After, n, edges, N) /\ From(n, edges) = After[N]
  BY <1>1, FromWalk
<1>3. /\ n \in After[N] /\ After[N] \in SUBSET S
      /\ Closed(edges, After[N]) \/ Cardinality(After[N]) > N
  BY <1>1, <1>2, WalkGrows
<1>4. IsFiniteSet(After[N]) /\ Cardinality(After[N]) <= N
  BY <1>1, <1>3, FS_Subset DEF IsGraph
<1>5. Closed(edges, After[N])
  BY <1>1, <1>3, <1>4, FS_CardinalityType
<1> QED
  BY <1>2, <1>3, <1>5 DEF Closed

(* ... and nothing else. *)
LEMMA FromLeast ==
    ASSUME NEW S, NEW edges, IsGraph(edges, S), NEW n \in S,
           NEW T, n \in T, \A m \in T \cap S : edges[m] \subseteq T
    PROVE  From(n, edges) \subseteq T
<1> DEFINE N == Cardinality(DOMAIN edges)
<1>1. N \in Nat /\ DOMAIN edges = S
  BY FS_CardinalityType DEF IsGraph
<1>2. PICK After : IsWalk(After, n, edges, N) /\ From(n, edges) = After[N]
  BY <1>1, FromWalk
<1> HIDE DEF N
<1> DEFINE Fails == {j \in Nat : j <= N /\ ~ (After[j] \subseteq T)}
<1> SUFFICES ASSUME Fails # {} PROVE FALSE
  BY <1>1, <1>2
<1>3. PICK j \in Fails : \A i \in Fails : j <= i
  BY LeastNatural
<1>4. CASE j = 0
  <2>1. After[0] = {n}
    BY <1>2, <1>3, <1>4 DEF IsWalk
  <2> QED
    BY <1>3, <1>4, <2>1
<1>5. CASE j # 0
  <2>1. j - 1 \in 0 .. N /\ j \in 0 .. N /\ j - 1 \notin Fails
    BY <1>1, <1>3, <1>5
  <2>2. After[j] = Onwards(edges, After[j - 1]) /\ After[j - 1] \subseteq T
    <3>1. After[j] = Onwards(edges, After[j - 1])
      BY <1>2, <1>5, <2>1 DEF IsWalk
    <3>2. After[j - 1] \subseteq T
      BY <1>1, <2>1
    <3> QED
      BY <3>1, <3>2
  <2>3. After[j - 1] \subseteq S
    BY <1>1, <1>2, <2>1, WalkGrows
  <2>4. After[j] \subseteq T
    BY <2>2, <2>3 DEF Onwards
  <2> QED
    BY <1>3, <2>4
<1> QED
  BY <1>4, <1>5

-----------------------------------------------------------------------------
(* Positions of the host and of documents bundled with it, if it can be.   *)
Known(n) ==
    /\ n \in Nodes
    /\ \/ Node(n).root = Host
       \/ \E t \in DOMAIN case.stored :
             /\ Node(n).root = case.stored[t]
             /\ Uri(Host) # Nowhere => t \in Resources

FrameHolds(f) ==
    /\ Known(f.node)
    /\ \A i \in DOMAIN f.todo : f.todo[i] \in SubsOf(f.node)
    /\ f.at \in {"target", "inlined"} => Ref(f.node) # Nowhere

(* A frame waits for its target or for one of its subschemas. *)
Follows(f, n) ==
    \/ f.at = "target" /\ Ref(f.node) # Nowhere /\ n = Target(f.node)
    \/ f.at = "subs" /\ n \in SubsOf(f.node)

Targeted(s) == {j \in 1 .. Len(s) : s[j].at = "target"}

(* The stack is a path through what the positions mention, and no target   *)
(* is on it twice.                                                         *)
Path(s) ==
    /\ s \in Seq(Frame)
    /\ s # <<>> => s[1].node = case.fragment /\ s[Len(s)].at # "target"
    /\ \A j \in 1 .. Len(s) : FrameHolds(s[j])
    /\ \A j \in 1 .. Len(s) - 1 : Follows(s[j], s[j + 1].node)
    /\ \A j, k \in 1 .. Len(s) : j <= k => s[k].node \in From(s[j].node, Mentions)
    /\ \A j, k \in Targeted(s) : Key(s[j].node) = Key(s[k].node) => j = k

Marks(v, s) ==
    /\ v = {Key(s[j].node) : j \in Targeted(s)}
    /\ IsFiniteSet(v) /\ Cardinality(v) <= MaxDepth

Lefts(s) == UNION {s[j].left : j \in 1 .. Len(s)}

Bundled(ref) == ~ IsLocal(ref) /\ needs_bundle /\ ref.id \in Resources

FlagsHold ==
    /\ {contextual, cycle_found, needs_bundle, unresolved, too_deep} \subseteq BOOLEAN
    /\ ~ ResolvesHost => mode = "partial"
    /\ contextual => ~ ResolvesHost /\ Uri(Host) # Nowhere /\ ~ cycle_found
    /\ needs_bundle => Uri(Host) # Nowhere
    /\ cycle_found => Recursive(Mentioned, Mentions)
    /\ unresolved => Dangling(Mentioned) \/ too_deep

(* What is left when nothing is held against the result so far. *)
LeftsHold ==
    ~ cycle_found /\ ~ unresolved =>
        /\ mode = "full" => Lefts(stack) \cup result = {}
        /\ ~ ResolvesHost /\ PlainPointers =>
              \A ref \in Lefts(stack) \cup result : Bundled(ref)

ResolverInv ==
    /\ IsCase(case) /\ mode \in Modes
    /\ moved \subseteq Nodes /\ result \subseteq Reference
    /\ Path(stack)
    /\ Marks(visited, stack)
    /\ FlagsHold
    /\ LeftsHold

-----------------------------------------------------------------------------
(* Documents, what they mention and the resources they lead to.            *)

LEMMA PositionTyped ==
    ASSUME IsCase(case), NEW n \in Nodes
    PROVE  /\ Node(n) \in Position
           /\ Node(n).root \in Nodes
           /\ Ref(n) \in Reference \cup {Nowhere}
           /\ SubsOf(n) \subseteq Nodes
           /\ Uri(n) \in TypeIds \cup {Nowhere}
<1>1. Node(n) \in Position
  BY DEF IsCase, Node
<1>2. Node(n).subs \in Seq(Nodes)
  BY <1>1 DEF Position
<1>3. SubsOf(n) = Range(Node(n).subs)
  BY DEF SubsOf, SubsIn, Node
<1>4. \A k \in 1 .. Len(Node(n).subs) : Node(n).subs[k] \in Nodes
  BY <1>2, ElementOfSeq
<1>5. DOMAIN Node(n).subs = 1 .. Len(Node(n).subs)
  BY <1>2, LenProperties
<1>6. SubsOf(n) \subseteq Nodes
  BY <1>3, <1>4, <1>5 DEF Range
<1>7. Node(n).root \in Nodes /\ Ref(n) \in Reference \cup {Nowhere}
  BY <1>1 DEF Position, Ref
<1>8. Uri(n) \in TypeIds \cup {Nowhere}
  BY DEF IsCase, Uri, Node
<1> QED
  BY <1>1, <1>6, <1>7, <1>8

LEMMA SubsGraph ==
    ASSUME IsCase(case)
    PROVE  IsGraph(SubsIn(case), Nodes)
<1>1. \A n \in Nodes : SubsIn(case)[n] \subseteq Nodes
  BY PositionTyped DEF SubsOf
<1> QED
  BY <1>1, ResolverAssumption DEF IsGraph, SubsIn

(* A document is the tree below its root. *)
LEMMA DocumentTree ==
    ASSUME IsCase(case), NEW n \in Nodes
    PROVE  /\ n \in From(Node(n).root, SubsIn(case))
           /\ Node(Node(n).root).root = Node(n).root
           /\ \A s \in SubsOf(n) : s \in Nodes /\ Node(s).root = Node(n).root
           /\ \A m \in From(n, SubsIn(case)) : m \in Nodes /\ Node(m).root = Node(n).root
<1> DEFINE root == Node(n).root
           Document == {m \in Nodes : Node(m).root = root}
<1>1. root \in Nodes
  BY PositionTyped
<1>2. From(root, SubsIn(case)) = Document
  BY DEF IsCase, Node
<1>3. /\ root \in Document
      /\ \A m \in Document : SubsIn(case)[m] \subseteq Document
  BY <1>1, <1>2, SubsGraph, FromClosed
<1>4. From(n, SubsIn(case)) \subseteq Document
  BY <1>3, SubsGraph, FromLeast
<1> QED
  BY <1>2, <1>3, <1>4 DEF SubsOf

LEMMA HostIsRoot ==
    ASSUME IsCase(case)
    PROVE  Host \in Nodes /\ Node(Host).root = Host /\ Uri(Host) = case.uri[Host]
<1>1. case.fragment \in Nodes /\ Node(case.fragment).root = Host
  BY DEF IsCase, Node
<1> QED
  BY <1>1, DocumentTree, ResolverAssumption DEF Uri

LEMMA TargetTyped ==
    ASSUME IsCase(case), NEW n \in Nodes, Ref(n) # Nowhere
    PROVE  /\ Target(n) \in Nodes \cup {Nowhere}
           /\ Target(n) # Nowhere =>
                 \/ Node(Target(n)).root = Node(n).root
                 \/ /\ Ref(n).kind = "gts" /\ Ref(n).id \in DOMAIN case.stored
                    /\ Node(Target(n)).root = case.stored[Ref(n).id]
<1>1. Ref(n) \in Reference
  BY PositionTyped
<1>2. CASE Ref(n).kind = "local"
  <2>1. Ref(n).pointer \in Nodes \cup {Nowhere}
    BY <1>1, <1>2 DEF Reference
  <2> QED
    BY <1>2, <2>1 DEF Target, Locate
<1>3. CASE Ref(n).kind # "local"
  <2>1. Ref(n).kind = "gts" /\ Ref(n).pointer \in Nodes \cup {"whole", Nowhere}
    BY <1>1, <1>3 DEF Reference
  <2>2. \A t \in DOMAIN case.stored : case.stored[t] \in Nodes /\ Node(case.stored[t]).root = case.stored[t]
    BY DEF IsCase, Node
  <2> QED
    BY <1>3, <2>1, <2>2 DEF Target, Locate
<1> QED
  BY <1>2, <1>3

LEMMA MentionsGraph ==
    ASSUME IsCase(case)
    PROVE  IsGraph(Mentions, Nodes)
<1>1. \A n \in Nodes : TargetsOf(n) \subseteq Nodes /\ SubsOf(n) \subseteq Nodes
  BY TargetTyped, PositionTyped DEF TargetsOf
<1> QED
  BY <1>1, ResolverAssumption DEF IsGraph, Mentions

LEMMA ReferredTyped ==
    ASSUME IsCase(case), NEW n \in Nodes
    PROVE  /\ ReferredBy(Node(n).root) \subseteq TypeIds
           /\ Ref(n) # Nowhere /\ Ref(n).kind = "gts" => Ref(n).id \in ReferredBy(Node(n).root)
<1> DEFINE root == Node(n).root
           refs == {Ref(m) : m \in From(root, SubsIn(case))} \ {Nowhere}
<1>1. ReferredBy(root) = {ref.id : ref \in {r \in refs : r.kind = "gts"}}
  BY DEF ReferredBy, TypesIn, Ref, Node
<1>2. n \in From(root, SubsIn(case)) /\ From(root, SubsIn(case)) \subseteq Nodes
  BY DocumentTree, PositionTyped, SubsGraph, FromClosed
<1>3. refs \subseteq Reference
  BY <1>2, PositionTyped
<1>4. \A ref \in refs : ref.kind = "gts" => ref.id \in TypeIds
  BY <1>3 DEF Reference
<1> HIDE DEF root
<1> QED
  BY <1>1, <1>2, <1>4 DEF root

LeadsTo == [id \in TypeIds |-> IF id \in DOMAIN case.stored \cup {Uri(Host)}
                              THEN ReferredBy(Named(id)) ELSE {}]

LEMMA ResourceGraph ==
    ASSUME IsCase(case)
    PROVE  IsGraph(LeadsTo, TypeIds) /\ Resources = From(Uri(Host), LeadsTo)
<1>1. ASSUME NEW id \in TypeIds, id \in DOMAIN case.stored \cup {Uri(Host)}
      PROVE  ReferredBy(Named(id)) \subseteq TypeIds
  <2>1. Named(id) \in Nodes /\ Node(Named(id)).root = Named(id)
    BY <1>1, HostIsRoot DEF Named, IsCase, Node
  <2> QED
    BY <2>1, ReferredTyped
<1>2. LeadsTo \in [TypeIds -> SUBSET TypeIds]
  BY <1>1 DEF LeadsTo
<1> QED
  BY <1>2, ResolverAssumption DEF IsGraph, Resources, LeadsTo

(* A known position is in a bundled document, as all that it refers to is. *)
LEMMA KnownBundled ==
    ASSUME IsCase(case), NEW n, Known(n), Uri(Host) # Nowhere
    PROVE  /\ Uri(n) \in Resources
           /\ Ref(n) # Nowhere /\ Ref(n).kind = "gts" => Ref(n).id \in Resources
<1>1. Uri(Host) \in TypeIds
  BY HostIsRoot, PositionTyped
<1>2. /\ Uri(Host) \in Resources
      /\ \A id \in Resources : id \in TypeIds /\ LeadsTo[id] \subseteq Resources
  BY <1>1, ResourceGraph, FromClosed
<1>3. CASE Node(n).root = Host
  <2>1. Uri(n) = Uri(Host)
    BY <1>3, HostIsRoot DEF Uri
  <2>2. LeadsTo[Uri(Host)] = ReferredBy(Host)
    BY <1>1 DEF LeadsTo, Named
  <2> QED
    BY <1>2, <1>3, <2>1, <2>2, ReferredTyped DEF Known
<1>4. ASSUME NEW t \in DOMAIN case.stored, Node(n).root = case.stored[t], t \in Resources
      PROVE  /\ Uri(n) \in Resources
             /\ Ref(n) # Nowhere /\ Ref(n).kind = "gts" => Ref(n).id \in Resources
  <2>1. Uri(n) = t
    BY <1>4 DEF Uri, IsCase, Node
  <2>2. LeadsTo[t] = ReferredBy(Named(t))
    BY <1>2, <1>4 DEF LeadsTo
  <2>3. ReferredBy(Named(t)) = ReferredBy(Node(n).root)
    <3>1. CASE t = Uri(Host)
      BY <1>4, <3>1, HostIsRoot DEF Named, ReferredBy, IsCase, Node
    <3>2. CASE t # Uri(Host)
      BY <1>4, <3>2 DEF Named
    <3> QED
      BY <3>1, <3>2
  <2> QED
    BY <1>2, <1>4, <2>1, <2>2, <2>3, ReferredTyped DEF Known
<1> QED
  BY <1>3, <1>4 DEF Known

(* The positions that a known one mentions are known. *)
LEMMA KnownMentions ==
    ASSUME IsCase(case), NEW n, Known(n)
    PROVE  /\ \A s \in SubsOf(n) : Known(s) /\ s \in Mentions[n]
           /\ Ref(n) # Nowhere /\ Target(n) # Nowhere => Known(Target(n)) /\ Target(n) \in Mentions[n]
<1>1. n \in Nodes
  BY DEF Known
<1>2. \A s \in SubsOf(n) : Known(s) /\ s \in Mentions[n]
  <2>1. \A s \in SubsOf(n) : s \in Nodes /\ Node(s).root = Node(n).root
    BY <1>1, DocumentTree
  <2> QED
    BY <1>1, <2>1 DEF Known, Mentions
<1>3. ASSUME Ref(n) # Nowhere, Target(n) # Nowhere
      PROVE  Known(Target(n)) /\ Target(n) \in Mentions[n]
  <2>1. Target(n) \in Nodes
    BY <1>1, <1>3, TargetTyped
  <2>2. Target(n) \in Mentions[n]
    BY <1>1, <1>3 DEF Mentions, TargetsOf
  <2>3. CASE Node(Target(n)).root = Node(n).root
    BY <2>1, <2>2, <2>3 DEF Known
  <2>4. CASE /\ Ref(n).kind = "gts" /\ Ref(n).id \in DOMAIN case.stored
             /\ Node(Target(n)).root = case.stored[Ref(n).id]
    <3>1. Uri(Host) # Nowhere => Ref(n).id \in Resources
      BY <1>3, <2>4, KnownBundled
    <3> QED
      BY <2>1, <2>2, <2>4, <3>1 DEF Known
  <2> QED
    BY <1>1, <1>3, <2>1, <2>3, <2>4, TargetTyped
<1> QED
  BY <1>2, <1>3

(* What a position copied as it is refers to. *)
LEMMA AuthoredTyped ==
    ASSUME IsCase(case), NEW n, Known(n)
    PROVE  /\ AsAuthored(n) \subseteq Reference
           /\ Below(n) \subseteq Nodes
           /\ \A ref \in AsAuthored(n) :
                 \E m \in From(n, SubsIn(case)) : Known(m) /\ ref = Ref(m) /\ Ref(m) # Nowhere
<1>1. n \in Nodes
  BY DEF Known
<1>2. \A m \in From(n, SubsIn(case)) : m \in Nodes /\ Node(m).root = Node(n).root
  BY <1>1, DocumentTree
<1>3. \A m \in From(n, SubsIn(case)) : Known(m)
  BY <1>2 DEF Known
<1>4. AsAuthored(n) = {Ref(m) : m \in From(n, SubsIn(case))} \ {Nowhere}
  BY DEF AsAuthored, Within
<1>5. Below(n) \subseteq Nodes
  <2>1. \A s \in SubsOf(n) : s \in Nodes
    BY <1>1, PositionTyped
  <2>2. \A s \in SubsOf(n) : From(s, SubsIn(case)) \subseteq Nodes
    BY <2>1, DocumentTree
  <2> QED
    BY <2>2 DEF Below, Within
<1>6. AsAuthored(n) \subseteq Reference
  BY <1>2, <1>4, PositionTyped
<1> QED
  BY <1>3, <1>4, <1>5, <1>6

-----------------------------------------------------------------------------
(* How the stack changes.                                                  *)

(* t is what is left of s up to a frame, which may have changed.           *)
IsCut(t, s, f) ==
    /\ t \in Seq(Frame) /\ t # <<>> /\ Len(t) <= Len(s)
    /\ \A j \in 1 .. Len(t) - 1 : t[j] = s[j]
    /\ t[Len(t)] = f
    /\ f.node = s[Len(t)].node /\ f.at # "target"

(* t is s with a frame on top of one that waits for it. *)
IsPush(t, s, f, n) ==
    /\ t \in Seq(Frame) /\ s # <<>> /\ Len(t) = Len(s) + 1
    /\ \A j \in 1 .. Len(s) - 1 : t[j] = s[j]
    /\ t[Len(s)] = f /\ t[Len(s) + 1] = Entered(n)
    /\ f.node = s[Len(s)].node /\ f.left = s[Len(s)].left

LEMMA EnteredHolds ==
    ASSUME NEW n, Known(n)
    PROVE  Entered(n) \in Frame /\ FrameHolds(Entered(n))
<1>1. <<>> \in Seq(Nodes) /\ n \in Nodes
  BY EmptySeq DEF Known
<1>2. DOMAIN <<>> = {}
  OBVIOUS
<1> QED
  BY <1>1, <1>2 DEF Entered, Frame, FrameHolds

LEMMA StartHolds ==
    ASSUME IsCase(case), NEW s, s = <<Entered(case.fragment)>>
    PROVE  Path(s) /\ Marks({}, s) /\ Lefts(s) = {}
<1>1. case.fragment \in Nodes /\ Known(case.fragment)
  BY DEF Known, IsCase, Node
<1>2. s \in Seq(Frame) /\ Len(s) = 1 /\ s[1] = Entered(case.fragment) /\ s # <<>>
  BY <1>1, EnteredHolds
<1>3. Targeted(s) = {}
  BY <1>2 DEF Targeted, Entered
<1>4. s[1].node \in From(s[1].node, Mentions)
  BY <1>1, <1>2, MentionsGraph, FromClosed DEF Entered
<1>5. \A j, k \in 1 .. Len(s) : j = 1 /\ k = 1
  BY <1>2
<1>6. Path(s)
  <2>1. s[1].node = case.fragment /\ s[Len(s)].at # "target"
    BY <1>2 DEF Entered
  <2>2. \A j \in 1 .. Len(s) : FrameHolds(s[j])
    BY <1>1, <1>2, <1>5, EnteredHolds
  <2>3. \A j \in 1 .. Len(s) - 1 : Follows(s[j], s[j + 1].node)
    BY <1>2
  <2>4. \A j, k \in 1 .. Len(s) : j <= k => s[k].node \in From(s[j].node, Mentions)
    BY <1>4, <1>5
  <2> QED
    BY <1>2, <1>3, <2>1, <2>2, <2>3, <2>4 DEF Path
<1>7. Marks({}, s)
  BY <1>3, FS_EmptySet, ResolverAssumption DEF Marks
<1>8. Lefts(s) = {}
  BY <1>2 DEF Lefts, Entered
<1> QED
  BY <1>6, <1>7, <1>8

LEMMA CutHolds ==
    ASSUME NEW s, Path(s), NEW f, FrameHolds(f), NEW t, IsCut(t, s, f)
    PROVE  /\ Path(t)
           /\ Targeted(t) = Targeted(s) \cap 1 .. Len(t) - 1
           /\ Lefts(t) \subseteq Lefts(s) \cup f.left
<1>1. Len(t) \in Nat \ {0} /\ Len(s) \in Nat
  BY LenProperties, EmptySeq DEF IsCut, Path
<1>2. \A j \in 1 .. Len(t) : j \in 1 .. Len(s) /\ t[j].node = s[j].node
  BY <1>1 DEF IsCut
<1>3. Targeted(t) = Targeted(s) \cap 1 .. Len(t) - 1
  BY <1>1, <1>2 DEF Targeted, IsCut
<1>4. \A j \in 1 .. Len(t) : FrameHolds(t[j])
  BY <1>1, <1>2 DEF IsCut, Path
<1>5. \A j \in 1 .. Len(t) - 1 : Follows(t[j], t[j + 1].node)
  <2> SUFFICES ASSUME NEW j \in 1 .. Len(t) - 1
               PROVE  Follows(t[j], t[j + 1].node)
    OBVIOUS
  <2>1. t[j] = s[j] /\ j + 1 \in 1 .. Len(t) /\ j \in 1 .. Len(s) - 1
    BY <1>1 DEF IsCut
  <2> QED
    BY <1>2, <2>1 DEF Path
<1>6. \A j, k \in 1 .. Len(t) : j <= k => t[k].node \in From(t[j].node, Mentions)
  BY <1>2 DEF Path
<1>7. \A j, k \in Targeted(t) : Key(t[j].node) = Key(t[k].node) => j = k
  <2>1. \A j \in Targeted(t) : j \in Targeted(s) /\ t[j].node = s[j].node
    BY <1>1, <1>2, <1>3
  <2> QED
    BY <2>1 DEF Path
<1>8. t[1].node = case.fragment /\ t[Len(t)].at # "target" /\ t \in Seq(Frame)
  <2>1. s # <<>>
    BY <1>1, EmptySeq DEF IsCut
  <2> QED
    BY <1>1, <1>2, <2>1 DEF IsCut, Path
<1>9. Lefts(t) \subseteq Lefts(s) \cup f.left
  BY <1>1, <1>2 DEF Lefts, IsCut
<1> QED
  BY <1>3, <1>4, <1>5, <1>6, <1>7, <1>8, <1>9 DEF Path

LEMMA PushHolds ==
    ASSUME IsCase(case), NEW s, Path(s), NEW f, FrameHolds(f), NEW n, Follows(f, n), Known(n),
           n \in Mentions[f.node],
           NEW t, IsPush(t, s, f, n),
           f.at = "target" => \A j \in Targeted(s) : Key(s[j].node) # Key(f.node)
    PROVE  /\ Path(t)
           /\ Targeted(t) = Targeted(s) \cup (IF f.at = "target" THEN {Len(s)} ELSE {})
           /\ Lefts(t) \subseteq Lefts(s)
<1>1. Len(s) \in Nat \ {0}
  BY LenProperties, EmptySeq DEF IsPush, Path
<1>2. /\ \A j \in 1 .. Len(s) : t[j].node = s[j].node /\ t[j].left = s[j].left
      /\ \A j \in 1 .. Len(t) : j \in 1 .. Len(s) \/ j = Len(s) + 1
      /\ t[Len(s) + 1].node = n /\ t[Len(s) + 1].at = "enter" /\ t[Len(s) + 1].left = {}
  BY <1>1 DEF IsPush, Entered
<1>3. Targeted(t) = Targeted(s) \cup (IF f.at = "target" THEN {Len(s)} ELSE {})
  <2>1. s[Len(s)].at # "target"
    BY DEF Path, IsPush
  <2>2. \A j \in 1 .. Len(s) : j \in 1 .. Len(s) - 1 \/ j = Len(s)
    BY <1>1
  <2>3. \A j \in 1 .. Len(s) - 1 : t[j].at = s[j].at /\ j \in 1 .. Len(t) /\ j \in 1 .. Len(s)
    BY <1>1 DEF IsPush
  <2>4. t[Len(s)].at = f.at /\ Len(s) \in 1 .. Len(t) /\ Len(s) \in 1 .. Len(s)
    BY <1>1 DEF IsPush
  <2> QED
    BY <1>2, <2>1, <2>2, <2>3, <2>4 DEF Targeted
<1>4. \A j \in 1 .. Len(t) : FrameHolds(t[j])
  <2>1. \A j \in 1 .. Len(s) : j \in 1 .. Len(s) - 1 \/ j = Len(s)
    BY <1>1
  <2>2. \A j \in 1 .. Len(s) - 1 : j \in 1 .. Len(s)
    BY <1>1
  <2> QED
    BY <1>2, <2>1, <2>2, EnteredHolds DEF IsPush, Path
<1>5. \A j \in 1 .. Len(t) - 1 : Follows(t[j], t[j + 1].node)
  <2> SUFFICES ASSUME NEW j \in 1 .. Len(s)
               PROVE  Follows(t[j], t[j + 1].node)
    BY <1>1 DEF IsPush
  <2>1. CASE j = Len(s)
    BY <1>2, <2>1 DEF IsPush
  <2>2. CASE j # Len(s)
    <3>1. j \in 1 .. Len(s) - 1 /\ j + 1 \in 1 .. Len(s)
      BY <1>1, <2>2
    <3> QED
      BY <1>2, <3>1 DEF IsPush, Path
  <2> QED
    BY <2>1, <2>2
<1>6. \A j, k \in 1 .. Len(t) : j <= k => t[k].node \in From(t[j].node, Mentions)
  <2>1. ASSUME NEW j \in 1 .. Len(s)
        PROVE  n \in From(s[j].node, Mentions)
    <3>1. s[Len(s)].node \in From(s[j].node, Mentions)
      BY <1>1, <2>1 DEF Path
    <3>2. s[j].node \in Nodes
      BY <2>1 DEF Path, FrameHolds, Known
    <3>3. Mentions[s[Len(s)].node] \subseteq From(s[j].node, Mentions)
      BY <3>1, <3>2, MentionsGraph, FromClosed
    <3> QED
      BY <3>3 DEF IsPush
  <2>2. n \in From(n, Mentions)
    BY MentionsGraph, FromClosed DEF Known
  <2> SUFFICES ASSUME NEW j \in 1 .. Len(t), NEW k \in 1 .. Len(t), j <= k
               PROVE  t[k].node \in From(t[j].node, Mentions)
    OBVIOUS
  <2>3. CASE k = Len(s) + 1 /\ j = Len(s) + 1
    BY <1>2, <2>2, <2>3
  <2>4. CASE k = Len(s) + 1 /\ j # Len(s) + 1
    <3>1. j \in 1 .. Len(s)
      BY <1>2, <2>4
    <3> QED
      BY <1>2, <2>1, <2>4, <3>1
  <2>5. CASE k # Len(s) + 1
    <3>1. k \in 1 .. Len(s) /\ j \in 1 .. Len(s)
      BY <1>1, <1>2, <2>5
    <3> QED
      BY <1>2, <3>1 DEF Path
  <2> QED
    BY <2>3, <2>4, <2>5
<1>7. \A j, k \in Targeted(t) : Key(t[j].node) = Key(t[k].node) => j = k
  <2>1. \A j \in Targeted(s) : j \in 1 .. Len(s) /\ t[j].node = s[j].node
    BY <1>2 DEF Targeted
  <2>2. t[Len(s)].node = f.node
    BY DEF IsPush
  <2> QED
    BY <1>3, <2>1, <2>2 DEF Path
<1>8. t # <<>> /\ t[1].node = case.fragment /\ t[Len(t)].at # "target" /\ t \in Seq(Frame)
  <2>1. t # <<>>
    BY <1>1, EmptySeq DEF IsPush
  <2> QED
    BY <1>1, <1>2, <2>1 DEF IsPush, Path
<1>9. Lefts(t) \subseteq Lefts(s)
  BY <1>2 DEF Lefts
<1> QED
  BY <1>3, <1>4, <1>5, <1>6, <1>7, <1>8, <1>9 DEF Path

-----------------------------------------------------------------------------
(* What the steps do to the stack.                                         *)

LEMMA TopHolds ==
    ASSUME ResolverInv, Running
    PROVE  /\ Len(stack) \in Nat \ {0} /\ Len(stack) \in 1 .. Len(stack)
           /\ Top \in Frame /\ FrameHolds(Top) /\ Top.at # "target"
           /\ Top.left \subseteq Reference /\ Top.left \subseteq Lefts(stack)
           /\ Top.node \in Mentioned
           /\ Top.node \in Nodes /\ Known(Top.node)
<1>1. Len(stack) \in Nat \ {0} /\ Len(stack) \in 1 .. Len(stack)
  BY EmptySeq DEF ResolverInv, Path, Running
<1>2. Top \in Frame /\ FrameHolds(Top) /\ Top.at # "target"
  BY <1>1, ElementOfSeq DEF ResolverInv, Path, Running, Top
<1>3. stack[1].node = case.fragment /\ Top.node \in From(stack[1].node, Mentions)
  BY <1>1 DEF ResolverInv, Path, Running, Top
<1>4. Top.left \subseteq Lefts(stack)
  BY <1>1 DEF Lefts, Top
<1> QED
  BY <1>1, <1>2, <1>3, <1>4 DEF Frame, FrameHolds, Known, Mentioned

(* The top frame is another one. *)
LEMMA BecomeShape ==
    ASSUME ResolverInv, Running, NEW f, f \in Frame, Become(f)
    PROVE  /\ stack' \in Seq(Frame) /\ Len(stack') = Len(stack)
           /\ \A j \in 1 .. Len(stack) : stack'[j] = IF j = Len(stack) THEN f ELSE stack[j]
<1>1. Len(stack) \in Nat \ {0} /\ stack \in Seq(Frame)
  BY TopHolds DEF ResolverInv, Path
<1> QED
  BY <1>1, ExceptSeq DEF Become

(* The top frame is gone, and its caller has what it left. *)
LEMMA ReturnShape ==
    ASSUME ResolverInv, Running, NEW left, left \subseteq Reference, Return(left), Len(stack) # 1
    PROVE  LET n == Len(stack) - 1
               caller == stack[n]
           IN  /\ n \in Nat \ {0} /\ n \in 1 .. Len(stack) /\ n \in 1 .. Len(stack) - 1
               /\ caller \in Frame /\ FrameHolds(caller)
               /\ stack' \in Seq(Frame) /\ Len(stack') = n
               /\ \A j \in 1 .. n - 1 : stack'[j] = stack[j]
               /\ stack'[n].node = caller.node /\ stack'[n].todo = caller.todo
               /\ stack'[n].at = IF caller.at = "target" THEN "inlined" ELSE caller.at
               /\ stack'[n].left \subseteq caller.left \cup left
               /\ visited' = IF caller.at = "target" THEN visited \ {Key(caller.node)} ELSE visited
               /\ result' = result
<1>1. Len(stack) \in Nat \ {0} /\ stack \in Seq(Frame)
  BY TopHolds DEF ResolverInv, Path
<1> DEFINE n == Len(stack) - 1
           caller == stack[n]
           inlining == caller.at = "target"
           f == [caller EXCEPT !.at = IF inlining THEN "inlined" ELSE @,
                               !.left = IF inlining THEN left ELSE @ \cup left]
           rest == SubSeq(stack, 1, n)
<1>2. n \in Nat \ {0} /\ n \in 1 .. Len(stack) /\ n \in 1 .. Len(stack) - 1
  <2>1. ASSUME NEW L \in Nat \ {0}, L # 1
        PROVE  L - 1 \in Nat \ {0} /\ L - 1 \in 1 .. L /\ L - 1 \in 1 .. L - 1
    BY <2>1
  <2> QED
    BY <1>1, <2>1
<1>3. /\ stack' = [rest EXCEPT ![Len(rest)] = f]
      /\ visited' = IF inlining THEN visited \ {Key(caller.node)} ELSE visited
      /\ result' = result
  BY DEF Return
<1>4. \A j \in 1 .. n : stack[j] \in Frame
  BY <1>1, <1>2, ElementOfSeq
<1>5. rest \in Seq(Frame) /\ Len(rest) = n /\ \A j \in 1 .. n : rest[j] = stack[j]
  BY <1>2, <1>4, SubSeqProperties
<1>6. caller \in Frame /\ FrameHolds(caller)
  BY <1>2, <1>4 DEF ResolverInv, Path
<1>7. /\ f \in Frame /\ f.node = caller.node /\ f.todo = caller.todo
      /\ f.left \subseteq caller.left \cup left
      /\ f.at = IF inlining THEN "inlined" ELSE caller.at
  BY <1>6 DEF Frame
<1> HIDE DEF f, rest, n
<1>8. /\ stack' \in Seq(Frame) /\ Len(stack') = n
      /\ \A j \in 1 .. n : stack'[j] = IF j = n THEN f ELSE stack[j]
  BY <1>2, <1>3, <1>5, <1>7, ExceptSeq
<1>9. stack'[n] = f /\ \A j \in 1 .. n - 1 : stack'[j] = stack[j]
  BY <1>2, <1>8
<1> QED
  BY <1>2, <1>3, <1>6, <1>7, <1>8, <1>9 DEF n

LEMMA BecomeHolds ==
    ASSUME ResolverInv, Running, NEW f, f \in Frame, FrameHolds(f),
           f.node = Top.node, f.at # "target", Become(f), UNCHANGED visited
    PROVE  /\ Path(stack') /\ Marks(visited', stack')
           /\ Lefts(stack') \subseteq Lefts(stack) \cup f.left
<1>1. Len(stack) \in Nat \ {0} /\ stack \in Seq(Frame)
  BY TopHolds DEF ResolverInv, Path
<1>2. /\ stack' \in Seq(Frame) /\ Len(stack') = Len(stack)
      /\ \A j \in 1 .. Len(stack) : stack'[j] = IF j = Len(stack) THEN f ELSE stack[j]
  BY BecomeShape
<1>3. IsCut(stack', stack, f)
  <2>1. stack' # <<>>
    BY <1>1, <1>2, EmptySeq
  <2> QED
    BY <1>1, <1>2, <2>1 DEF IsCut, Top
<1>4. /\ Path(stack') /\ Lefts(stack') \subseteq Lefts(stack) \cup f.left
      /\ Targeted(stack') = Targeted(stack) \cap 1 .. Len(stack') - 1
  BY <1>3, CutHolds DEF ResolverInv
<1>5. Targeted(stack') = Targeted(stack)
  BY <1>1, <1>2, <1>4, TopHolds DEF Targeted, Top
<1>6. \A j \in Targeted(stack) : Key(stack'[j].node) = Key(stack[j].node)
  BY <1>2 DEF Targeted, Top
<1>7. Marks(visited', stack')
  BY <1>5, <1>6 DEF Marks, ResolverInv
<1> QED
  BY <1>4, <1>7

LEMMA ReturnHolds ==
    ASSUME ResolverInv, Running, NEW left, left \subseteq Reference, Return(left)
    PROVE  /\ Path(stack') /\ Marks(visited', stack')
           /\ result' \subseteq Reference
           /\ Lefts(stack') \cup result' \subseteq Lefts(stack) \cup result \cup left
<1>1. Len(stack) \in Nat \ {0} /\ stack \in Seq(Frame)
  BY TopHolds DEF ResolverInv, Path
<1>2. CASE Len(stack) = 1
  <2>1. stack' = <<>> /\ result' = left /\ visited' = visited
    BY <1>2 DEF Return
  <2>2. Path(<<>>) /\ Lefts(<<>>) = {} /\ Targeted(<<>>) = {}
    BY EmptySeq DEF Path, Lefts, Targeted
  <2>3. Targeted(stack) = {}
    BY <1>1, <1>2, TopHolds DEF Targeted, Top
  <2>4. Marks(visited, <<>>)
    BY <2>2, <2>3 DEF ResolverInv, Marks
  <2> QED
    BY <2>1, <2>2, <2>4
<1>3. CASE Len(stack) # 1
  <2> DEFINE n == Len(stack) - 1
             caller == stack[n]
             inlining == caller.at = "target"
             f == stack'[n]
  <2>1. n \in Nat \ {0} /\ n \in 1 .. Len(stack) /\ n \in 1 .. Len(stack) - 1
    BY <1>3, ReturnShape
  <2>2. /\ visited' = IF inlining THEN visited \ {Key(caller.node)} ELSE visited
        /\ result' = result
    BY <1>3, ReturnShape
  <2>3. caller \in Frame /\ FrameHolds(caller)
    BY <1>3, ReturnShape
  <2>4. /\ f.node = caller.node /\ f.todo = caller.todo
        /\ f.left \subseteq caller.left \cup left
        /\ f.at = IF inlining THEN "inlined" ELSE caller.at
    BY <1>3, ReturnShape
  <2>5. /\ stack' \in Seq(Frame) /\ Len(stack') = n
        /\ \A j \in 1 .. n - 1 : stack'[j] = stack[j]
    BY <1>3, ReturnShape
  <2>6. f = stack'[n]
    OBVIOUS
  <2> HIDE DEF f, n
  <2>7. FrameHolds(f) /\ f.at # "target"
    BY <2>3, <2>4 DEF FrameHolds
  <2>8. \A j \in 1 .. n : stack'[j].node = stack[j].node
    <3>1. \A j \in 1 .. n : j = n \/ j \in 1 .. n - 1
      BY <2>1
    <3> QED
      BY <2>4, <2>5, <2>6, <3>1
  <2>9. IsCut(stack', stack, f)
    <3>1. stack' # <<>>
      BY <2>1, <2>5, EmptySeq
    <3> QED
      BY <2>1, <2>4, <2>5, <2>6, <2>7, <3>1 DEF IsCut, n
  <2>10. /\ Path(stack') /\ Lefts(stack') \subseteq Lefts(stack) \cup f.left
         /\ Targeted(stack') = Targeted(stack) \cap 1 .. n - 1
    BY <2>5, <2>7, <2>9, CutHolds DEF ResolverInv
  <2>11. caller.left \subseteq Lefts(stack)
    BY <2>1 DEF Lefts
  <2>12. Targeted(stack') = Targeted(stack) \ {n}
    <3>1. \A j \in Targeted(stack) : j \in 1 .. n
      BY <1>1, TopHolds DEF Targeted, Top, n
    <3> QED
      BY <2>1, <2>10, <3>1
  <2>13. n \in Targeted(stack) <=> inlining
    BY <2>1 DEF Targeted
  <2>14. \A j \in Targeted(stack') : Key(stack'[j].node) = Key(stack[j].node) /\ j \in Targeted(stack) /\ j # n
    BY <2>1, <2>8, <2>12, <2>10 DEF Targeted
  <2>15. Marks(visited', stack')
    <3>1. visited = {Key(stack[j].node) : j \in Targeted(stack)}
      BY DEF ResolverInv, Marks
    <3>2. {Key(stack'[j].node) : j \in Targeted(stack')} = {Key(stack[j].node) : j \in Targeted(stack) \ {n}}
      BY <2>12, <2>14
    <3>3. inlining => \A j \in Targeted(stack) : Key(stack[j].node) = Key(caller.node) => j = n
      BY <2>13 DEF ResolverInv, Path
    <3>4. visited' = {Key(stack[j].node) : j \in Targeted(stack) \ {n}}
      BY <2>2, <2>13, <3>1, <3>3
    <3>5. visited' \in SUBSET visited /\ IsFiniteSet(visited) /\ Cardinality(visited) <= MaxDepth
      BY <3>1, <3>4 DEF ResolverInv, Marks
    <3>6. IsFiniteSet(visited') /\ Cardinality(visited') <= Cardinality(visited)
      BY <3>5, FS_Subset
    <3>7. Cardinality(visited') <= MaxDepth
      BY <3>5, <3>6, FS_CardinalityType, ResolverAssumption
    <3> QED
      BY <3>2, <3>4, <3>6, <3>7 DEF Marks
  <2>16. result' \subseteq Reference
    BY <2>2 DEF ResolverInv
  <2> QED
    BY <2>2, <2>4, <2>10, <2>11, <2>15, <2>16
<1> QED
  BY <1>2, <1>3

-----------------------------------------------------------------------------
(* What a step has to do for the invariant to stay.                        *)

(* The document and the registry stay what they are. *)
LEMMA CaseStays ==
    ASSUME UNCHANGED case, UNCHANGED mode
    PROVE  /\ Mentions' = Mentions /\ Mentioned' = Mentioned /\ Resources' = Resources
           /\ \A n : Node(n)' = Node(n) /\ Key(n)' = Key(n)
           /\ \A f : FrameHolds(f)' <=> FrameHolds(f)
           /\ \A f, n : Follows(f, n)' <=> Follows(f, n)
           /\ ResolvesHost' = ResolvesHost /\ Uri(Host)' = Uri(Host)
           /\ Recursive(Mentioned, Mentions)' <=> Recursive(Mentioned, Mentions)
           /\ Dangling(Mentioned)' <=> Dangling(Mentioned)
           /\ PlainPointers' <=> PlainPointers
<1>1. /\ \A n : Node(n)' = Node(n) /\ Ref(n)' = Ref(n) /\ SubsOf(n)' = SubsOf(n)
      /\ \A n : Uri(n)' = Uri(n) /\ Key(n)' = Key(n) /\ Below(n)' = Below(n)
      /\ SubsIn(case)' = SubsIn(case)
  BY DEF Node, Ref, SubsOf, Uri, Key, Below, Within, SubsIn
<1>2. \A n : Target(n)' = Target(n) /\ TargetsOf(n)' = TargetsOf(n)
  BY DEF Target, TargetsOf, Locate, Node, Ref
<1>3. Mentions' = Mentions /\ Mentioned' = Mentioned
  BY <1>1, <1>2 DEF Mentions, Mentioned
<1>4. \A n : ReferredBy(n)' = ReferredBy(n) /\ Named(n)' = Named(n)
  BY DEF ReferredBy, TypesIn, SubsIn, Named, Uri, Node
<1>5. Resources' = Resources
  BY <1>1, <1>4 DEF Resources
<1>6. \A f : FrameHolds(f)' <=> FrameHolds(f)
  BY <1>1, <1>5 DEF FrameHolds, Known
<1>7. \A f, n : Follows(f, n)' <=> Follows(f, n)
  BY <1>1, <1>2 DEF Follows
<1>8. ResolvesHost' = ResolvesHost
  BY DEF ResolvesHost
<1>9. Recursive(Mentioned, Mentions)' <=> Recursive(Mentioned, Mentions)
  BY <1>1, <1>2, <1>3, <1>8 DEF Recursive
<1>10. Dangling(Mentioned)' <=> Dangling(Mentioned)
  BY <1>1, <1>2, <1>3 DEF Dangling
<1>11. PlainPointers' <=> PlainPointers
  BY <1>1, <1>3 DEF PlainPointers
<1> QED
  BY <1>1, <1>3, <1>5, <1>6, <1>7, <1>8, <1>9, <1>10, <1>11

LEMMA PathStays ==
    ASSUME UNCHANGED case, UNCHANGED mode, Path(stack'), Marks(visited', stack')
    PROVE  Path(stack)' /\ Marks(visited, stack)'
<1>1. Path(stack)'
  BY CaseStays DEF Path, Targeted
<1>2. Marks(visited, stack)'
  BY CaseStays DEF Marks, Targeted
<1> QED
  BY <1>1, <1>2

LEMMA StepKeeps ==
    ASSUME ResolverInv, UNCHANGED input,
           Path(stack'), Marks(visited', stack'), result' \subseteq Reference, moved' \subseteq Nodes,
           NEW new, Lefts(stack') \cup result' \subseteq Lefts(stack) \cup result \cup new,
           {cycle_found', needs_bundle', unresolved', too_deep'} \subseteq BOOLEAN,
           cycle_found => cycle_found', needs_bundle => needs_bundle',
           unresolved => unresolved', too_deep => too_deep',
           cycle_found' => cycle_found \/ (~ contextual /\ Recursive(Mentioned, Mentions)),
           needs_bundle' => needs_bundle \/ Uri(Host) # Nowhere,
           unresolved' => unresolved \/ Dangling(Mentioned) \/ too_deep',
           ~ cycle_found' /\ ~ unresolved' =>
              /\ mode = "full" => new = {}
              /\ ~ ResolvesHost /\ PlainPointers =>
                    \A ref \in new : ~ IsLocal(ref) /\ needs_bundle' /\ ref.id \in Resources
    PROVE  ResolverInv'
<1> USE DEF input
<1>1. IsCase(case)' /\ (mode \in Modes)'
  BY DEF ResolverInv
<1>2. Path(stack)' /\ Marks(visited, stack)'
  BY PathStays
<1>3. FlagsHold'
  <2>1. contextual' \in BOOLEAN /\ (contextual' <=> contextual)
    BY DEF ResolverInv, FlagsHold
  <2>2. contextual' => ~ ResolvesHost /\ Uri(Host) # Nowhere /\ ~ cycle_found'
    BY <2>1 DEF ResolverInv, FlagsHold
  <2>3. (needs_bundle' => Uri(Host) # Nowhere) /\ (~ ResolvesHost => mode = "partial")
    BY DEF ResolverInv, FlagsHold
  <2>4. cycle_found' => Recursive(Mentioned, Mentions)
    BY DEF ResolverInv, FlagsHold
  <2>5. unresolved' => Dangling(Mentioned) \/ too_deep'
    BY DEF ResolverInv, FlagsHold
  <2> QED
    BY <2>1, <2>2, <2>3, <2>4, <2>5, CaseStays DEF FlagsHold
<1>4. LeftsHold'
  <2>1. Lefts(stack)' = Lefts(stack')
    BY DEF Lefts
  <2>2. ASSUME ~ cycle_found', ~ unresolved', mode = "full"
        PROVE  Lefts(stack') \cup result' = {}
    BY <2>2 DEF ResolverInv, LeftsHold
  <2>3. ASSUME ~ cycle_found', ~ unresolved', ~ ResolvesHost, PlainPointers,
               NEW ref \in Lefts(stack') \cup result'
        PROVE  ~ IsLocal(ref) /\ needs_bundle' /\ ref.id \in Resources
    <3>1. CASE ref \in new
      BY <2>3, <3>1
    <3>2. CASE ref \in Lefts(stack) \cup result
      BY <2>3, <3>2 DEF ResolverInv, LeftsHold, Bundled
    <3> QED
      BY <3>1, <3>2
  <2>4. ASSUME NEW ref, ~ IsLocal(ref), needs_bundle', ref.id \in Resources
        PROVE  Bundled(ref)'
    BY <2>4, CaseStays DEF Bundled, IsLocal
  <2> QED
    BY <2>1, <2>2, <2>3, <2>4, CaseStays DEF LeftsHold
<1>5. (moved \subseteq Nodes)' /\ (result \subseteq Reference)'
  OBVIOUS
<1> QED
  BY <1>1, <1>2, <1>3, <1>4, <1>5 DEF ResolverInv

(* A step that meets nothing and leaves nothing new. *)
LEMMA QuietStep ==
    ASSUME ResolverInv, UNCHANGED <<input, flags, unresolved, too_deep>>,
           Path(stack'), Marks(visited', stack'), result' \subseteq Reference, moved' \subseteq Nodes,
           Lefts(stack') \cup result' \subseteq Lefts(stack) \cup result
    PROVE  ResolverInv'
<1>1. UNCHANGED input /\ UNCHANGED cycle_found /\ UNCHANGED needs_bundle
  BY DEF flags, input
<1>2. {cycle_found', needs_bundle', unresolved', too_deep'} \subseteq BOOLEAN
  BY <1>1 DEF ResolverInv, FlagsHold
<1>3. ASSUME NEW new, new = {}
      PROVE  ResolverInv'
  <2>1. Lefts(stack') \cup result' \subseteq Lefts(stack) \cup result \cup new
    OBVIOUS
  <2>2. \A ref \in new : ~ IsLocal(ref) /\ needs_bundle' /\ ref.id \in Resources
    BY <1>3
  <2> QED
    BY <1>1, <1>2, <1>3, <2>1, <2>2, StepKeeps, Zenon
<1> QED
  BY <1>3

-----------------------------------------------------------------------------
(* The steps.                                                              *)

LEMMA KeywordsHold ==
    ASSUME ResolverInv, Running, NEW left, left \subseteq Reference
    PROVE  /\ Keywords(Top, left) \in Frame /\ FrameHolds(Keywords(Top, left))
           /\ Keywords(Top, left).node = Top.node /\ Keywords(Top, left).at # "target"
           /\ Keywords(Top, left).left = left
<1>1. Top \in Frame /\ Known(Top.node) /\ Top.node \in Nodes
  BY TopHolds
<1>2. Node(Top.node).subs \in Seq(Nodes)
  BY <1>1, PositionTyped DEF ResolverInv, Position
<1>3. \A i \in DOMAIN Node(Top.node).subs : Node(Top.node).subs[i] \in SubsOf(Top.node)
  BY <1>1 DEF SubsOf, SubsIn, Range, Node
<1>4. ASSUME NEW f \in Frame, NEW todo \in Seq(Nodes)
      PROVE  LET g == [f EXCEPT !.at = "subs", !.left = left, !.todo = todo]
             IN  g \in Frame /\ g.node = f.node /\ g.at = "subs" /\ g.todo = todo /\ g.left = left
  BY DEF Frame
<1>5. /\ Keywords(Top, left) \in Frame
      /\ Keywords(Top, left).node = Top.node /\ Keywords(Top, left).at = "subs"
      /\ Keywords(Top, left).todo = Node(Top.node).subs /\ Keywords(Top, left).left = left
  BY <1>1, <1>2, <1>4 DEF Keywords
<1> QED
  BY <1>1, <1>3, <1>5 DEF FrameHolds

LEMMA RefTyped ==
    ASSUME ResolverInv, Running, Ref(Top.node) # Nowhere
    PROVE  /\ Ref(Top.node) \in Reference
           /\ Ref(Top.node).kind = "gts" => Ref(Top.node).id \in TypeIds
           /\ Ref(Top.node).kind = "local" => Ref(Top.node).pointer \in Nodes \cup {Nowhere}
<1>1. Ref(Top.node) \in Reference
  BY TopHolds, PositionTyped DEF ResolverInv
<1> QED
  BY <1>1 DEF Reference

(* What a key says of a reference decides its target. *)
LEMMA KeyDecidesTarget ==
    ASSUME NEW m, NEW n, Ref(m) # Nowhere, Ref(n) # Nowhere, Key(m) = Key(n)
    PROVE  Ref(m) = Ref(n) /\ Target(m) = Target(n)
<1>1. Ref(m) = Ref(n) /\ (IsLocal(Ref(n)) => Node(m).root = Node(n).root)
  BY DEF Key
<1> QED
  BY <1>1 DEF Target, IsLocal

(* A reference met again leads back to itself. *)
LEMMA MetAgain ==
    ASSUME ResolverInv, At("enter"), Ref(Top.node) # Nowhere, OnPath,
           ~ (IsLocal(Ref(Top.node)) /\ Node(Top.node).root = Host /\ ResolvesHost /\ mode = "partial")
    PROVE  Recursive(Mentioned, Mentions)
<1>1. Running
  BY DEF At
<1>2. PICK k \in Targeted(stack) : Key(stack[k].node) = Key(Top.node)
  BY DEF OnPath, ResolverInv, Marks
<1>3. k \in 1 .. Len(stack) - 1 /\ k + 1 \in 1 .. Len(stack) /\ k + 1 <= Len(stack)
  <2>1. k # Len(stack) /\ k \in 1 .. Len(stack) /\ Len(stack) \in Nat
    BY <1>1, TopHolds DEF Targeted, Top, At
  <2> QED
    BY <2>1
<1>4. Ref(stack[k].node) # Nowhere /\ stack[k + 1].node = Target(stack[k].node)
  BY <1>3 DEF ResolverInv, Path, Follows, Targeted
<1>5. Target(Top.node) = stack[k + 1].node
  BY <1>2, <1>4, KeyDecidesTarget
<1>6. Top.node \in From(Target(Top.node), Mentions)
  BY <1>1, <1>3, <1>5, TopHolds DEF ResolverInv, Path, Top
<1>7. Target(Top.node) \in Nodes
  BY <1>3, <1>5 DEF ResolverInv, Path, FrameHolds, Known
<1>8. TargetsOf(Top.node) # {}
  BY <1>7, ResolverAssumption DEF TargetsOf
<1> QED
  BY <1>1, <1>6, <1>8, TopHolds DEF Recursive

LEMMA KnownUri ==
    ASSUME IsCase(case), NEW n, Known(n), Uri(Host) # Nowhere
    PROVE  Uri(n) \in TypeIds /\ Uri(n) # Nowhere
<1>1. Uri(n) \in Resources
  BY KnownBundled
<1>2. Resources \subseteq TypeIds
  BY HostIsRoot, PositionTyped, ResourceGraph, FromClosed
<1> QED
  BY <1>1, <1>2, ResolverAssumption

LEMMA RebasedTyped ==
    ASSUME ResolverInv, Running, Refers("local"), Uri(Top.node) # Nowhere
    PROVE  /\ Rebased(Top.node) \in Reference /\ ~ IsLocal(Rebased(Top.node))
           /\ Uri(Host) # Nowhere => Rebased(Top.node).id \in Resources
<1>1. Uri(Top.node) \in TypeIds
  BY TopHolds, PositionTyped DEF ResolverInv
<1>2. Ref(Top.node).pointer \in Nodes \cup {Nowhere}
  BY RefTyped DEF Refers
<1>3. Uri(Host) # Nowhere => Uri(Top.node) \in Resources
  BY TopHolds, KnownBundled DEF ResolverInv
<1> QED
  BY <1>1, <1>2, <1>3 DEF Rebased, Reference, IsLocal

LEMMA WithoutRefKeeps ==
    ASSUME ResolverInv, WithoutRef PROVE ResolverInv'
<1>1. Running /\ Become(Keywords(Top, {}))
  BY DEF WithoutRef, At
<1>2. /\ Path(stack') /\ Marks(visited', stack')
      /\ Lefts(stack') \subseteq Lefts(stack) \cup Keywords(Top, {}).left
  BY <1>1, KeywordsHold, BecomeHolds DEF WithoutRef
<1>3. Keywords(Top, {}).left = {}
  BY <1>1, KeywordsHold
<1> QED
  BY <1>2, <1>3, QuietStep DEF WithoutRef, ResolverInv

LEMMA MeetWholeKeeps ==
    ASSUME ResolverInv, MeetWhole PROVE ResolverInv'
<1> DEFINE f == [Top EXCEPT !.at = "inlined", !.left = {Rebased(Top.node)}]
<1>1. /\ Running /\ Refers("local") /\ Uri(Top.node) # Nowhere /\ contextual
      /\ Become(f) /\ UNCHANGED visited
  BY DEF MeetWhole, MeansWholeBundled, Refers, At
<1>2. /\ Rebased(Top.node) \in Reference /\ ~ IsLocal(Rebased(Top.node))
      /\ Uri(Host) # Nowhere => Rebased(Top.node).id \in Resources
  BY <1>1, RebasedTyped
<1>3. Top \in Frame /\ FrameHolds(Top)
  BY <1>1, TopHolds
<1>4. /\ f \in Frame /\ f.node = Top.node /\ f.at = "inlined" /\ f.todo = Top.todo
      /\ f.left = {Rebased(Top.node)}
  BY <1>2, <1>3 DEF Frame
<1> HIDE DEF f
<1>5. FrameHolds(f)
  BY <1>1, <1>3, <1>4 DEF FrameHolds, Refers
<1>6. Path(stack') /\ Marks(visited', stack') /\ Lefts(stack') \subseteq Lefts(stack) \cup f.left
  BY <1>1, <1>4, <1>5, BecomeHolds
<1>7. ~ ResolvesHost /\ Uri(Host) # Nowhere /\ mode # "full"
  BY <1>1 DEF ResolverInv, FlagsHold
<1>8. {cycle_found', needs_bundle', unresolved', too_deep'} \subseteq BOOLEAN
  BY DEF MeetWhole, ResolverInv, FlagsHold
<1>9. ASSUME NEW new, new = {Rebased(Top.node)} PROVE ResolverInv'
  <2>1. Lefts(stack') \cup result' \subseteq Lefts(stack) \cup result \cup new
    BY <1>4, <1>6, <1>9 DEF MeetWhole
  <2>2. \A ref \in new : ~ IsLocal(ref) /\ needs_bundle' /\ ref.id \in Resources
    BY <1>2, <1>7, <1>9 DEF MeetWhole
  <2> QED
    BY <1>6, <1>7, <1>8, <2>1, <2>2, StepKeeps DEF MeetWhole, ResolverInv
<1> QED
  BY <1>9

LEMMA MeetPointerAgainKeeps ==
    ASSUME ResolverInv, MeetPointerAgain PROVE ResolverInv'
<1>1. /\ Running /\ At("enter") /\ Ref(Top.node) # Nowhere /\ OnPath
      /\ ~ Rebases(Top.node) /\ Return(AsAuthored(Top.node))
      /\ cycle_found' = (cycle_found \/ ~ KeepsRecursion(Top.node))
  BY DEF MeetPointerAgain, Meets, Refers, At
<1>2. AsAuthored(Top.node) \subseteq Reference
  BY <1>1, TopHolds, AuthoredTyped DEF ResolverInv
<1>3. ~ contextual
  BY <1>1, TopHolds, KnownUri DEF ResolverInv, FlagsHold, Rebases
<1>4. ~ KeepsRecursion(Top.node) => Recursive(Mentioned, Mentions)
  BY <1>1, MetAgain DEF KeepsRecursion
<1>5. KeepsRecursion(Top.node) => mode # "full" /\ ResolvesHost
  BY DEF KeepsRecursion
<1>6. {cycle_found', needs_bundle', unresolved', too_deep'} \subseteq BOOLEAN
  BY <1>1 DEF MeetPointerAgain, ResolverInv, FlagsHold
<1>7. ASSUME NEW new, new = AsAuthored(Top.node) PROVE ResolverInv'
  <2>1. /\ Path(stack') /\ Marks(visited', stack') /\ result' \subseteq Reference
        /\ Lefts(stack') \cup result' \subseteq Lefts(stack) \cup result \cup new
    BY <1>1, <1>2, <1>7, ReturnHolds
  <2> QED
    BY <1>1, <1>3, <1>4, <1>5, <1>6, <2>1, StepKeeps DEF MeetPointerAgain, ResolverInv
<1> QED
  BY <1>7

LEMMA RebasePointerKeeps ==
    ASSUME ResolverInv, RebasePointer PROVE ResolverInv'
<1> DEFINE n == Top.node
           kept == {Rebased(n)} \cup UNION {AsAuthored(m) : m \in SubsOf(n)}
<1>1. /\ Running /\ Refers("local") /\ Rebases(n) /\ Uri(n) # Nowhere /\ Return(kept)
  BY DEF RebasePointer, Meets, Refers, At, Rebases
<1>2. n \in Nodes /\ Known(n) /\ n \in Mentioned /\ IsLocal(Ref(n))
  BY <1>1, TopHolds DEF Refers, IsLocal
<1>3. mode # "full" /\ Uri(Host) # Nowhere
  <2>1. CASE contextual
    BY <2>1 DEF ResolverInv, FlagsHold
  <2>2. CASE RebasesRecursion(n)
    BY <1>1, <2>2, HostIsRoot DEF RebasesRecursion, Uri, ResolverInv
  <2> QED
    BY <1>1, <2>1, <2>2 DEF Rebases
<1>4. Rebased(n) \in Reference /\ ~ IsLocal(Rebased(n)) /\ Rebased(n).id \in Resources
  BY <1>1, <1>3, RebasedTyped
<1>5. ASSUME NEW m \in SubsOf(n)
      PROVE  /\ AsAuthored(m) \subseteq Reference
             /\ PlainPointers => \A ref \in AsAuthored(m) : ~ IsLocal(ref) /\ ref.id \in Resources
  <2>1. Known(m)
    BY <1>2, KnownMentions DEF ResolverInv
  <2>2. AsAuthored(m) \subseteq Reference
    BY <2>1, AuthoredTyped DEF ResolverInv
  <2>3. ASSUME PlainPointers, NEW ref \in AsAuthored(m)
        PROVE  ~ IsLocal(ref) /\ ref.id \in Resources
    <3>1. PICK p \in From(m, SubsIn(case)) : Known(p) /\ ref = Ref(p) /\ Ref(p) # Nowhere
      BY <2>1, AuthoredTyped DEF ResolverInv
    <3>2. p \in Below(n)
      BY <3>1 DEF Below, Within
    <3>3. ~ IsLocal(Ref(p))
      BY <1>2, <2>3, <3>2 DEF PlainPointers
    <3>4. Ref(p).kind = "gts"
      BY <2>2, <2>3, <3>1, <3>3 DEF IsLocal, Reference
    <3> QED
      BY <1>3, <3>1, <3>3, <3>4, KnownBundled DEF ResolverInv
  <2> QED
    BY <2>2, <2>3
<1>6. kept \subseteq Reference
  BY <1>4, <1>5
<1>7. PlainPointers => \A ref \in kept : ~ IsLocal(ref) /\ ref.id \in Resources
  BY <1>4, <1>5
<1>8. {cycle_found', needs_bundle', unresolved', too_deep'} \subseteq BOOLEAN
  BY DEF RebasePointer, ResolverInv, FlagsHold
<1> HIDE DEF kept, n
<1>9. ASSUME NEW new, new = kept PROVE ResolverInv'
  <2>1. /\ Path(stack') /\ Marks(visited', stack') /\ result' \subseteq Reference
        /\ Lefts(stack') \cup result' \subseteq Lefts(stack) \cup result \cup new
    BY <1>1, <1>6, <1>9, ReturnHolds
  <2> QED
    BY <1>3, <1>7, <1>8, <1>9, <2>1, StepKeeps DEF RebasePointer, ResolverInv
<1> QED
  BY <1>9

LEMMA MeetDocumentAgainKeeps ==
    ASSUME ResolverInv, MeetDocumentAgain PROVE ResolverInv'
<1> DEFINE kept == {Ref(Top.node)}
<1>1. /\ Running /\ At("enter") /\ Ref(Top.node) # Nowhere /\ Ref(Top.node).kind = "gts" /\ OnPath
      /\ Become(Keywords(Top, kept)) /\ UNCHANGED visited
  BY DEF MeetDocumentAgain, Meets, Refers, At
<1>2. kept \subseteq Reference /\ ~ IsLocal(Ref(Top.node))
  BY <1>1, RefTyped DEF IsLocal
<1>3. Recursive(Mentioned, Mentions)
  BY <1>1, <1>2, MetAgain
<1>4. contextual => mode # "full" /\ Uri(Host) # Nowhere /\ Ref(Top.node).id \in Resources
  BY <1>1, TopHolds, KnownBundled DEF ResolverInv, FlagsHold
<1>5. {cycle_found', needs_bundle', unresolved', too_deep'} \subseteq BOOLEAN
  BY DEF MeetDocumentAgain, ResolverInv, FlagsHold
<1>6. ~ contextual => cycle_found' /\ UNCHANGED needs_bundle
  BY DEF MeetDocumentAgain
<1>7. contextual => needs_bundle' /\ UNCHANGED cycle_found
  BY DEF MeetDocumentAgain
<1> HIDE DEF kept
<1>8. ASSUME NEW new, new = kept PROVE ResolverInv'
  <2>1. /\ Keywords(Top, kept) \in Frame /\ FrameHolds(Keywords(Top, kept))
        /\ Keywords(Top, kept).node = Top.node /\ Keywords(Top, kept).at # "target"
        /\ Keywords(Top, kept).left = kept
    BY <1>1, <1>2, KeywordsHold
  <2>2. Path(stack') /\ Marks(visited', stack') /\ Lefts(stack') \subseteq Lefts(stack) \cup new
    BY <1>1, <1>8, <2>1, BecomeHolds
  <2>3. Lefts(stack') \cup result' \subseteq Lefts(stack) \cup result \cup new
    BY <2>2 DEF MeetDocumentAgain
  <2>4. contextual => \A ref \in new : ~ IsLocal(ref) /\ needs_bundle' /\ ref.id \in Resources
    BY <1>2, <1>4, <1>7, <1>8 DEF kept
  <2> QED
    BY <1>3, <1>4, <1>5, <1>6, <1>7, <2>2, <2>3, <2>4, StepKeeps DEF MeetDocumentAgain, ResolverInv, FlagsHold
<1> QED
  BY <1>8

LEMMA MeetTooDeepKeeps ==
    ASSUME ResolverInv, MeetTooDeep PROVE ResolverInv'
<1>1. Running /\ Return(AsAuthored(Top.node)) /\ unresolved' /\ too_deep'
  BY DEF MeetTooDeep, Meets, Refers, At
<1>2. AsAuthored(Top.node) \subseteq Reference
  BY <1>1, TopHolds, AuthoredTyped DEF ResolverInv
<1>3. {cycle_found', needs_bundle', unresolved', too_deep'} \subseteq BOOLEAN
  BY DEF MeetTooDeep, ResolverInv, FlagsHold, flags
<1>4. UNCHANGED cycle_found /\ UNCHANGED needs_bundle
  BY DEF MeetTooDeep, flags
<1>5. ASSUME NEW new, new = AsAuthored(Top.node) PROVE ResolverInv'
  <2>1. /\ Path(stack') /\ Marks(visited', stack') /\ result' \subseteq Reference
        /\ Lefts(stack') \cup result' \subseteq Lefts(stack) \cup result \cup new
    BY <1>1, <1>2, <1>5, ReturnHolds
  <2> QED
    BY <1>1, <1>3, <1>4, <2>1, StepKeeps DEF MeetTooDeep, ResolverInv
<1> QED
  BY <1>5

LEMMA MeetMissingKeeps ==
    ASSUME ResolverInv, MeetMissing PROVE ResolverInv'
<1> DEFINE kept == {Ref(Top.node)}
<1>1. /\ Running /\ Ref(Top.node) # Nowhere /\ Target(Top.node) = Nowhere /\ unresolved'
      /\ Become(Keywords(Top, kept)) /\ UNCHANGED visited
  BY DEF MeetMissing, Fresh, Meets, Refers, At
<1>2. kept \subseteq Reference
  BY <1>1, RefTyped
<1>3. Dangling(Mentioned)
  BY <1>1, TopHolds DEF Dangling
<1>4. {cycle_found', needs_bundle', unresolved', too_deep'} \subseteq BOOLEAN
  BY DEF MeetMissing, ResolverInv, FlagsHold, flags
<1>5. UNCHANGED cycle_found /\ UNCHANGED needs_bundle
  BY DEF MeetMissing, flags
<1> HIDE DEF kept
<1>6. ASSUME NEW new, new = kept PROVE ResolverInv'
  <2>1. /\ Keywords(Top, kept) \in Frame /\ FrameHolds(Keywords(Top, kept))
        /\ Keywords(Top, kept).node = Top.node /\ Keywords(Top, kept).at # "target"
        /\ Keywords(Top, kept).left = kept
    BY <1>1, <1>2, KeywordsHold
  <2>2. Path(stack') /\ Marks(visited', stack') /\ Lefts(stack') \subseteq Lefts(stack) \cup new
    BY <1>1, <1>6, <2>1, BecomeHolds
  <2>3. Lefts(stack') \cup result' \subseteq Lefts(stack) \cup result \cup new
    BY <2>2 DEF MeetMissing
  <2> QED
    BY <1>1, <1>3, <1>4, <1>5, <2>2, <2>3, StepKeeps DEF MeetMissing, ResolverInv
<1> QED
  BY <1>6

(* A pushed frame's caller is the top frame with a field or two changed.   *)
LEMMA PushTop ==
    ASSUME ResolverInv, Running, NEW f, f \in Frame, f.node = Top.node, f.left = Top.left,
           NEW n, Known(n), stack' = Append([stack EXCEPT ![Len(stack)] = f], Entered(n))
    PROVE  IsPush(stack', stack, f, n)
<1>1. Len(stack) \in Nat \ {0} /\ stack \in Seq(Frame) /\ stack # <<>>
  BY TopHolds DEF ResolverInv, Path, Running
<1> DEFINE t == [stack EXCEPT ![Len(stack)] = f]
<1>2. /\ t \in Seq(Frame) /\ Len(t) = Len(stack)
      /\ \A j \in 1 .. Len(stack) : t[j] = IF j = Len(stack) THEN f ELSE stack[j]
  BY <1>1, ExceptSeq
<1> HIDE DEF t
<1>3. Entered(n) \in Frame
  BY EnteredHolds
<1>4. stack' = Append(t, Entered(n))
  BY DEF t
<1>5. /\ stack' \in Seq(Frame) /\ Len(stack') = Len(t) + 1
      /\ \A j \in 1 .. Len(t) : stack'[j] = t[j]
      /\ stack'[Len(t) + 1] = Entered(n)
  <2>1. ASSUME NEW u \in Seq(Frame), NEW e \in Frame
        PROVE  /\ Append(u, e) \in Seq(Frame) /\ Len(Append(u, e)) = Len(u) + 1
               /\ \A j \in 1 .. Len(u) : Append(u, e)[j] = u[j]
               /\ Append(u, e)[Len(u) + 1] = e
    BY AppendProperties
  <2>2. /\ Append(t, Entered(n)) \in Seq(Frame) /\ Len(Append(t, Entered(n))) = Len(t) + 1
        /\ \A j \in 1 .. Len(t) : Append(t, Entered(n))[j] = t[j]
        /\ Append(t, Entered(n))[Len(t) + 1] = Entered(n)
    BY <1>2, <1>3, <2>1, Zenon
  <2> QED
    BY <1>4, <2>2, Zenon
<1>6. \A j \in 1 .. Len(stack) - 1 : j \in 1 .. Len(stack) /\ j # Len(stack)
  BY <1>1
<1> QED
  BY <1>1, <1>2, <1>5, <1>6 DEF IsPush, Top

LEMMA InlineKeeps ==
    ASSUME ResolverInv, Inline PROVE ResolverInv'
<1> DEFINE f == [Top EXCEPT !.at = "target"]
           n == Top.node
<1>1. /\ Running /\ Ref(n) # Nowhere /\ Target(n) # Nowhere
      /\ Key(n) \notin visited /\ Cardinality(visited) < MaxDepth
      /\ visited' = visited \cup {Key(n)}
  BY DEF Inline, Fresh, Meets, Refers, At, OnPath
<1>2. /\ Top \in Frame /\ FrameHolds(Top) /\ Known(n) /\ Len(stack) \in Nat \ {0}
      /\ stack \in Seq(Frame)
  BY <1>1, TopHolds DEF ResolverInv, Path
<1>3. /\ f \in Frame /\ f.node = n /\ f.at = "target" /\ f.todo = Top.todo /\ f.left = Top.left
  BY <1>2 DEF Frame
<1>4. FrameHolds(f) /\ Follows(f, Target(n))
  BY <1>1, <1>2, <1>3 DEF FrameHolds, Follows
<1>5. Known(Target(n)) /\ Target(n) \in Mentions[f.node]
  BY <1>1, <1>2, <1>3, KnownMentions DEF ResolverInv
<1>6. stack' = Append([stack EXCEPT ![Len(stack)] = f], Entered(Target(n)))
  BY <1>2 DEF Inline, Top
<1> HIDE DEF f
<1>7. IsPush(stack', stack, f, Target(n))
  BY <1>1, <1>3, <1>5, <1>6, PushTop
<1>8. \A j \in Targeted(stack) : Key(stack[j].node) # Key(f.node)
  BY <1>1, <1>3 DEF ResolverInv, Marks
<1>9. /\ Path(stack') /\ Lefts(stack') \subseteq Lefts(stack)
      /\ Targeted(stack') = Targeted(stack) \cup {Len(stack)}
  BY <1>3, <1>4, <1>5, <1>7, <1>8, PushHolds DEF ResolverInv
<1>10. Marks(visited', stack')
  <2>1. \A j \in 1 .. Len(stack) : j \in 1 .. Len(stack) - 1 \/ j = Len(stack)
    BY <1>2
  <2>2. \A j \in Targeted(stack) : stack'[j].node = stack[j].node
    BY <1>3, <1>7, <2>1 DEF IsPush, Targeted, Top
  <2>3. stack'[Len(stack)].node = n
    BY <1>3, <1>7 DEF IsPush
  <2>4. visited' = {Key(stack'[j].node) : j \in Targeted(stack')}
    BY <1>1, <1>9, <2>2, <2>3 DEF ResolverInv, Marks
  <2>5. IsFiniteSet(visited) /\ Cardinality(visited) \in Nat
    BY FS_CardinalityType DEF ResolverInv, Marks
  <2>6. IsFiniteSet(visited') /\ Cardinality(visited') = Cardinality(visited) + 1
    BY <1>1, <2>5, FS_AddElement
  <2>7. Cardinality(visited') <= MaxDepth
    BY <1>1, <2>5, <2>6, ResolverAssumption
  <2> QED
    BY <2>4, <2>6, <2>7 DEF Marks
<1> QED
  BY <1>9, <1>10, QuietStep DEF Inline, ResolverInv

LEMMA ReturnLeftKeeps ==
    ASSUME ResolverInv, Running, Return(Top.left), UNCHANGED <<input, flags, unresolved, too_deep>>,
           moved' \subseteq Nodes
    PROVE  ResolverInv'
<1>1. Top.left \subseteq Reference /\ Top.left \subseteq Lefts(stack)
  BY TopHolds
<1>2. /\ Path(stack') /\ Marks(visited', stack') /\ result' \subseteq Reference
      /\ Lefts(stack') \cup result' \subseteq Lefts(stack) \cup result \cup Top.left
  BY <1>1, ReturnHolds
<1> QED
  BY <1>1, <1>2, QuietStep

LEMMA KeepRefKeeps ==
    ASSUME ResolverInv, KeepRef PROVE ResolverInv'
<1> DEFINE kept == {Ref(Top.node)}
<1>1. /\ Running /\ Top.at = "inlined" /\ HasPointer(Top.left)
      /\ Become(Keywords(Top, kept)) /\ UNCHANGED visited
  BY DEF KeepRef, WithSiblings, At
<1>2. kept \subseteq Reference
  BY <1>1, TopHolds, RefTyped DEF FrameHolds
<1>3. PICK pointer \in Lefts(stack) : IsLocal(pointer)
  BY <1>1, TopHolds DEF HasPointer
<1>4. ~ cycle_found /\ ~ unresolved => mode # "full" /\ ~ (~ ResolvesHost /\ PlainPointers)
  BY <1>3 DEF ResolverInv, LeftsHold, Bundled
<1>5. {cycle_found', needs_bundle', unresolved', too_deep'} \subseteq BOOLEAN
  BY DEF KeepRef, ResolverInv, FlagsHold, flags
<1>6. UNCHANGED cycle_found /\ UNCHANGED needs_bundle
  BY DEF KeepRef, flags
<1> HIDE DEF kept
<1>7. ASSUME NEW new, new = kept PROVE ResolverInv'
  <2>1. /\ Keywords(Top, kept) \in Frame /\ FrameHolds(Keywords(Top, kept))
        /\ Keywords(Top, kept).node = Top.node /\ Keywords(Top, kept).at # "target"
        /\ Keywords(Top, kept).left = kept
    BY <1>1, <1>2, KeywordsHold
  <2>2. Path(stack') /\ Marks(visited', stack') /\ Lefts(stack') \subseteq Lefts(stack) \cup new
    BY <1>1, <1>7, <2>1, BecomeHolds
  <2>3. Lefts(stack') \cup result' \subseteq Lefts(stack) \cup result \cup new
    BY <2>2 DEF KeepRef
  <2> QED
    BY <1>4, <1>5, <1>6, <2>2, <2>3, StepKeeps DEF KeepRef, ResolverInv
<1> QED
  BY <1>7

LEMMA ComposeKeeps ==
    ASSUME ResolverInv, Compose PROVE ResolverInv'
<1>1. Running /\ Become(Keywords(Top, Top.left)) /\ UNCHANGED visited
  BY DEF Compose, WithSiblings, At
<1>2. Top.left \subseteq Reference /\ Top.left \subseteq Lefts(stack) /\ Top.node \in Nodes
  BY <1>1, TopHolds
<1>3. /\ Path(stack') /\ Marks(visited', stack')
      /\ Lefts(stack') \subseteq Lefts(stack) \cup Keywords(Top, Top.left).left
  BY <1>1, <1>2, KeywordsHold, BecomeHolds
<1>4. Keywords(Top, Top.left).left = Top.left
  BY <1>1, <1>2, KeywordsHold
<1>5. Within({n \in SubsOf(Top.node) : Node(n).place = "allOf"}) \subseteq Nodes
  <2>1. \A n \in SubsOf(Top.node) : n \in Nodes
    BY <1>2, PositionTyped DEF ResolverInv
  <2>2. \A n \in SubsOf(Top.node) : From(n, SubsIn(case)) \subseteq Nodes
    BY <2>1, DocumentTree DEF ResolverInv
  <2> QED
    BY <2>2 DEF Within
<1>6. moved' \subseteq Nodes
  BY <1>5 DEF Compose, ResolverInv
<1> QED
  BY <1>2, <1>3, <1>4, <1>6, QuietStep DEF Compose, ResolverInv

LEMMA DropSiblingsKeeps ==
    ASSUME ResolverInv, DropSiblings PROVE ResolverInv'
<1>1. Running /\ Return(Top.left) /\ UNCHANGED <<input, flags, unresolved, too_deep>>
  BY DEF DropSiblings, WithSiblings, At
<1>2. Below(Top.node) \subseteq Nodes
  BY <1>1, TopHolds, AuthoredTyped DEF ResolverInv
<1>3. moved' \subseteq Nodes
  BY <1>2 DEF DropSiblings, ResolverInv
<1> QED
  BY <1>1, <1>3, ReturnLeftKeeps

(* The subschemas still to resolve are subschemas of the position. *)
LEMMA RestHolds ==
    ASSUME ResolverInv, Subschema
    PROVE  LET f == [Top EXCEPT !.todo = Tail(@)]
           IN  /\ f \in Frame /\ FrameHolds(f) /\ f.node = Top.node /\ f.at = "subs"
               /\ f.left = Top.left
               /\ Head(Top.todo) \in SubsOf(Top.node)
<1>1. Running /\ Top.at = "subs" /\ Top.todo # <<>>
  BY DEF Subschema, At
<1>2. Top \in Frame /\ FrameHolds(Top) /\ Top.todo \in Seq(Nodes)
  BY <1>1, TopHolds DEF Frame
<1>3. Len(Top.todo) \in Nat \ {0} /\ DOMAIN Top.todo = 1 .. Len(Top.todo)
  BY <1>1, <1>2, EmptySeq, LenProperties
<1>4. /\ Tail(Top.todo) \in Seq(Nodes) /\ Len(Tail(Top.todo)) = Len(Top.todo) - 1
      /\ \A i \in 1 .. Len(Tail(Top.todo)) : Tail(Top.todo)[i] = Top.todo[i + 1]
  BY <1>1, <1>2, HeadTailProperties
<1>5. DOMAIN Tail(Top.todo) = 1 .. Len(Tail(Top.todo))
  BY <1>4, LenProperties
<1>6. \A i \in DOMAIN Tail(Top.todo) : Tail(Top.todo)[i] \in SubsOf(Top.node)
  <2>1. \A i \in 1 .. Len(Tail(Top.todo)) : i + 1 \in 1 .. Len(Top.todo)
    BY <1>3, <1>4
  <2> QED
    BY <1>2, <1>3, <1>4, <1>5, <2>1 DEF FrameHolds
<1>7. Head(Top.todo) \in SubsOf(Top.node)
  BY <1>1, <1>2, <1>3 DEF FrameHolds
<1> DEFINE f == [Top EXCEPT !.todo = Tail(@)]
<1>8. /\ f \in Frame /\ f.node = Top.node /\ f.at = "subs" /\ f.left = Top.left
      /\ f.todo = Tail(Top.todo)
  BY <1>1, <1>2, <1>4 DEF Frame
<1> HIDE DEF f
<1>9. FrameHolds(f)
  BY <1>2, <1>6, <1>8 DEF FrameHolds
<1> QED
  BY <1>7, <1>8, <1>9 DEF f

LEMMA NextSubschemaKeeps ==
    ASSUME ResolverInv, NextSubschema PROVE ResolverInv'
<1> DEFINE f == [Top EXCEPT !.todo = Tail(@)]
           n == Head(Top.todo)
<1>1. Running /\ Subschema
  BY DEF NextSubschema, Subschema, At
<1>2. /\ f \in Frame /\ FrameHolds(f) /\ f.node = Top.node /\ f.at = "subs" /\ f.left = Top.left
      /\ n \in SubsOf(Top.node)
  BY <1>1, RestHolds
<1>3. stack' = Append([stack EXCEPT ![Len(stack)] = f], Entered(n))
  BY <1>1, TopHolds DEF NextSubschema, Top, ResolverInv, Path
<1> HIDE DEF f, n
<1>4. Known(n) /\ n \in Mentions[f.node]
  BY <1>1, <1>2, TopHolds, KnownMentions DEF ResolverInv
<1>5. IsPush(stack', stack, f, n)
  BY <1>1, <1>2, <1>3, <1>4, PushTop
<1>6. Follows(f, n)
  BY <1>2 DEF Follows
<1>7. /\ Path(stack') /\ Lefts(stack') \subseteq Lefts(stack)
      /\ Targeted(stack') = Targeted(stack)
  BY <1>2, <1>4, <1>5, <1>6, PushHolds DEF ResolverInv
<1>8. \A j \in Targeted(stack) : stack'[j].node = stack[j].node
  <2>1. \A j \in 1 .. Len(stack) : j \in 1 .. Len(stack) - 1 \/ j = Len(stack)
    BY <1>1, TopHolds
  <2> QED
    BY <1>2, <1>5, <2>1 DEF IsPush, Targeted, Top
<1>9. Marks(visited', stack')
  BY <1>7, <1>8 DEF Marks, NextSubschema, ResolverInv
<1> QED
  BY <1>7, <1>9, QuietStep DEF NextSubschema, ResolverInv

LEMMA OmitSubschemaKeeps ==
    ASSUME ResolverInv, OmitSubschema PROVE ResolverInv'
<1> DEFINE f == [Top EXCEPT !.todo = Tail(@)]
<1>1. Running /\ Subschema /\ Become(f) /\ UNCHANGED visited
  BY DEF OmitSubschema, Subschema, At
<1>2. f \in Frame /\ FrameHolds(f) /\ f.node = Top.node /\ f.at = "subs" /\ f.left = Top.left
  BY <1>1, RestHolds
<1> HIDE DEF f
<1>3. /\ Path(stack') /\ Marks(visited', stack')
      /\ Lefts(stack') \subseteq Lefts(stack) \cup Top.left
  BY <1>1, <1>2, BecomeHolds
<1>4. Top.left \subseteq Lefts(stack)
  BY <1>1, TopHolds
<1> QED
  BY <1>3, <1>4, QuietStep DEF OmitSubschema, ResolverInv

(* A second walk starts where the first one did, with nothing held against *)
(* it.                                                                     *)
LEMMA ResolveAgainKeeps ==
    ASSUME ResolverInv, ResolveAgain PROVE ResolverInv'
<1>1. /\ UNCHANGED case /\ UNCHANGED mode /\ stack = <<>>
      /\ ~ ResolvesHost /\ Uri(Host) # Nowhere
      /\ stack' = <<Entered(case.fragment)>> /\ result' = {} /\ contextual' = TRUE
      /\ cycle_found' = FALSE /\ needs_bundle' = FALSE
      /\ UNCHANGED <<unresolved, too_deep, moved, visited>>
  BY DEF ResolveAgain, Retries, Running
<1>2. visited = {}
  BY <1>1 DEF ResolverInv, Marks, Targeted
<1>3. Path(stack') /\ Marks({}, stack') /\ Lefts(stack') = {}
  BY <1>1, StartHolds DEF ResolverInv
<1>4. Path(stack)' /\ Marks(visited, stack)'
  BY <1>1, <1>2, <1>3, PathStays
<1>5. FlagsHold'
  <2>1. {contextual', cycle_found', needs_bundle', unresolved', too_deep'} \subseteq BOOLEAN
    BY <1>1 DEF FlagsHold, ResolverInv
  <2>2. mode = "partial"
    BY <1>1 DEF FlagsHold, ResolverInv
  <2>3. unresolved' => Dangling(Mentioned) \/ too_deep'
    BY <1>1 DEF FlagsHold, ResolverInv
  <2>4. (Dangling(Mentioned)' <=> Dangling(Mentioned)) /\ ResolvesHost' = ResolvesHost /\ Uri(Host)' = Uri(Host)
    BY <1>1, CaseStays
  <2> QED
    BY <1>1, <2>1, <2>2, <2>3, <2>4 DEF FlagsHold
<1>6. Lefts(stack)' = Lefts(stack')
  BY DEF Lefts
<1>7. LeftsHold'
  BY <1>1, <1>3, <1>6 DEF LeftsHold
<1>8. IsCase(case)' /\ (mode \in Modes)' /\ (moved \subseteq Nodes)' /\ (result \subseteq Reference)'
  BY <1>1 DEF ResolverInv
<1> QED
  BY <1>4, <1>5, <1>7, <1>8 DEF ResolverInv

-----------------------------------------------------------------------------
(* The invariant, and what follows from it.                                *)

LEMMA InitResolver == Init => ResolverInv
<1> SUFFICES ASSUME Init PROVE ResolverInv
  OBVIOUS
<1>1. IsCase(case) /\ mode \in Modes /\ stack = <<Entered(case.fragment)>> /\ visited = {}
      /\ moved = {} /\ result = {}
  BY ResolverAssumption DEF Init
<1>2. Path(stack) /\ Marks(visited, stack) /\ Lefts(stack) = {}
  BY <1>1, StartHolds
<1>3. FlagsHold
  BY ResolverAssumption DEF Init, FlagsHold
<1>4. LeftsHold
  BY <1>1, <1>2 DEF LeftsHold
<1> QED
  BY <1>1, <1>2, <1>3, <1>4 DEF ResolverInv

LEMMA StepResolver == ResolverInv /\ [Step \/ Rest]_vars => ResolverInv'
<1> SUFFICES ASSUME ResolverInv, [Step \/ Rest]_vars PROVE ResolverInv'
  OBVIOUS
<1>1. CASE WithoutRef BY <1>1, WithoutRefKeeps
<1>2. CASE MeetWhole BY <1>2, MeetWholeKeeps
<1>3. CASE MeetPointerAgain BY <1>3, MeetPointerAgainKeeps
<1>4. CASE RebasePointer BY <1>4, RebasePointerKeeps
<1>5. CASE MeetDocumentAgain BY <1>5, MeetDocumentAgainKeeps
<1>6. CASE MeetTooDeep BY <1>6, MeetTooDeepKeeps
<1>7. CASE MeetMissing BY <1>7, MeetMissingKeeps
<1>8. CASE Inline BY <1>8, InlineKeeps
<1>9. CASE ReplaceByTarget
  BY <1>9, ReturnLeftKeeps DEF ReplaceByTarget, At, ResolverInv
<1>10. CASE KeepRef BY <1>10, KeepRefKeeps
<1>11. CASE DropSiblings BY <1>11, DropSiblingsKeeps
<1>12. CASE Compose BY <1>12, ComposeKeeps
<1>13. CASE NextSubschema BY <1>13, NextSubschemaKeeps
<1>14. CASE OmitSubschema BY <1>14, OmitSubschemaKeeps
<1>15. CASE KeywordsDone
  BY <1>15, ReturnLeftKeeps DEF KeywordsDone, At, ResolverInv
<1>16. CASE ResolveAgain BY <1>16, ResolveAgainKeeps
<1>17. CASE Rest \/ UNCHANGED vars
  <2>1. UNCHANGED vars
    BY <1>17 DEF Rest
  <2>2. UNCHANGED <<input, flags, unresolved, too_deep>> /\ UNCHANGED <<stack, visited, result, moved>>
    BY <2>1 DEF vars, input, flags
  <2>3. Path(stack') /\ Marks(visited', stack') /\ Lefts(stack') \cup result' \subseteq Lefts(stack) \cup result
    BY <2>2 DEF ResolverInv
  <2> QED
    BY <2>2, <2>3, QuietStep DEF ResolverInv
<1> QED
  BY <1>1, <1>2, <1>3, <1>4, <1>5, <1>6, <1>7, <1>8, <1>9, <1>10, <1>11, <1>12, <1>13, <1>14,
     <1>15, <1>16, <1>17 DEF Step

(* The path, its marks and the flags fit together at every step of a        *)
(* resolution (resolve_inner, Walk).                                        *)
THEOREM ResolverInvHolds == Spec => []ResolverInv
BY InitResolver, StepResolver, PTL DEF Spec

(* The state has its type: the marks are those of the targets on the stack, *)
(* and there are never more than MaxDepth of them (Walk, resolve_inner).    *)
THEOREM ResolverTyped == Spec => []TypeOK
<1>1. ResolverInv => TypeOK
  BY LenProperties DEF ResolverInv, TypeOK, FlagsHold, Path, Marks, Targeted
<1> QED
  BY <1>1, ResolverInvHolds, PTL

(* A schema is refused for a reason it holds: what is called circular has a *)
(* reference that leads back to itself and may not stay, what is called     *)
(* unresolved one that leads nowhere, or too deep (resolve_in).             *)
THEOREM RefusalsHaveCause == Spec => []RefusedForCause
<1>1. ASSUME ResolverInv PROVE RefusedForCause
  <2>1. ASSUME Outcome = "circular"
        PROVE  Recursive(Mentioned, Mentions) /\ (ResolvesHost \/ Uri(Host) = Nowhere \/ unresolved)
    <3>1. cycle_found /\ Done
      BY <2>1 DEF Outcome
    <3>2. ~ contextual /\ mode \in {"partial", "full"} /\ (~ ResolvesHost => mode = "partial")
      BY <1>1, <3>1, ResolverAssumption DEF ResolverInv, FlagsHold
    <3>3. ResolvesHost \/ Uri(Host) = Nowhere \/ unresolved
      BY <3>1, <3>2 DEF Done, Retries
    <3> QED
      BY <1>1, <3>1, <3>3 DEF ResolverInv, FlagsHold
  <2>2. ASSUME Outcome = "unresolved"
        PROVE  Dangling(Mentioned) \/ too_deep \/ (needs_bundle /\ MissingResource)
    <3>1. ~ cycle_found /\ (unresolved \/ Remaining \/ (needs_bundle /\ MissingResource))
      BY <2>2 DEF Outcome
    <3>2. ~ unresolved => ~ Remaining
      BY <1>1, <3>1 DEF ResolverInv, LeftsHold, Remaining
    <3> QED
      BY <1>1, <3>1, <3>2 DEF ResolverInv, FlagsHold
  <2> QED
    BY <2>1, <2>2 DEF RefusedForCause
<1> QED
  BY <1>1, ResolverInvHolds, PTL

(* A fragment stands by itself: every reference left in it names a document *)
(* that is bundled with it (resolve_in, bundle_resources).                  *)
THEOREM FragmentsStand == Spec => []FragmentsClosed
<1>1. ASSUME ResolverInv PROVE FragmentsClosed
  <2>1. Outcome = "resolved" => ~ cycle_found /\ ~ unresolved
    BY DEF Outcome
  <2> QED
    BY <1>1, <2>1 DEF ResolverInv, LeftsHold, Bundled, FragmentsClosed
<1> QED
  BY <1>1, ResolverInvHolds, PTL
=============================================================================
