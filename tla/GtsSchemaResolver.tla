-------------------------- MODULE GtsSchemaResolver --------------------------
(***************************************************************************)
(* SchemaResolver (schema_resolver.rs): `$ref` inlining of a schema        *)
(* document, or of a fragment of one, by depth-first search, with a set of *)
(* the targets on the path.  A fragment whose recursion stays is resolved  *)
(* a second time, with its pointers rebased onto the documents they are in *)
(* and those documents bundled into the result.                            *)
(*                                                                         *)
(* A document is a tree of schema positions.  A position may carry a       *)
(* reference, with or without sibling keywords, into its own document (a   *)
(* pointer `#...`) or into a registered one (`gts://...`); keywords other  *)
(* than `$ref` matter only as the places of subschemas.  The recursion of  *)
(* resolve_inner is a stack of frames, one per position being resolved.    *)
(*                                                                         *)
(* Left out: documents embedded in a document, references not in pointer   *)
(* form.                                                                   *)
(***************************************************************************)
EXTENDS Naturals, FiniteSets, SequencesExt

CONSTANTS
    Nodes,      \* schema positions
    Host,       \* the root of the document that is resolved, or a part of it
    TypeIds,
    Nowhere,    \* "no such position", "no such reference"
    Cases,      \* documents to resolve and registries to resolve against
    Modes,      \* of "partial" and "full", the ones to resolve in
    MaxDepth    \* MAX_REF_CHAIN_DEPTH

(* pointer: the target of `#...`, or of the fragment of a `gts://...#...`; *)
(* without a fragment the whole document is meant.                         *)
Reference ==
    [kind : {"local"}, id : {Nowhere}, pointer : Nodes \cup {Nowhere}]
        \cup [kind : {"gts"}, id : TypeIds, pointer : Nodes \cup {"whole", Nowhere}]

(* place: below which keyword of its parent a subschema sits.              *)
Position ==
    [root : Nodes, ref : Reference \cup {Nowhere}, alone : BOOLEAN,
     subs : Seq(Nodes), place : {"key", "allOf", "traits"}]

(* What is reached from n along the edges of a finite graph.               *)
From(n, edges) ==
    LET After[k \in 0 .. Cardinality(DOMAIN edges)] ==
            IF k = 0 THEN {n}
            ELSE LET before == After[k - 1]
                 IN  before \cup UNION {edges[m] : m \in before}
    IN After[Cardinality(DOMAIN edges)]

SubsIn(case) == [n \in Nodes |-> Range(case.node[n].subs)]

(* The types that a document refers to.                                    *)
TypesIn(case, root) ==
    LET refs == {case.node[n].ref : n \in From(root, SubsIn(case))} \ {Nowhere}
    IN  {ref.id : ref \in {r \in refs : r.kind = "gts"}}

(* A document is what is below its root.  A type is registered under the   *)
(* id that its schema declares, and under no other content (register_schema,*)
(* ImmutableConflict): a document with the URI of the host is a copy of it.*)
IsCase(case) ==
    /\ case.node \in [Nodes -> Position]
    /\ DOMAIN case.stored \subseteq TypeIds
    /\ \A t \in DOMAIN case.stored :
          LET root == case.stored[t] IN
          /\ root \in Nodes /\ case.node[root].root = root /\ case.uri[root] = t
          /\ t = case.uri[Host] => TypesIn(case, root) = TypesIn(case, Host)
    /\ case.dialect \in {"draft-07", "later"}
    /\ case.fragment \in Nodes /\ case.node[case.fragment].root = Host
    /\ case.uri \in [{case.node[n].root : n \in Nodes} -> TypeIds \cup {Nowhere}]
    /\ \A root \in {case.node[n].root : n \in Nodes} :
          From(root, SubsIn(case)) = {n \in Nodes : case.node[n].root = root}
    /\ \A n \in Nodes :
          LET pos == case.node[n] IN
          /\ pos.ref = Nowhere => ~pos.alone
          /\ pos.alone => pos.subs = <<>>
          /\ (pos.ref # Nowhere /\ pos.ref.kind = "local" /\ pos.ref.pointer # Nowhere) =>
                 case.node[pos.ref.pointer].root = pos.root

ASSUME ResolverAssumption ==
    /\ Host \in Nodes /\ Nowhere \notin Nodes \cup TypeIds
    /\ IsFiniteSet(Nodes) /\ IsFiniteSet(TypeIds)
    /\ \A case \in Cases : IsCase(case)
    /\ Modes \subseteq {"partial", "full"}
    /\ MaxDepth \in Nat

VARIABLES
    case,         \* the document, its dialect and the registry
    mode,         \* ResolutionMode
    contextual,   \* the fragment is resolved a second time
    stack,        \* positions being resolved, the fragment first
    visited,      \* keys of the `$ref` targets on the path
    cycle_found,
    needs_bundle, \* a rebased pointer stays
    unresolved,   \* an unresolvable reference was met
    too_deep,     \* ... because of the depth of the path
    moved,        \* history: positions of the host that the result does not
                  \*   hold where they were
    result        \* the references left in the result

vars == <<case, mode, contextual, stack, visited, cycle_found, needs_bundle,
          unresolved, too_deep, moved, result>>
input == <<case, mode, contextual>>
flags == <<cycle_found, needs_bundle>>

---------------------------------------------------------------------------
Node(n) == case.node[n]
Ref(n) == Node(n).ref
IsLocal(ref) == ref # Nowhere /\ ref.kind = "local"
SubsOf(n) == SubsIn(case)[n]

(* The schema positions of some parts of a document, and those below n.    *)
Within(S) == UNION {From(n, SubsIn(case)) : n \in S}

Below(n) == Within(SubsOf(n))

(* resolves_host: the document is resolved whole.                          *)
ResolvesHost == case.fragment = Host

(* resource_uri of the document of a position.                             *)
Uri(n) == case.uri[Node(n).root]

(* Slip: the pointer stays as it is.                                       *)
Unrebased(n) == Ref(n)

(* A pointer, from wherever its document is bundled.                       *)
Rebased(n) == [kind |-> "gts", id |-> Uri(n), pointer |-> Ref(n).pointer]

(* What the path remembers of a reference: a pointer is told apart by its  *)
(* document, a URI is not.                                                 *)
Key(n) == [ref |-> Ref(n), from |-> IF IsLocal(Ref(n)) THEN Node(n).root ELSE Nowhere]

(* locate: pointers count positions of their own document. *)
Locate(root, pointer) ==
    IF pointer # Nowhere /\ Node(pointer).root = root THEN pointer ELSE Nowhere

Target(n) ==
    LET ref == Ref(n) IN
    IF ref.kind = "local" THEN Locate(Node(n).root, ref.pointer)
    ELSE IF ref.id \notin DOMAIN case.stored THEN Nowhere
    ELSE LET content == case.stored[ref.id]
         IN  IF ref.pointer = "whole" THEN content ELSE Locate(content, ref.pointer)

(***************************************************************************)
(* A frame: the position, what it is doing, the subschemas still to        *)
(* resolve, and the references left so far in what it will return.         *)
(***************************************************************************)
Frame ==
    [node : Nodes, at : {"enter", "target", "inlined", "subs"},
     todo : Seq(Nodes), left : SUBSET Reference]

Entered(n) == [node |-> n, at |-> "enter", todo |-> <<>>, left |-> {}]

Top == stack[Len(stack)]
Running == stack # <<>>
At(stage) == Running /\ Top.at = stage

(* External targets on the path lose their type-level metadata. *)
InlinedRoots ==
    {stack[k + 1].node : k \in {j \in 1 .. Len(stack) - 1 :
        stack[j].at = "target" /\ Ref(stack[j].node).kind = "gts"}}

(* is_type_root_keyword *)
IsTypeRoot(s) == Node(s).place = "traits"

(* resolve_keywords: the frame turns to the subschemas of its position. *)
Keywords(f, left) ==
    [f EXCEPT !.at = "subs", !.left = left, !.todo = Node(f.node).subs]

Become(f) == stack' = [stack EXCEPT ![Len(stack)] = f]

(* Slip: a target entered once is taken for recursion ever after. *)
ReturnKeepingPath(left) ==
    IF Len(stack) = 1
    THEN stack' = <<>> /\ result' = left /\ UNCHANGED visited
    ELSE LET caller == stack[Len(stack) - 1]
             rest == SubSeq(stack, 1, Len(stack) - 1)
             inlining == caller.at = "target"
         IN /\ stack' = [rest EXCEPT ![Len(rest)] =
                 [caller EXCEPT !.at = IF inlining THEN "inlined" ELSE @,
                                !.left = IF inlining THEN left ELSE @ \cup left]]
            /\ UNCHANGED <<visited, result>>

(* The frame returns; its caller goes on with what is left. *)
Return(left) ==
    IF Len(stack) = 1
    THEN stack' = <<>> /\ result' = left /\ UNCHANGED visited
    ELSE LET caller == stack[Len(stack) - 1]
             rest == SubSeq(stack, 1, Len(stack) - 1)
             inlining == caller.at = "target"
         IN /\ stack' = [rest EXCEPT ![Len(rest)] =
                 [caller EXCEPT !.at = IF inlining THEN "inlined" ELSE @,
                                !.left = IF inlining THEN left ELSE @ \cup left]]
            /\ visited' = IF inlining THEN visited \ {Key(caller.node)} ELSE visited
            /\ UNCHANGED result

(* The references of a position copied as it is. *)
AsAuthored(n) == {Ref(m) : m \in Within({n})} \ {Nowhere}

Init ==
    /\ case \in Cases /\ mode \in Modes
    /\ ResolvesHost \/ mode = "partial"
    /\ contextual = FALSE
    /\ stack = <<Entered(case.fragment)>>
    /\ visited = {}
    /\ cycle_found = FALSE /\ needs_bundle = FALSE
    /\ unresolved = FALSE /\ too_deep = FALSE
    /\ moved = {} /\ result = {}
---------------------------------------------------------------------------
(* resolve_inner *)

WithoutRef ==
    /\ At("enter") /\ Ref(Top.node) = Nowhere
    /\ Become(Keywords(Top, {}))
    /\ UNCHANGED <<input, visited, flags, unresolved, too_deep, moved, result>>

Refers(kind) == At("enter") /\ Ref(Top.node) # Nowhere /\ Ref(Top.node).kind = kind

(* In a fragment resolved a second time, a document that is meant whole is *)
(* not inlined into itself.                                                *)
MeansWholeBundled ==
    contextual /\ Refers("local") /\ Ref(Top.node).pointer = Node(Top.node).root /\ Uri(Top.node) # Nowhere

MeetWhole ==
    /\ MeansWholeBundled
    /\ needs_bundle' = TRUE
    /\ Become([Top EXCEPT !.at = "inlined", !.left = {Rebased(Top.node)}])
    /\ UNCHANGED <<input, visited, cycle_found, unresolved, too_deep, moved, result>>

Meets(kind) == Refers(kind) /\ ~MeansWholeBundled

OnPath == Key(Top.node) \in visited

(* Slip: recursion within any document stays. *)
KeepsAnyRecursion(n) == mode = "partial"

(* keeps_recursion: the pointer resolves from the document being resolved, *)
(* and that is resolved whole.                                             *)
KeepsRecursion(n) == mode = "partial" /\ Node(n).root = Host /\ ResolvesHost

(* rebases_recursion: it would dangle in a fragment.                       *)
RebasesRecursion(n) == mode = "partial" /\ Node(n).root = Host /\ ~ResolvesHost

Rebases(n) == (contextual \/ RebasesRecursion(n)) /\ Uri(n) # Nowhere

(* A pointer met again stays as authored, siblings included. *)
MeetPointerAgain ==
    /\ Meets("local") /\ OnPath /\ ~Rebases(Top.node)
    /\ cycle_found' = (cycle_found \/ ~KeepsRecursion(Top.node))
    /\ Return(AsAuthored(Top.node))
    /\ UNCHANGED <<input, needs_bundle, unresolved, too_deep, moved>>

RebasePointer ==
    /\ Meets("local") /\ OnPath /\ Rebases(Top.node)
    /\ needs_bundle' = TRUE
    /\ Return({Rebased(Top.node)} \cup UNION {AsAuthored(m) : m \in SubsOf(Top.node)})
    /\ UNCHANGED <<input, cycle_found, unresolved, too_deep, moved>>

(* A document met again: the cycle edge stays, its siblings are resolved.  *)
MeetDocumentAgain ==
    /\ Meets("gts") /\ OnPath
    /\ IF contextual THEN needs_bundle' = TRUE /\ UNCHANGED cycle_found
                     ELSE cycle_found' = TRUE /\ UNCHANGED needs_bundle
    /\ Become(Keywords(Top, {Ref(Top.node)}))
    /\ UNCHANGED <<input, visited, unresolved, too_deep, moved, result>>

MeetTooDeep ==
    /\ Meets("local") \/ Meets("gts")
    /\ ~OnPath
    /\ Cardinality(visited) >= MaxDepth
    /\ unresolved' = TRUE /\ too_deep' = TRUE
    /\ Return(AsAuthored(Top.node))
    /\ UNCHANGED <<input, flags, moved>>

Fresh == (Meets("local") \/ Meets("gts")) /\ ~OnPath /\ Cardinality(visited) < MaxDepth

MeetMissing ==
    /\ Fresh /\ Target(Top.node) = Nowhere
    /\ unresolved' = TRUE
    /\ Become(Keywords(Top, {Ref(Top.node)}))
    /\ UNCHANGED <<input, visited, flags, too_deep, moved, result>>

(* Slip: the target is not entered into the path. *)
InlineUnmarked ==
    /\ Fresh /\ Target(Top.node) # Nowhere
    /\ stack' = Append([stack EXCEPT ![Len(stack)].at = "target"],
                       Entered(Target(Top.node)))
    /\ UNCHANGED <<input, visited, flags, unresolved, too_deep, moved, result>>

Inline ==
    /\ Fresh /\ Target(Top.node) # Nowhere
    /\ visited' = visited \cup {Key(Top.node)}
    /\ stack' = Append([stack EXCEPT ![Len(stack)].at = "target"],
                       Entered(Target(Top.node)))
    /\ UNCHANGED <<input, flags, unresolved, too_deep, moved, result>>

---------------------------------------------------------------------------
(* resolved_ref_with_siblings *)

HasPointer(left) == \E ref \in left : IsLocal(ref)

(* The host is resolved in place as long as no target is on the path. *)
InPlace == ResolvesHost /\ visited = {}

ReplaceByTarget ==
    /\ At("inlined") /\ Node(Top.node).alone
    /\ Return(Top.left)
    /\ UNCHANGED <<input, flags, unresolved, too_deep, moved>>

WithSiblings == At("inlined") /\ ~Node(Top.node).alone

(* The target keeps a recursive pointer: the reference stays as authored. *)
KeepRef ==
    /\ WithSiblings /\ HasPointer(Top.left)
    /\ Become(Keywords(Top, {Ref(Top.node)}))
    /\ UNCHANGED <<input, visited, flags, unresolved, too_deep, moved, result>>

(* Draft-07 ignores the siblings of a reference. *)
DropSiblings ==
    /\ WithSiblings /\ ~HasPointer(Top.left) /\ case.dialect = "draft-07"
    /\ moved' = IF InPlace THEN moved \cup Below(Top.node) ELSE moved
    /\ Return(Top.left)
    /\ UNCHANGED <<input, flags, unresolved, too_deep>>

(* The target becomes the first branch of the siblings' allOf. *)
Compose ==
    /\ WithSiblings /\ ~HasPointer(Top.left) /\ case.dialect = "later"
    /\ Become(Keywords(Top, Top.left))
    /\ moved' = IF InPlace
                THEN moved \cup Within({n \in SubsOf(Top.node) : Node(n).place = "allOf"})
                ELSE moved
    /\ UNCHANGED <<input, visited, flags, unresolved, too_deep, result>>

---------------------------------------------------------------------------
(* resolve_keywords *)

Subschema == At("subs") /\ Top.todo # <<>>

Omitted == Top.node \in InlinedRoots /\ IsTypeRoot(Head(Top.todo))

NextSubschema ==
    /\ Subschema /\ ~Omitted
    /\ stack' = Append([stack EXCEPT ![Len(stack)].todo = Tail(@)],
                       Entered(Head(Top.todo)))
    /\ UNCHANGED <<input, visited, flags, unresolved, too_deep, moved, result>>

OmitSubschema ==
    /\ Subschema /\ Omitted
    /\ Become([Top EXCEPT !.todo = Tail(@)])
    /\ UNCHANGED <<input, visited, flags, unresolved, too_deep, moved, result>>

KeywordsDone ==
    /\ At("subs") /\ Top.todo = <<>>
    /\ Return(Top.left)
    /\ UNCHANGED <<input, flags, unresolved, too_deep, moved>>

(* resolve_in: a fragment that kept recursion is resolved again.           *)
Retries ==
    /\ ~Running /\ ~contextual
    /\ cycle_found \/ needs_bundle
    /\ ~unresolved /\ mode = "partial" /\ ~ResolvesHost /\ Uri(Host) # Nowhere

ResolveAgain ==
    /\ Retries
    /\ contextual' = TRUE
    /\ stack' = <<Entered(case.fragment)>>
    /\ cycle_found' = FALSE /\ needs_bundle' = FALSE
    /\ result' = {}
    /\ UNCHANGED <<case, mode, visited, unresolved, too_deep, moved>>

Done == ~Running /\ ~Retries

(* resolve returned. *)
Rest == Done /\ UNCHANGED vars

Step ==
    \/ WithoutRef
    \/ MeetWhole \/ MeetPointerAgain \/ RebasePointer \/ MeetDocumentAgain
    \/ MeetTooDeep \/ MeetMissing \/ Inline
    \/ ReplaceByTarget \/ KeepRef \/ DropSiblings \/ Compose
    \/ NextSubschema \/ OmitSubschema \/ KeywordsDone \/ ResolveAgain

Spec == Init /\ [][Step \/ Rest]_vars

(* The resolver runs to its end: it is one synchronous call. *)
FairSpec == Spec /\ WF_vars(Step)

(* bundle_resources: the host and whatever documents it leads to, under    *)
(* their URIs; a registered document has one.                              *)
ReferredBy(root) == TypesIn(case, root)

Named(id) == IF id = Uri(Host) THEN Host ELSE case.stored[id]

Resources ==
    From(Uri(Host),
         [id \in TypeIds |-> IF id \in DOMAIN case.stored \cup {Uri(Host)}
                             THEN ReferredBy(Named(id)) ELSE {}])

MissingResource == ~(Resources \subseteq DOMAIN case.stored \cup {Uri(Host)})

(* remaining_refs: full mode leaves none. *)
Remaining == mode = "full" /\ result # {}

(* resolve_in: a cycle is reported before an unresolved reference. *)
Outcome ==
    IF ~Done THEN "running"
    ELSE IF cycle_found THEN "circular"
    ELSE IF unresolved \/ Remaining THEN "unresolved"
    ELSE IF needs_bundle /\ MissingResource THEN "unresolved"
    ELSE "resolved"
---------------------------------------------------------------------------
(* Properties. *)

TypeOK ==
    /\ IsCase(case) /\ mode \in Modes
    /\ contextual \in BOOLEAN
    /\ stack \in Seq(Frame)
    /\ visited = {Key(stack[k].node) : k \in {j \in DOMAIN stack : stack[j].at = "target"}}
    /\ Cardinality(visited) <= MaxDepth
    /\ {cycle_found, needs_bundle, unresolved, too_deep} \subseteq BOOLEAN
    /\ moved \subseteq Nodes /\ result \subseteq Reference

TargetsOf(n) == IF Ref(n) = Nowhere THEN {} ELSE {Target(n)} \ {Nowhere}

(* Draft-07 ignores what stands beside a reference. *)
Ignored(n) == case.dialect = "draft-07" /\ Ref(n) # Nowhere

(* What a position says by the rules of its dialect.  What belongs to a    *)
(* type itself counts at the root of what is resolved and nowhere else.    *)
Needs ==
    [n \in Nodes |->
        TargetsOf(n) \cup IF Ignored(n) THEN {} ELSE {m \in SubsOf(n) : ~IsTypeRoot(m)}]

Starts ==
    {case.fragment}
        \cup IF Ignored(case.fragment) THEN {} ELSE {m \in SubsOf(case.fragment) : IsTypeRoot(m)}

Needed == UNION {From(n, Needs) : n \in Starts}

(* All that a position mentions. *)
Mentions == [n \in Nodes |-> TargetsOf(n) \cup SubsOf(n)]

Mentioned == From(case.fragment, Mentions)

(* A reference that leads back to itself and that cannot stay. *)
Recursive(positions, edges) ==
    \E n \in positions :
        /\ TargetsOf(n) # {}
        /\ n \in From(Target(n), edges)
        /\ ~(IsLocal(Ref(n)) /\ Node(n).root = Host /\ ResolvesHost /\ mode = "partial")

Dangling(positions) == \E n \in positions : Ref(n) # Nowhere /\ Target(n) = Nowhere

(* No pointer has references beside it. *)
BarePointers ==
    \A n \in Mentioned : IsLocal(Ref(n)) => \A m \in Below(n) : Ref(m) = Nowhere

(* A schema that resolves has no reference that leads nowhere: "dropping    *)
(* them would weaken the schema" (resolve_inner).  What stands beside a     *)
(* pointer that stays in a fragment is copied unread: see OnlyPointersLeft. *)
NoneDangling ==
    (Outcome = "resolved" /\ (ResolvesHost \/ BarePointers)) => ~Dangling(Needed)

(* Nor has it one that leads back to itself, but for pointers of the        *)
(* document itself in partial mode, and those of a fragment whose documents *)
(* are bundled: nothing is weakened silently (resolve_in, ResolutionMode).  *)
ResolvedIsSound ==
    /\ NoneDangling
    /\ Outcome = "resolved" => needs_bundle \/ ~Recursive(Needed, Needs)

(* A schema is refused for a reason it holds: repeated references to one    *)
(* target are not recursion ("Cycle detection is per DFS path"), recursion  *)
(* is no reason for a fragment that can be bundled unless a reference is    *)
(* unresolvable too (a cycle is reported first), and only a path of         *)
(* MaxDepth targets is too deep.                                            *)
RefusedForCause ==
    /\ Outcome = "circular" =>
          /\ Recursive(Mentioned, Mentions)
          /\ ResolvesHost \/ Uri(Host) = Nowhere \/ unresolved
    /\ Outcome = "unresolved" =>
          Dangling(Mentioned) \/ too_deep \/ (needs_bundle /\ MissingResource)

(* No pointer has siblings that hold pointers. *)
PlainPointers ==
    \A n \in Mentioned : IsLocal(Ref(n)) => \A m \in Below(n) : ~IsLocal(Ref(m))

(* A fragment stands by itself: whatever reference is left in it names a    *)
(* document bundled with it (resolve_in: "a fragment's recursive pointer    *)
(* into `host` is rebased onto `host`'s `$id`, and `host` is bundled into   *)
(* the result").  The siblings of a pointer that stays are copied as they   *)
(* are, pointers included: see OnlyPointersLeft.                            *)
FragmentsClosed ==
    (Outcome = "resolved" /\ ~ResolvesHost /\ PlainPointers) =>
        \A ref \in result : ~IsLocal(ref) /\ needs_bundle /\ ref.id \in Resources

(* Resolution ends on every document and registry.  No target is entered   *)
(* inside itself, so that resolve_inner recurses no deeper than there are  *)
(* references (visited) and the stack does not overflow, and the call      *)
(* returns.                                                                *)
Terminates ==
    /\ [](\A j, k \in DOMAIN stack :
             (stack[j].at = "target" /\ stack[k].at = "target" /\ j # k) =>
                 Key(stack[j].node) # Key(stack[k].node))
    /\ <>Done

(* A recursive pointer that stays names the same position in the result     *)
(* (keeps_recursion: "it must name the same node in the result").           *)
KeptPointersHold ==
    Outcome = "resolved" => {ref.pointer : ref \in result} \cap moved = {}

(* Only pointers of the document itself are left in a resolved schema       *)
(* (resolve_schema_refs_partial: "Inlines `$ref`s, keeping recursive        *)
(* same-document ones").                                                    *)
OnlyPointersLeft ==
    Outcome = "resolved" => \A ref \in result : IsLocal(ref)
=============================================================================
