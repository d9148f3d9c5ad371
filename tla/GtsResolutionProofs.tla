------------------------ MODULE GtsResolutionProofs -------------------------
(***************************************************************************)
(* What is proved of a resolution that succeeds, for every document and    *)
(* registry: nothing it needs is missing, in either mode (NothingDangles), *)
(* and nothing it needs leads back to itself, but for the pointers of a    *)
(* document that is kept whole (ResolutionSound).                          *)
(*                                                                         *)
(* Both speak of positions whose frames are long gone.  The invariants     *)
(* bound what was left behind: Explored, by what the frames on the stack   *)
(* will still enter; Settled, by what has all it needs behind it, so that  *)
(* a waiting position is not reached from its target when that returns.    *)
(* A document that is kept whole is walked, but parts of it are copied     *)
(* unread: only what it needs of other documents is settled.               *)
(***************************************************************************)
EXTENDS GtsResolverProofs

-----------------------------------------------------------------------------
(* What a position needs is a part of what it mentions.                    *)

LEMMA NeedsGraph ==
    ASSUME IsCase(case)
    PROVE  /\ IsGraph(Needs, Nodes)
           /\ Starts \subseteq Nodes
           /\ \A n \in Nodes : TargetsOf(n) \subseteq Nodes
<1>1. \A n \in Nodes : TargetsOf(n) \subseteq Nodes /\ SubsOf(n) \subseteq Nodes
  BY TargetTyped, PositionTyped DEF TargetsOf
<1>2. case.fragment \in Nodes
  BY DEF IsCase
<1> QED
  BY <1>1, <1>2, ResolverAssumption DEF IsGraph, Needs, Starts

(* Whatever holds what a resolution starts from, and all that it needs in   *)
(* turn, holds what it needs.                                               *)
LEMMA NeededWithin ==
    ASSUME IsCase(case), NEW C \in SUBSET Nodes, Starts \subseteq C, \A n \in C : Needs[n] \subseteq C
    PROVE  Needed \subseteq C
<1>1. \A n \in Starts : From(n, Needs) \subseteq C
  BY NeedsGraph, FromLeast
<1> QED
  BY <1>1 DEF Needed

LEMMA MentionedTyped ==
    ASSUME IsCase(case)
    PROVE  /\ Mentioned \subseteq Nodes
           /\ \A n \in Mentioned : Mentions[n] \subseteq Mentioned
           /\ case.fragment \in Mentioned
BY MentionsGraph, FromClosed DEF Mentioned, IsCase

LEMMA NeededMentioned ==
    ASSUME IsCase(case)
    PROVE  Starts \subseteq Mentioned /\ Needed \subseteq Mentioned
<1>1. \A n \in Mentioned : TargetsOf(n) \cup SubsOf(n) \subseteq Mentioned
  BY MentionedTyped DEF Mentions
<1>2. Starts \subseteq Mentioned
  BY <1>1, MentionedTyped DEF Starts
<1>3. \A n \in Mentioned : Needs[n] \subseteq Mentioned
  BY <1>1, MentionedTyped DEF Needs
<1> QED
  BY <1>2, <1>3, MentionedTyped, NeededWithin

(* A step leaves the document and the registry what they are. *)
LEMMA NeedsStay ==
    ASSUME UNCHANGED case, UNCHANGED mode
    PROVE  /\ Needs' = Needs /\ Starts' = Starts
           /\ \A n : Target(n)' = Target(n) /\ TargetsOf(n)' = TargetsOf(n) /\ Ref(n)' = Ref(n)
           /\ \A n : SubsOf(n)' = SubsOf(n) /\ (IsTypeRoot(n)' <=> IsTypeRoot(n))
           /\ \A n : Ignored(n)' <=> Ignored(n)
           /\ \A S : Within(S)' = Within(S)
           /\ Dangling(Needed)' <=> Dangling(Needed)
           /\ BarePointers' <=> BarePointers
<1>1. /\ \A n : Node(n)' = Node(n) /\ Ref(n)' = Ref(n) /\ SubsOf(n)' = SubsOf(n)
      /\ \A n : Below(n)' = Below(n)
      /\ \A S : Within(S)' = Within(S)
  BY DEF Node, Ref, SubsOf, Below, Within, SubsIn
<1>2. \A n : Target(n)' = Target(n) /\ TargetsOf(n)' = TargetsOf(n)
  BY DEF Target, TargetsOf, Locate, Node, Ref
<1>3. \A n : (IsTypeRoot(n)' <=> IsTypeRoot(n)) /\ (Ignored(n)' <=> Ignored(n))
  BY DEF IsTypeRoot, Ignored, Node, Ref
<1>4. Needs' = Needs
  BY <1>1, <1>2, <1>3 DEF Needs
<1>5. Starts' = Starts
  BY <1>1, <1>3 DEF Starts
<1>6. Dangling(Needed)' <=> Dangling(Needed)
  BY <1>1, <1>2, <1>4, <1>5 DEF Dangling, Needed
<1>7. BarePointers' <=> BarePointers
  BY <1>1, CaseStays DEF BarePointers
<1> QED
  BY <1>1, <1>2, <1>3, <1>4, <1>5, <1>6, <1>7

(* Below the frame on top every position waits, for its target or for one  *)
(* of its subschemas; a target is met under one key at a time.             *)
LEMMA WaitingBelow ==
    ASSUME ResolverInv, NEW j \in 1 .. Len(stack) - 1
    PROVE  /\ j \in 1 .. Len(stack) /\ j + 1 \in 1 .. Len(stack)
           /\ stack[j].at \in {"target", "subs"}
           /\ stack[j].node \in Nodes /\ Known(stack[j].node)
           /\ stack[j].at = "target" => /\ Ref(stack[j].node) # Nowhere
                                        /\ stack[j + 1].node = Target(stack[j].node)
           /\ stack[j].at = "subs" => stack[j + 1].node \in SubsOf(stack[j].node)
<1>1. Len(stack) \in Nat
  BY LenProperties DEF ResolverInv, Path
<1>2. j \in 1 .. Len(stack) /\ j + 1 \in 1 .. Len(stack)
  BY <1>1
<1>3. Follows(stack[j], stack[j + 1].node) /\ FrameHolds(stack[j])
  BY <1>2 DEF ResolverInv, Path
<1> QED
  BY <1>2, <1>3 DEF Follows, FrameHolds, Known

(* The subschemas still to resolve: the first of them and the others. *)
LEMMA RestIs ==
    ASSUME ResolverInv, Subschema
    PROVE  Range(Top.todo) = {Head(Top.todo)} \cup Range(Tail(Top.todo))
<1>1. Top.todo # <<>> /\ Top.todo \in Seq(Nodes)
  BY TopHolds DEF Subschema, At, Frame
<1>2. ASSUME NEW todo \in Seq(Nodes), todo # <<>>
      PROVE  Range(todo) = {Head(todo)} \cup Range(Tail(todo))
  <2>1. Len(todo) \in Nat \ {0} /\ DOMAIN todo = 1 .. Len(todo)
    BY <1>2, EmptySeq, LenProperties
  <2>2. /\ Tail(todo) \in Seq(Nodes) /\ Len(Tail(todo)) = Len(todo) - 1
        /\ \A i \in 1 .. Len(Tail(todo)) : Tail(todo)[i] = todo[i + 1]
        /\ Head(todo) = todo[1]
    BY <1>2, HeadTailProperties
  <2>3. DOMAIN Tail(todo) = 1 .. Len(todo) - 1
    BY <2>2, LenProperties
  <2>4. /\ 1 \in 1 .. Len(todo)
        /\ \A i \in 1 .. Len(todo) : i = 1 \/ (i - 1 \in 1 .. Len(todo) - 1 /\ (i - 1) + 1 = i)
        /\ \A i \in 1 .. Len(todo) - 1 : i + 1 \in 1 .. Len(todo)
    BY <2>1
  <2>5. Range(todo) = {todo[i] : i \in 1 .. Len(todo)}
    BY <2>1 DEF Range
  <2>6. Range(Tail(todo)) = {todo[i + 1] : i \in 1 .. Len(todo) - 1}
    BY <2>2, <2>3 DEF Range
  <2>7. ASSUME NEW i \in 1 .. Len(todo)
        PROVE  todo[i] \in {Head(todo)} \cup Range(Tail(todo))
    <3>1. i = 1 \/ todo[(i - 1) + 1] = todo[i]
      BY <2>4
    <3> QED
      BY <2>2, <2>4, <2>6, <3>1
  <2>8. Head(todo) \in Range(todo) /\ Range(Tail(todo)) \subseteq Range(todo)
    BY <2>2, <2>4, <2>5, <2>6
  <2>9. Range(todo) \subseteq {Head(todo)} \cup Range(Tail(todo))
    BY <2>5, <2>7
  <2> QED
    BY <2>8, <2>9
<1> QED
  BY <1>1, <1>2

(* What the frame on top becomes, or waits for. *)
LEMMA KeywordsBecome ==
    ASSUME ResolverInv, Running, NEW left, left \subseteq Reference
    PROVE  LET f == Keywords(Top, left)
           IN  f \in Frame /\ f.node = Top.node /\ f.at = "subs" /\ Range(f.todo) = SubsOf(Top.node)
<1>1. Top \in Frame /\ Top.node \in Nodes
  BY TopHolds
<1> DEFINE f == Keywords(Top, left)
<1>2. f \in Frame /\ f.node = Top.node
  BY KeywordsHold
<1>3. f.at = "subs" /\ f.todo = Node(Top.node).subs
  BY <1>1 DEF Keywords, Frame
<1>4. SubsOf(Top.node) = Range(f.todo)
  BY <1>1, <1>3 DEF SubsOf, SubsIn, Node
<1> QED
  BY <1>2, <1>3, <1>4

LEMMA InlinePush ==
    ASSUME ResolverInv, Inline
    PROVE  LET f == [Top EXCEPT !.at = "target"]
           IN  /\ f.at = "target" /\ f.node = Top.node
               /\ IsPush(stack', stack, f, Target(Top.node))
<1> DEFINE f == [Top EXCEPT !.at = "target"]
           n == Top.node
<1>1. Running /\ Ref(n) # Nowhere /\ Target(n) # Nowhere
  BY DEF Inline, Fresh, Meets, Refers, At
<1>2. Top \in Frame /\ Known(n)
  BY <1>1, TopHolds
<1>3. f \in Frame /\ f.node = n /\ f.at = "target" /\ f.left = Top.left
  BY <1>2 DEF Frame
<1>4. Known(Target(n))
  BY <1>1, <1>2, KnownMentions DEF ResolverInv
<1>5. stack' = Append([stack EXCEPT ![Len(stack)] = f], Entered(Target(n)))
  BY <1>1, TopHolds DEF Inline, Top, ResolverInv, Path
<1> HIDE DEF f
<1>6. IsPush(stack', stack, f, Target(n))
  BY <1>1, <1>3, <1>4, <1>5, PushTop
<1> QED
  BY <1>3, <1>6 DEF f

LEMMA NextPush ==
    ASSUME ResolverInv, NextSubschema
    PROVE  LET f == [Top EXCEPT !.todo = Tail(@)]
           IN  /\ f.at = "subs" /\ f.node = Top.node
               /\ Range(Top.todo) = {Head(Top.todo)} \cup Range(f.todo)
               /\ IsPush(stack', stack, f, Head(Top.todo))
<1> DEFINE f == [Top EXCEPT !.todo = Tail(@)]
           n == Head(Top.todo)
<1>1. Running /\ Subschema
  BY DEF NextSubschema, Subschema, At
<1>2. /\ f \in Frame /\ f.node = Top.node /\ f.at = "subs" /\ f.left = Top.left
      /\ n \in SubsOf(Top.node)
  BY <1>1, RestHolds
<1>3. stack' = Append([stack EXCEPT ![Len(stack)] = f], Entered(n))
  BY <1>1, TopHolds DEF NextSubschema, Top, ResolverInv, Path
<1>4. f.todo = Tail(Top.todo)
  BY <1>1, TopHolds DEF Frame
<1> HIDE DEF f
<1>5. Known(n)
  BY <1>1, <1>2, TopHolds, KnownMentions DEF ResolverInv
<1>6. Range(Top.todo) = {n} \cup Range(f.todo)
  BY <1>1, <1>4, RestIs
<1> HIDE DEF n
<1>7. IsPush(stack', stack, f, n)
  BY <1>1, <1>2, <1>3, <1>5, PushTop
<1> QED
  BY <1>2, <1>6, <1>7 DEF f, n

LEMMA OmitBecome ==
    ASSUME ResolverInv, OmitSubschema
    PROVE  LET f == [Top EXCEPT !.todo = Tail(@)]
           IN  /\ f \in Frame /\ f.at = "subs" /\ f.node = Top.node /\ Become(f)
               /\ Range(Top.todo) = {Head(Top.todo)} \cup Range(f.todo)
               /\ IsTypeRoot(Head(Top.todo)) /\ Targeted(stack) # {} /\ Len(stack) # 1
<1> DEFINE f == [Top EXCEPT !.todo = Tail(@)]
<1>1. Running /\ Subschema /\ Become(f) /\ Omitted
  BY DEF OmitSubschema, Subschema, At
<1>2. f \in Frame /\ f.node = Top.node /\ f.at = "subs"
  BY <1>1, RestHolds
<1>3. f.todo = Tail(Top.todo)
  BY <1>1, TopHolds DEF Frame
<1>4. Range(Top.todo) = {Head(Top.todo)} \cup Range(f.todo)
  BY <1>1, <1>3, RestIs
<1>5. PICK k \in 1 .. Len(stack) - 1 : stack[k].at = "target"
  BY <1>1 DEF Omitted, InlinedRoots
<1>6. k \in Targeted(stack) /\ Len(stack) # 1
  BY <1>5, WaitingBelow DEF Targeted
<1> QED
  BY <1>1, <1>2, <1>4, <1>6 DEF Omitted

-----------------------------------------------------------------------------
(* No recursion stays.  C holds the positions whose resolution has ended:  *)
(* all they need has ended too.  A position that waits for its target is   *)
(* not entered below itself, other than to be met again.                   *)
(*                                                                         *)
(* A document that is resolved whole in partial mode keeps its own         *)
(* recursion: there C holds positions of other documents, and no reference *)
(* with a URI may lead into the document.                                  *)
Good(n) == Ref(n) = Nowhere \/ (Target(n) # Nowhere /\ n \notin From(Target(n), Needs))

Traced(n) ==
    n \in Mentioned /\ (mode = "full" \/ ~ ResolvesHost \/ Node(n).root # Host)

(* No URI that the document leads to is one of its own; as it is for one    *)
(* that is not registered, and for a copy of one that is.                   *)
OnlyByPointers ==
    \A n \in Mentioned :
        (Ref(n) # Nowhere /\ Ref(n).kind = "gts" /\ Target(n) # Nowhere) => Node(Target(n)).root # Host

Decided == mode = "full" \/ ~ ResolvesHost \/ OnlyByPointers

Settled(s, C) ==
    /\ C \subseteq Nodes
    /\ \A n \in C : Traced(n) /\ Good(n) /\ Needs[n] \subseteq C
    /\ \A j \in 1 .. Len(s) : s[j].at \in {"inlined", "subs"} /\ Traced(s[j].node) =>
          Good(s[j].node) /\ TargetsOf(s[j].node) \subseteq C
    /\ \A j \in 1 .. Len(s) : s[j].at = "subs" /\ Traced(s[j].node) =>
          \A m \in SubsOf(s[j].node) :
              \/ m \in C \cup Range(s[j].todo)
              \/ j < Len(s) /\ m = s[j + 1].node
              \/ IsTypeRoot(m) /\ j # 1
    /\ \A j \in Targeted(s) : \A k \in j + 1 .. Len(s) :
          s[k].node = s[j].node /\ Traced(s[j].node) => s[k].at = "enter"
    /\ s = <<>> => \A m \in Starts : Traced(m) => m \in C

(* What is traced and left the stack has ended. *)
OnStack(s) == {s[j].node : j \in 1 .. Len(s)}

Passes(C, D) ==
    /\ C \subseteq D
    /\ \A n \in OnStack(stack) : Traced(n) => n \in D \cup OnStack(stack')

LEMMA TracedStays ==
    ASSUME UNCHANGED case, UNCHANGED mode
    PROVE  /\ \A n : Traced(n)' <=> Traced(n)
           /\ Decided' <=> Decided
BY NeedsStay, CaseStays DEF Traced, Decided, OnlyByPointers

LEMMA SettledStays ==
    ASSUME UNCHANGED case, UNCHANGED mode, NEW C, Settled(stack', C)
    PROVE  Settled(stack, C)'
<1>1. \A n : Good(n)' <=> Good(n)
  BY NeedsStay DEF Good
<1> QED
  BY <1>1, NeedsStay, TracedStays DEF Settled, Targeted

(* What a traced position needs is traced. *)
LEMMA TracedNeeds ==
    ASSUME IsCase(case), Decided, NEW n \in Nodes, Traced(n)
    PROVE  /\ \A m \in SubsOf(n) : Traced(m)
           /\ \A m \in TargetsOf(n) : Traced(m)
<1>1. \A m \in Mentioned : Mentions[m] \subseteq Mentioned
  BY MentionedTyped
<1>2. n \in Mentioned /\ Mentions[n] = TargetsOf(n) \cup SubsOf(n)
  BY DEF Traced, Mentions
<1>3. ASSUME NEW m \in SubsOf(n) PROVE Traced(m)
  <2>1. Node(m).root = Node(n).root
    BY DocumentTree
  <2> QED
    BY <1>1, <1>2, <2>1 DEF Traced
<1>4. ASSUME NEW m \in TargetsOf(n) PROVE Traced(m)
  <2>1. m \in Mentioned /\ Ref(n) # Nowhere /\ m = Target(n) /\ Target(n) # Nowhere
    BY <1>1, <1>2 DEF TargetsOf
  <2>2. Node(m).root = Node(n).root \/ Ref(n).kind = "gts"
    BY <2>1, TargetTyped
  <2>3. Ref(n).kind = "gts" /\ OnlyByPointers => Node(m).root # Host
    BY <1>2, <2>1 DEF OnlyByPointers
  <2> QED
    BY <2>1, <2>2, <2>3 DEF Traced, Decided
<1> QED
  BY <1>3, <1>4

(* What waits on the stack is mentioned. *)
LEMMA StackMentioned ==
    ASSUME ResolverInv, NEW j \in 1 .. Len(stack)
    PROVE  stack[j].node \in Mentioned /\ stack[j].node \in Nodes
<1>1. Len(stack) \in Nat /\ stack # <<>> /\ 1 \in 1 .. Len(stack) /\ 1 <= j
  BY EmptySeq, LenProperties DEF ResolverInv, Path
<1> QED
  BY <1>1 DEF ResolverInv, Path, Mentioned, FrameHolds, Known

(* The frame on top changes, or is the one that is returned to. *)
LEMMA SettledCut ==
    ASSUME IsCase(case), NEW s, Path(s), NEW C, Settled(s, C), NEW t, NEW f, IsCut(t, s, f),
           NEW D \in SUBSET Nodes, C \subseteq D,
           \A n \in D : Traced(n) /\ Good(n) /\ Needs[n] \subseteq D,
           f.at \in {"inlined", "subs"} /\ Traced(f.node) => Good(f.node) /\ TargetsOf(f.node) \subseteq D,
           f.at = "subs" /\ Traced(f.node) => \A m \in SubsOf(f.node) :
              m \in D \cup Range(f.todo) \/ (IsTypeRoot(m) /\ Len(t) # 1),
           Traced(f.node) => \A j \in Targeted(s) : j < Len(t) => f.node # s[j].node
    PROVE  Settled(t, D)
<1>1. Len(t) \in Nat \ {0} /\ Len(s) \in Nat
  BY LenProperties, EmptySeq DEF IsCut, Path
<1>2. /\ \A j \in 1 .. Len(t) : j \in 1 .. Len(s) /\ t[j].node = s[j].node
      /\ \A j \in 1 .. Len(t) : j = Len(t) \/ j \in 1 .. Len(t) - 1
      /\ \A j \in 1 .. Len(t) - 1 : t[j] = s[j] /\ j + 1 \in 1 .. Len(t) /\ j < Len(t) /\ j < Len(s)
      /\ t[Len(t)] = f /\ t # <<>>
  BY <1>1 DEF IsCut
<1>3. ASSUME NEW j \in 1 .. Len(t), t[j].at \in {"inlined", "subs"}, Traced(t[j].node)
      PROVE  Good(t[j].node) /\ TargetsOf(t[j].node) \subseteq D
  BY <1>2, <1>3 DEF Settled
<1>4. ASSUME NEW j \in 1 .. Len(t), t[j].at = "subs", Traced(t[j].node), NEW m \in SubsOf(t[j].node)
      PROVE  \/ m \in D \cup Range(t[j].todo)
             \/ j < Len(t) /\ m = t[j + 1].node
             \/ IsTypeRoot(m) /\ j # 1
  <2>1. CASE j = Len(t)
    BY <1>2, <1>4, <2>1
  <2>2. CASE j # Len(t)
    <3>1. j \in 1 .. Len(t) - 1
      BY <1>2, <2>2
    <3>2. \/ m \in C \cup Range(s[j].todo)
          \/ j < Len(s) /\ m = s[j + 1].node
          \/ IsTypeRoot(m) /\ j # 1
      BY <1>2, <1>4, <3>1 DEF Settled
    <3> QED
      BY <1>2, <3>1, <3>2
  <2> QED
    BY <2>1, <2>2
<1>5. ASSUME NEW j \in Targeted(t), NEW k \in j + 1 .. Len(t), t[k].node = t[j].node, Traced(t[j].node)
      PROVE  t[k].at = "enter"
  <2>1. j \in 1 .. Len(t) - 1 /\ j \in Targeted(s)
    BY <1>1, <1>2 DEF Targeted, IsCut
  <2>2. k \in 1 .. Len(t) /\ k \in j + 1 .. Len(s)
    BY <1>1, <2>1 DEF IsCut
  <2>3. k # Len(t)
    BY <1>2, <1>5, <2>1
  <2>4. t[k] = s[k] /\ t[j] = s[j]
    BY <1>2, <2>1, <2>2, <2>3
  <2> QED
    BY <1>5, <2>1, <2>2, <2>4 DEF Settled
<1> QED
  BY <1>2, <1>3, <1>4, <1>5 DEF Settled

(* A position is entered, below one that waits for it. *)
LEMMA SettledPush ==
    ASSUME IsCase(case), NEW s, Path(s), NEW C, Settled(s, C), NEW t, NEW f, NEW n, IsPush(t, s, f, n),
           f.at = "target" \/
              /\ f.at = "subs" /\ s[Len(s)].at = "subs"
              /\ Range(s[Len(s)].todo) \subseteq {n} \cup Range(f.todo),
           Traced(f.node) => \A j \in Targeted(s) : f.node # s[j].node
    PROVE  Settled(t, C)
<1>1. Len(s) \in Nat \ {0} /\ s[Len(s)].at # "target"
  BY LenProperties, EmptySeq DEF IsPush, Path
<1>2. /\ \A j \in 1 .. Len(t) : j \in 1 .. Len(s) - 1 \/ j = Len(s) \/ j = Len(s) + 1
      /\ \A j \in 1 .. Len(s) - 1 :
            /\ t[j] = s[j] /\ t[j + 1].node = s[j + 1].node
            /\ j \in 1 .. Len(s) /\ j < Len(s) /\ j < Len(t)
      /\ Len(s) \in 1 .. Len(s) /\ Len(s) < Len(t)
      /\ t[Len(s)] = f /\ f.node = s[Len(s)].node /\ t # <<>>
      /\ t[Len(s) + 1].node = n /\ t[Len(s) + 1].at = "enter"
  <2>1. \A j \in 1 .. Len(s) - 1 : t[j + 1].node = s[j + 1].node
    <3>1. \A j \in 1 .. Len(s) - 1 : j + 1 \in 1 .. Len(s) - 1 \/ j + 1 = Len(s)
      BY <1>1
    <3> QED
      BY <3>1 DEF IsPush
  <2>2. t # <<>>
    BY <1>1, EmptySeq DEF IsPush
  <2> QED
    BY <1>1, <2>1, <2>2 DEF IsPush, Entered
<1>3. ASSUME NEW j \in 1 .. Len(t), t[j].at \in {"inlined", "subs"}, Traced(t[j].node)
      PROVE  Good(t[j].node) /\ TargetsOf(t[j].node) \subseteq C
  BY <1>2, <1>3 DEF Settled
<1>4. ASSUME NEW j \in 1 .. Len(t), t[j].at = "subs", Traced(t[j].node), NEW m \in SubsOf(t[j].node)
      PROVE  \/ m \in C \cup Range(t[j].todo)
             \/ j < Len(t) /\ m = t[j + 1].node
             \/ IsTypeRoot(m) /\ j # 1
  <2>1. j \in 1 .. Len(s) /\ s[j].at = "subs" /\ s[j].node = t[j].node /\ j < Len(t)
    BY <1>2, <1>4
  <2>2. \/ m \in C \cup Range(s[j].todo)
        \/ j < Len(s) /\ m = s[j + 1].node
        \/ IsTypeRoot(m) /\ j # 1
    BY <1>4, <2>1 DEF Settled
  <2>3. CASE j = Len(s)
    <3>1. t[j] = f /\ t[j + 1].node = n /\ f.at = "subs"
      BY <1>2, <1>4, <2>3
    <3>2. Range(s[j].todo) \subseteq {n} \cup Range(f.todo) /\ ~ (j < Len(s))
      BY <1>1, <2>3, <3>1
    <3> QED
      BY <2>1, <2>2, <3>1, <3>2
  <2>4. CASE j # Len(s)
    <3>1. j \in 1 .. Len(s) - 1
      BY <1>1, <2>1, <2>4
    <3>2. t[j] = s[j] /\ t[j + 1].node = s[j + 1].node
      BY <1>2, <3>1
    <3> QED
      BY <2>1, <2>2, <3>2
  <2> QED
    BY <2>3, <2>4
<1>5. ASSUME NEW j \in Targeted(t), NEW k \in j + 1 .. Len(t), t[k].node = t[j].node, Traced(t[j].node)
      PROVE  t[k].at = "enter"
  <2>1. j \in 1 .. Len(t) /\ t[j].at = "target"
    BY DEF Targeted
  <2>2. k \in 1 .. Len(t) /\ j < k
    BY <2>1
  <2> SUFFICES ASSUME k # Len(s) + 1 PROVE t[k].at = "enter"
    BY <1>2
  <2>3. j \in 1 .. Len(s) - 1
    BY <1>1, <1>2, <2>1, <2>2
  <2>4. j \in Targeted(s) /\ t[j] = s[j]
    BY <1>2, <2>1, <2>3 DEF Targeted
  <2>5. k # Len(s)
    BY <1>2, <1>5, <2>4
  <2>6. t[k] = s[k] /\ k \in j + 1 .. Len(s)
    BY <1>1, <1>2, <2>2, <2>3, <2>5
  <2> QED
    BY <1>5, <2>4, <2>6 DEF Settled
<1>6. C \subseteq Nodes /\ \A m \in C : Traced(m) /\ Good(m) /\ Needs[m] \subseteq C
  BY DEF Settled
<1> QED
  BY <1>2, <1>3, <1>4, <1>5, <1>6 DEF Settled

(* The frame on top turns to the subschemas of its position, or goes on. *)
LEMMA SettledBecome ==
    ASSUME ResolverInv, Running, NEW C, Settled(stack, C),
           NEW f, f \in Frame, f.node = Top.node, f.at = "subs", Become(f),
           Top.at = "enter" => Ref(Top.node) = Nowhere,
           Traced(Top.node) => \A m \in SubsOf(Top.node) :
              m \in C \cup Range(f.todo) \/ (IsTypeRoot(m) /\ Len(stack) # 1)
    PROVE  Settled(stack', C) /\ Passes(C, C)
<1>1. Len(stack) \in Nat \ {0} /\ Len(stack) \in 1 .. Len(stack) /\ Top.node \in Nodes
  BY TopHolds
<1>2. Top.at \in {"enter", "inlined", "subs"}
  BY TopHolds DEF Frame
<1>3. /\ IsCut(stack', stack, f) /\ Len(stack') = Len(stack)
      /\ \A j \in 1 .. Len(stack) : stack'[j].node = stack[j].node
  <2>1. /\ stack' \in Seq(Frame) /\ Len(stack') = Len(stack)
        /\ \A j \in 1 .. Len(stack) : stack'[j] = IF j = Len(stack) THEN f ELSE stack[j]
    BY BecomeShape
  <2>2. stack' # <<>>
    BY <1>1, <2>1, EmptySeq
  <2> QED
    BY <1>1, <2>1, <2>2 DEF IsCut, Top
<1>4. Traced(f.node) => Good(f.node) /\ TargetsOf(f.node) \subseteq C
  <2>1. CASE Top.at = "enter"
    BY <2>1 DEF Good, TargetsOf
  <2>2. CASE Top.at # "enter"
    BY <1>1, <1>2, <2>2 DEF Settled, Top
  <2> QED
    BY <2>1, <2>2
<1>5. Traced(f.node) => \A j \in Targeted(stack) : j < Len(stack') => f.node # stack[j].node
  <2> SUFFICES ASSUME Traced(f.node), NEW j \in Targeted(stack), j < Len(stack)
               PROVE  f.node # stack[j].node
    BY <1>3
  <2>1. j \in 1 .. Len(stack) - 1 /\ stack[j].at = "target" /\ Len(stack) \in j + 1 .. Len(stack)
    BY <1>1 DEF Targeted
  <2>2. CASE Top.at = "enter"
    BY <2>1, <2>2, WaitingBelow
  <2>3. CASE Top.at # "enter"
    BY <2>1, <2>3 DEF Settled, Top
  <2> QED
    BY <2>2, <2>3
<1>6. C \in SUBSET Nodes /\ \A n \in C : Traced(n) /\ Good(n) /\ Needs[n] \subseteq C
  BY DEF Settled
<1>7. Traced(f.node) =>
         \A m \in SubsOf(f.node) : m \in C \cup Range(f.todo) \/ (IsTypeRoot(m) /\ Len(stack') # 1)
  BY <1>3
<1>8. ASSUME NEW D, D = C PROVE Settled(stack', D)
  <2>1. /\ D \in SUBSET Nodes /\ C \subseteq D
        /\ \A n \in D : Traced(n) /\ Good(n) /\ Needs[n] \subseteq D
        /\ f.at \in {"inlined", "subs"} /\ Traced(f.node) => Good(f.node) /\ TargetsOf(f.node) \subseteq D
        /\ f.at = "subs" /\ Traced(f.node) => \A m \in SubsOf(f.node) :
              m \in D \cup Range(f.todo) \/ (IsTypeRoot(m) /\ Len(stack') # 1)
    BY <1>4, <1>6, <1>7, <1>8
  <2>2. IsCase(case) /\ Path(stack)
    BY DEF ResolverInv
  <2> QED
    BY <1>3, <1>5, <2>1, <2>2, SettledCut
<1>9. Passes(C, C)
  BY <1>3 DEF Passes, OnStack
<1> QED
  BY <1>8, <1>9

(* A traced position whose resolution ends has all that it needs settled.  *)
(* So nothing that its caller, if it waits for its target, needs leads back *)
(* to the caller.                                                          *)
LEMMA SettledReturn ==
    ASSUME ResolverInv, Decided, Running, NEW C, Settled(stack, C),
           NEW left, left \subseteq Reference, Return(left), Traced(Top.node),
           Top.at \in {"inlined", "subs"},
           \A m \in SubsOf(Top.node) :
              m \in C \/ (IsTypeRoot(m) /\ Len(stack) # 1) \/ Ignored(Top.node)
    PROVE  Settled(stack', C \cup {Top.node})
<1> DEFINE D == C \cup {Top.node}
<1>1. Len(stack) \in Nat \ {0} /\ Len(stack) \in 1 .. Len(stack) /\ Top.node \in Nodes
  BY TopHolds
<1>2. C \in SUBSET Nodes /\ D \in SUBSET Nodes /\ \A n \in C : Traced(n) /\ Good(n) /\ Needs[n] \subseteq C
  BY <1>1 DEF Settled
<1>3. Good(Top.node) /\ TargetsOf(Top.node) \subseteq C
  BY <1>1 DEF Settled, Top
<1>4. Needs[Top.node] \subseteq C
  BY <1>1, <1>3 DEF Needs
<1>5. \A n \in D : Traced(n) /\ Good(n) /\ Needs[n] \subseteq D
  BY <1>2, <1>3, <1>4
<1>6. CASE Len(stack) = 1
  <2>1. stack' = <<>>
    BY <1>6 DEF Return
  <2>2. case.fragment = Top.node
    BY <1>6 DEF ResolverInv, Path, Running, Top
  <2>3. Starts \subseteq D
    BY <1>6, <2>2 DEF Starts
  <2>4. Targeted(<<>>) = {} /\ Len(<<>>) = 0 /\ 1 .. 0 = {}
    BY DEF Targeted
  <2> HIDE DEF D
  <2>5. Settled(<<>>, D)
    BY <1>2, <1>5, <2>3, <2>4 DEF Settled
  <2> QED
    BY <2>1, <2>5 DEF D
<1>7. CASE Len(stack) # 1
  <2> DEFINE n == Len(stack) - 1
             caller == stack[n]
             f == stack'[n]
  <2>1. n \in Nat \ {0} /\ n \in 1 .. Len(stack) /\ n \in 1 .. Len(stack) - 1
    BY <1>7, ReturnShape
  <2>2. caller \in Frame
    BY <1>7, ReturnShape
  <2>3. /\ f.node = caller.node /\ f.todo = caller.todo
        /\ f.at = IF caller.at = "target" THEN "inlined" ELSE caller.at
    BY <1>7, ReturnShape
  <2>4. /\ stack' \in Seq(Frame) /\ Len(stack') = n
        /\ \A j \in 1 .. n - 1 : stack'[j] = stack[j]
    BY <1>7, ReturnShape
  <2>5. /\ caller.at \in {"target", "subs"} /\ caller.node \in Nodes
        /\ caller.at = "target" => Ref(caller.node) # Nowhere /\ Top.node = Target(caller.node)
    <3>1. stack[n + 1] = Top
      BY <1>1 DEF Top
    <3> QED
      BY <2>1, <3>1, WaitingBelow
  <2>6. f = stack'[n] /\ n + 1 = Len(stack) /\ caller = stack[n]
    BY <1>1
  <2> HIDE DEF n, f, caller
  <2>7. IsCut(stack', stack, f)
    <3>1. stack' # <<>>
      BY <2>1, <2>4, EmptySeq
    <3> QED
      BY <2>1, <2>3, <2>4, <2>5, <2>6, <3>1 DEF IsCut
  <2>8. CASE caller.at = "target"
    <3>1. n \in Targeted(stack) /\ Len(stack) \in n + 1 .. Len(stack)
      BY <1>1, <2>1, <2>6, <2>8 DEF Targeted
    <3>2. caller.node # Top.node
      BY <2>3, <2>6, <3>1 DEF Settled, Top
    <3>3. From(Top.node, Needs) \subseteq D
      <4>1. Top.node \in D /\ \A m \in D \cap Nodes : Needs[m] \subseteq D
        BY <1>5
      <4> HIDE DEF D
      <4> QED
        BY <1>1, <4>1, NeedsGraph, FromLeast DEF ResolverInv
    <3>4. Good(caller.node)
      <4>1. CASE caller.node \in C
        BY <1>2, <4>1
      <4>2. CASE caller.node \notin C
        <5>1. Target(caller.node) # Nowhere
          BY <1>1, <2>5, <2>8, ResolverAssumption
        <5> QED
          BY <2>5, <2>8, <3>2, <3>3, <4>2, <5>1 DEF Good
      <4> QED
        BY <4>1, <4>2
    <3>5. TargetsOf(caller.node) \subseteq D
      BY <2>5, <2>8 DEF TargetsOf
    <3>6. \A j \in Targeted(stack) : j < Len(stack') => f.node # stack[j].node
      <4> SUFFICES ASSUME NEW j \in Targeted(stack), j < n, f.node = stack[j].node PROVE FALSE
        BY <2>4
      <4>1. Key(stack[j].node) = Key(stack[n].node) /\ j # n
        BY <2>1, <2>3, <2>6 DEF Targeted
      <4> QED
        BY <3>1, <4>1 DEF ResolverInv, Path
    <3>7. f.at = "inlined"
      BY <2>3, <2>8
    <3> HIDE DEF D
    <3>8. Settled(stack', D)
      BY <1>2, <1>5, <2>3, <2>7, <3>4, <3>5, <3>6, <3>7, SettledCut DEF ResolverInv, D
    <3> QED
      BY <3>8 DEF D
  <2>9. CASE caller.at = "subs"
    <3>1. Traced(caller.node) => Good(caller.node) /\ TargetsOf(caller.node) \subseteq C
      BY <2>1, <2>6, <2>9 DEF Settled
    <3>2. Traced(f.node) => \A m \in SubsOf(f.node) : m \in D \cup Range(f.todo) \/ (IsTypeRoot(m) /\ Len(stack') # 1)
      <4> SUFFICES ASSUME Traced(caller.node), NEW m \in SubsOf(caller.node)
                   PROVE  m \in D \cup Range(caller.todo) \/ (IsTypeRoot(m) /\ n # 1)
        BY <2>3, <2>4
      <4>1. \/ m \in C \cup Range(caller.todo)
            \/ n < Len(stack) /\ m = stack[n + 1].node
            \/ IsTypeRoot(m) /\ n # 1
        BY <2>1, <2>6, <2>9 DEF Settled
      <4> QED
        BY <2>6, <4>1 DEF Top
    <3>3. Traced(f.node) => \A j \in Targeted(stack) : j < Len(stack') => f.node # stack[j].node
      <4> SUFFICES ASSUME Traced(f.node), NEW j \in Targeted(stack), j < n, f.node = stack[j].node PROVE FALSE
        BY <2>4
      <4>1. n \in j + 1 .. Len(stack)
        BY <1>1, <2>1, <2>6 DEF Targeted
      <4> QED
        BY <2>3, <2>6, <2>9, <4>1 DEF Settled
    <3>4. f.at = "subs"
      BY <2>3, <2>9
    <3>5. Traced(f.node) => TargetsOf(f.node) \subseteq D /\ Good(f.node)
      BY <2>3, <3>1
    <3> HIDE DEF D
    <3>6. Settled(stack', D)
      BY <1>2, <1>5, <2>7, <3>2, <3>3, <3>4, <3>5, SettledCut DEF ResolverInv, D
    <3> QED
      BY <3>6 DEF D
  <2> QED
    BY <2>5, <2>8, <2>9
<1> QED
  BY <1>6, <1>7

(* A position returns that is not traced: nothing traced waits for it. *)
LEMMA SettledLeave ==
    ASSUME ResolverInv, Decided, Running, NEW C, Settled(stack, C),
           NEW left, left \subseteq Reference, Return(left), ~ Traced(Top.node)
    PROVE  Settled(stack', C)
<1>1. Len(stack) \in Nat \ {0} /\ Len(stack) \in 1 .. Len(stack) /\ Top.node \in Nodes
  BY TopHolds
<1>2. C \in SUBSET Nodes /\ \A n \in C : Traced(n) /\ Good(n) /\ Needs[n] \subseteq C
  BY DEF Settled
<1>3. CASE Len(stack) = 1
  <2>1. stack' = <<>>
    BY <1>3 DEF Return
  <2>2. case.fragment = Top.node /\ case.fragment \in Mentioned
    BY <1>1, <1>3, TopHolds DEF ResolverInv, Path, Running, Top
  <2>3. ResolvesHost /\ ~ (mode = "full") /\ Node(case.fragment).root = Host
    BY <2>2 DEF Traced, ResolverInv, IsCase, Node
  <2>4. \A m \in Starts : Node(m).root = Host
    BY <1>1, <2>2, <2>3, DocumentTree DEF Starts, ResolverInv
  <2>5. \A m \in Starts : ~ Traced(m)
    BY <2>3, <2>4 DEF Traced
  <2>6. Targeted(<<>>) = {} /\ Len(<<>>) = 0 /\ 1 .. 0 = {}
    BY DEF Targeted
  <2>7. Settled(<<>>, C)
    BY <1>2, <2>5, <2>6 DEF Settled
  <2> QED
    BY <2>1, <2>7
<1>4. CASE Len(stack) # 1
  <2> DEFINE n == Len(stack) - 1
             f == stack'[n]
  <2>1. n \in Nat \ {0} /\ n \in 1 .. Len(stack) /\ n \in 1 .. Len(stack) - 1 /\ n + 1 = Len(stack)
    BY <1>1, <1>4, ReturnShape
  <2>2. /\ f.node = stack[n].node
        /\ f.at = IF stack[n].at = "target" THEN "inlined" ELSE stack[n].at
        /\ stack' \in Seq(Frame) /\ Len(stack') = n
        /\ \A j \in 1 .. n - 1 : stack'[j] = stack[j]
    BY <1>4, ReturnShape
  <2> HIDE DEF n
  <2>3. /\ stack[n].at \in {"target", "subs"} /\ stack[n].node \in Nodes
        /\ Top.node \in TargetsOf(stack[n].node) \cup SubsOf(stack[n].node)
    <3>1. stack[n + 1] = Top
      BY <2>1 DEF Top
    <3>2. Top.node # Nowhere
      BY <1>1, ResolverAssumption
    <3> QED
      BY <2>1, <3>1, <3>2, WaitingBelow DEF TargetsOf
  <2>4. ~ Traced(f.node)
    BY <2>2, <2>3, TracedNeeds DEF ResolverInv
  <2> HIDE DEF f
  <2>5. f = stack'[n]
    BY DEF f
  <2>6. IsCut(stack', stack, f)
    <3>1. stack' # <<>>
      BY <2>1, <2>2, EmptySeq
    <3> QED
      BY <2>1, <2>2, <2>3, <2>5, <3>1 DEF IsCut
  <2>7. IsCase(case) /\ Path(stack) /\ C \subseteq C
    BY DEF ResolverInv
  <2> QED
    BY <1>2, <2>4, <2>6, <2>7, SettledCut
<1> QED
  BY <1>3, <1>4

LEMMA ReturnPasses ==
    ASSUME ResolverInv, Running, NEW left, left \subseteq Reference, Return(left),
           NEW C, NEW D, C \subseteq D, Traced(Top.node) => Top.node \in D
    PROVE  Passes(C, D)
<1> SUFFICES ASSUME NEW j \in 1 .. Len(stack), Traced(stack[j].node)
             PROVE  stack[j].node \in D \cup OnStack(stack')
  BY DEF Passes, OnStack
<1>1. CASE j = Len(stack)
  <2>1. stack[j].node = Top.node
    BY <1>1 DEF Top
  <2> QED
    BY <2>1
<1>2. CASE j # Len(stack)
  <2>1. Len(stack) \in Nat \ {0}
    BY TopHolds
  <2>2. Len(stack) # 1 /\ j \in 1 .. Len(stack) - 1
    <3>1. \A L \in Nat : \A i \in 1 .. L : i # L => L # 1 /\ i \in 1 .. L - 1
      OBVIOUS
    <3> QED
      BY <1>2, <2>1, <3>1
  <2>3. /\ Len(stack') = Len(stack) - 1
        /\ \A k \in 1 .. (Len(stack) - 1) - 1 : stack'[k] = stack[k]
        /\ stack'[Len(stack) - 1].node = stack[Len(stack) - 1].node
    BY <2>2, ReturnShape
  <2>4. j = Len(stack) - 1 \/ j \in 1 .. (Len(stack) - 1) - 1
    BY <2>1, <2>2
  <2>5. stack'[j].node = stack[j].node /\ j \in 1 .. Len(stack')
    BY <2>2, <2>3, <2>4
  <2> QED
    BY <2>5 DEF OnStack
<1> QED
  BY <1>1, <1>2

LEMMA BecomeSettles ==
    ASSUME ResolverInv, UNCHANGED case, UNCHANGED mode, Running, NEW C, Settled(stack, C),
           Top.at = "inlined" \/ (Top.at = "enter" /\ Ref(Top.node) = Nowhere),
           NEW left, left \subseteq Reference, Become(Keywords(Top, left))
    PROVE  Settled(stack, C)' /\ Passes(C, C)
<1> DEFINE f == Keywords(Top, left)
<1>1. f \in Frame /\ f.node = Top.node /\ f.at = "subs" /\ Range(f.todo) = SubsOf(Top.node)
  BY KeywordsBecome
<1> HIDE DEF f
<1>2. Become(f)
  BY DEF f
<1>3. Settled(stack', C) /\ Passes(C, C)
  BY <1>1, <1>2, SettledBecome
<1> QED
  BY <1>3, SettledStays

LEMMA ReturnSettles ==
    ASSUME ResolverInv, Decided, UNCHANGED case, UNCHANGED mode, Running,
           NEW C \in SUBSET Nodes, Settled(stack, C), NEW left, left \subseteq Reference, Return(left),
           Traced(Top.node) =>
              \/ Top.at = "inlined" /\ (Node(Top.node).alone \/ case.dialect = "draft-07")
              \/ Top.at = "subs" /\ Top.todo = <<>>
    PROVE  \E D \in SUBSET Nodes : Settled(stack, D)' /\ Passes(C, D)
<1>1. /\ Top \in Frame /\ Top.node \in Nodes /\ FrameHolds(Top)
      /\ Len(stack) \in Nat \ {0} /\ Len(stack) \in 1 .. Len(stack)
  BY TopHolds
<1>2. CASE Traced(Top.node)
  <2>1. \A m \in SubsOf(Top.node) :
           m \in C \/ (IsTypeRoot(m) /\ Len(stack) # 1) \/ Ignored(Top.node)
    <3>1. CASE Top.at = "inlined" /\ Node(Top.node).alone
      <4>1. Node(Top.node).subs = <<>>
        BY <1>1, <3>1 DEF ResolverInv, IsCase, Node
      <4>2. SubsOf(Top.node) = {}
        BY <1>1, <4>1 DEF SubsOf, SubsIn, Node, Range
      <4> QED
        BY <4>2
    <3>2. CASE Top.at = "inlined" /\ case.dialect = "draft-07"
      BY <1>1, <3>2 DEF Ignored, FrameHolds
    <3>3. CASE Top.at = "subs" /\ Top.todo = <<>>
      <4>1. Range(Top.todo) = {}
        BY <3>3 DEF Range
      <4> QED
        BY <1>1, <1>2, <3>3, <4>1 DEF Settled, Top
    <3> QED
      BY <1>2, <3>1, <3>2, <3>3
  <2>2. Settled(stack', C \cup {Top.node})
    BY <1>2, <2>1, SettledReturn
  <2>3. Passes(C, C \cup {Top.node})
    BY ReturnPasses
  <2>4. C \cup {Top.node} \in SUBSET Nodes
    BY <1>1
  <2> QED
    BY <2>2, <2>3, <2>4, SettledStays
<1>3. CASE ~ Traced(Top.node)
  <2>1. Settled(stack', C) /\ Passes(C, C)
    BY <1>3, SettledLeave, ReturnPasses
  <2> QED
    BY <2>1, SettledStays
<1> QED
  BY <1>2, <1>3

LEMMA PushPasses ==
    ASSUME ResolverInv, NEW C, NEW f, NEW n, IsPush(stack', stack, f, n)
    PROVE  Passes(C, C)
<1>1. Len(stack) \in Nat
  BY LenProperties DEF ResolverInv, Path
<1>2. \A j \in 1 .. Len(stack) : j \in 1 .. Len(stack') /\ stack'[j].node = stack[j].node
  BY <1>1 DEF IsPush
<1> QED
  BY <1>2 DEF Passes, OnStack

LEMMA InlineSettles ==
    ASSUME ResolverInv, NEW C, Settled(stack, C), Inline
    PROVE  Settled(stack, C)' /\ Passes(C, C)
<1> DEFINE f == [Top EXCEPT !.at = "target"]
<1>1. Key(Top.node) \notin visited /\ UNCHANGED case /\ UNCHANGED mode
  BY DEF Inline, Fresh, OnPath, input
<1>2. f.at = "target" /\ f.node = Top.node /\ IsPush(stack', stack, f, Target(Top.node))
  BY InlinePush
<1>3. \A j \in Targeted(stack) : f.node # stack[j].node
  BY <1>1, <1>2 DEF ResolverInv, Marks
<1> HIDE DEF f
<1>4. Settled(stack', C)
  BY <1>2, <1>3, SettledPush DEF ResolverInv
<1> QED
  BY <1>1, <1>2, <1>4, SettledStays, PushPasses

LEMMA NextSettles ==
    ASSUME ResolverInv, NEW C, Settled(stack, C), NextSubschema
    PROVE  Settled(stack, C)' /\ Passes(C, C)
<1> DEFINE f == [Top EXCEPT !.todo = Tail(@)]
           n == Head(Top.todo)
<1>1. Running /\ Top.at = "subs" /\ UNCHANGED case /\ UNCHANGED mode
  BY DEF NextSubschema, Subschema, At, input
<1>2. /\ f.at = "subs" /\ f.node = Top.node /\ IsPush(stack', stack, f, n)
      /\ Range(Top.todo) = {n} \cup Range(f.todo)
  BY NextPush
<1> HIDE DEF f, n
<1>3. Traced(f.node) => \A j \in Targeted(stack) : f.node # stack[j].node
  <2> SUFFICES ASSUME Traced(Top.node), NEW j \in Targeted(stack), Top.node = stack[j].node PROVE FALSE
    BY <1>2
  <2>1. Len(stack) \in j + 1 .. Len(stack)
    BY <1>1, TopHolds DEF Targeted, Top
  <2> QED
    BY <1>1, <2>1 DEF Settled, Top
<1>4. Settled(stack', C)
  BY <1>1, <1>2, <1>3, SettledPush DEF ResolverInv, Top
<1> QED
  BY <1>1, <1>2, <1>4, SettledStays, PushPasses

LEMMA OmitSettles ==
    ASSUME ResolverInv, NEW C, Settled(stack, C), OmitSubschema
    PROVE  Settled(stack, C)' /\ Passes(C, C)
<1> DEFINE f == [Top EXCEPT !.todo = Tail(@)]
<1>1. Running /\ Top.at = "subs" /\ UNCHANGED case /\ UNCHANGED mode
  BY DEF OmitSubschema, Subschema, At, input
<1>2. /\ f \in Frame /\ f.at = "subs" /\ f.node = Top.node /\ Become(f)
      /\ Range(Top.todo) = {Head(Top.todo)} \cup Range(f.todo)
      /\ IsTypeRoot(Head(Top.todo)) /\ Len(stack) # 1
  BY OmitBecome
<1> HIDE DEF f
<1>3. Traced(Top.node) =>
         \A m \in SubsOf(Top.node) : m \in C \cup Range(f.todo) \/ (IsTypeRoot(m) /\ Len(stack) # 1)
  <2>1. Len(stack) \in 1 .. Len(stack) /\ stack[Len(stack)] = Top /\ ~ (Len(stack) < Len(stack))
    BY <1>1, TopHolds DEF Top
  <2>2. Traced(Top.node) =>
           \A m \in SubsOf(Top.node) : m \in C \cup Range(Top.todo) \/ (IsTypeRoot(m) /\ Len(stack) # 1)
    BY <1>1, <2>1 DEF Settled
  <2> QED
    BY <1>2, <2>2
<1>4. Settled(stack', C) /\ Passes(C, C)
  BY <1>1, <1>2, <1>3, SettledBecome
<1> QED
  BY <1>1, <1>4, SettledStays

LEMMA StartSettled ==
    ASSUME NEW s, s = <<Entered(case.fragment)>>
    PROVE  Settled(s, {})
<1>1. Len(s) = 1 /\ s[1].at = "enter" /\ s # <<>>
  BY DEF Entered
<1>2. \A j \in 1 .. Len(s) : s[j].at = "enter"
  BY <1>1
<1> QED
  BY <1>1, <1>2 DEF Settled, Targeted

(* A step that reports nothing settles what it ends. *)
LEMMA StepSettles ==
    ASSUME ResolverInv, Decided, [Step \/ Rest]_vars, ~ ResolveAgain,
           ~ cycle_found', ~ unresolved', ~ needs_bundle',
           NEW C \in SUBSET Nodes, Settled(stack, C)
    PROVE  \E D \in SUBSET Nodes : Settled(stack, D)' /\ Passes(C, D)
<1>1. UNCHANGED case /\ UNCHANGED mode
  BY DEF Step, Rest, vars, input, WithoutRef, MeetWhole, MeetPointerAgain, RebasePointer, MeetDocumentAgain,
         MeetTooDeep, MeetMissing, Inline, ReplaceByTarget, KeepRef, DropSiblings, Compose,
         NextSubschema, OmitSubschema, KeywordsDone, ResolveAgain
<1>2. CASE WithoutRef
  <2>1. Running /\ Top.at = "enter" /\ Ref(Top.node) = Nowhere /\ Become(Keywords(Top, {}))
    BY <1>2 DEF WithoutRef, At
  <2> QED
    BY <1>1, <2>1, BecomeSettles
<1>3. CASE MeetWhole \/ RebasePointer \/ MeetTooDeep \/ MeetMissing
  BY <1>3 DEF MeetWhole, RebasePointer, MeetTooDeep, MeetMissing
<1>4. CASE MeetDocumentAgain
  BY <1>4 DEF MeetDocumentAgain
<1>5. CASE MeetPointerAgain
  <2>1. Running /\ Return(AsAuthored(Top.node)) /\ KeepsRecursion(Top.node)
    BY <1>5 DEF MeetPointerAgain, Meets, Refers, At
  <2>2. AsAuthored(Top.node) \subseteq Reference
    BY <2>1, TopHolds, AuthoredTyped DEF ResolverInv
  <2>3. ~ Traced(Top.node)
    BY <2>1 DEF KeepsRecursion, Traced
  <2> QED
    BY <1>1, <2>1, <2>2, <2>3, ReturnSettles
<1>6. CASE Inline
  BY <1>6, InlineSettles
<1>7. CASE ReplaceByTarget \/ DropSiblings \/ KeywordsDone
  <2>1. Running /\ Return(Top.left)
        /\ \/ Top.at = "inlined" /\ (Node(Top.node).alone \/ case.dialect = "draft-07")
           \/ Top.at = "subs" /\ Top.todo = <<>>
    BY <1>7 DEF ReplaceByTarget, DropSiblings, KeywordsDone, WithSiblings, At
  <2>2. Top.left \subseteq Reference
    BY <2>1, TopHolds
  <2> QED
    BY <1>1, <2>1, <2>2, ReturnSettles
<1>8. CASE KeepRef
  <2>1. Running /\ Top.at = "inlined" /\ Become(Keywords(Top, {Ref(Top.node)}))
    BY <1>8 DEF KeepRef, WithSiblings, At
  <2>2. {Ref(Top.node)} \subseteq Reference
    BY <2>1, TopHolds, RefTyped DEF FrameHolds
  <2> QED
    BY <1>1, <2>1, <2>2, BecomeSettles
<1>9. CASE Compose
  <2>1. Running /\ Top.at = "inlined" /\ Become(Keywords(Top, Top.left))
    BY <1>9 DEF Compose, WithSiblings, At
  <2>2. Top.left \subseteq Reference
    BY <2>1, TopHolds
  <2> QED
    BY <1>1, <2>1, <2>2, BecomeSettles
<1>10. CASE NextSubschema
  BY <1>10, NextSettles
<1>11. CASE OmitSubschema
  BY <1>11, OmitSettles
<1>12. CASE Rest \/ UNCHANGED vars
  <2>1. UNCHANGED stack
    BY <1>12 DEF Rest, vars
  <2>2. Passes(C, C)
    BY <2>1 DEF Passes, OnStack
  <2> QED
    BY <1>1, <2>1, <2>2, SettledStays
<1> QED
  BY <1>2, <1>3, <1>4, <1>5, <1>6, <1>7, <1>8, <1>9, <1>10, <1>11, <1>12 DEF Step

-----------------------------------------------------------------------------
(* Either mode.  E holds the positions entered so far: what they need is   *)
(* among them, or a frame on the stack will still enter it.                *)
Awaits(f) ==
    IF f.at = "enter" THEN {f.node}
    ELSE IF f.at = "subs" THEN Range(f.todo)
    ELSE IF Ignored(f.node) THEN {} ELSE SubsOf(f.node)

Awaited(s) ==
    UNION {{m \in Awaits(s[j]) : s[j].at = "enter" \/ ~ IsTypeRoot(m)} : j \in 1 .. Len(s)}

(* Positions that the resolver comes to wherever they are: it walks the    *)
(* host, unless what stands beside references is dropped.                  *)
Walked(m) == ResolvesHost /\ case.dialect = "later" /\ Node(m).root = Host

Explored(s, E) ==
    /\ E \subseteq Nodes
    /\ \A n \in E : Ref(n) = Nowhere \/ Target(n) # Nowhere
    /\ \A n \in E : \A m \in Needs[n] : m \in E \cup Awaited(s) \/ Walked(m)
    /\ \A j \in 1 .. Len(s) : s[j].at # "enter" => s[j].node \in E
    /\ s = <<>> \/ s[1].at # "enter" =>
          \A m \in Starts :
              \/ m \in E
              \/ \E j \in 1 .. Len(s) : s[j].at = "enter" /\ m = s[j].node
              \/ s # <<>> /\ m \in Awaits(s[1])
    /\ \A m \in Nodes : Walked(m) =>
          \/ m \in E
          \/ \E j \in 1 .. Len(s) :
                (\A i \in 1 .. j - 1 : s[i].at # "target") /\ m \in Within(Awaits(s[j]))

Reads == ~ contextual /\ ~ unresolved /\ IF ResolvesHost THEN ~ cycle_found ELSE BarePointers

ReadInv ==
    /\ Reads => \E E \in SUBSET Nodes : Explored(stack, E)
    /\ contextual /\ BarePointers => ~ Dangling(Needed)

LEMMA ExploredStays ==
    ASSUME UNCHANGED case, UNCHANGED mode, NEW E, Explored(stack', E)
    PROVE  Explored(stack, E)'
<1>1. \A f : Awaits(f)' = Awaits(f)
  BY NeedsStay DEF Awaits
<1>2. Awaited(stack)' = Awaited(stack')
  BY <1>1, NeedsStay DEF Awaited
<1>3. \A m : Walked(m)' <=> Walked(m)
  BY CaseStays DEF Walked
<1> QED
  BY <1>1, <1>2, <1>3, NeedsStay DEF Explored

(* What is below a position: itself, and what is below its subschemas. *)
LEMMA WithinSplits ==
    ASSUME IsCase(case), NEW n \in Nodes
    PROVE  /\ Within({n}) = {n} \cup Within(SubsOf(n))
           /\ Within(SubsOf(n)) \subseteq Nodes
           /\ \A m \in Within({n}) : m \in Nodes /\ SubsOf(m) \subseteq Within(SubsOf(n))
<1> DEFINE T == {n} \cup Within(SubsOf(n))
<1>1. \A m \in Nodes : SubsOf(m) \subseteq Nodes /\ SubsIn(case)[m] = SubsOf(m)
  BY PositionTyped DEF SubsOf
<1>2. \A s \in SubsOf(n) :
         /\ s \in From(s, SubsIn(case)) /\ From(s, SubsIn(case)) \subseteq Nodes
         /\ \A m \in From(s, SubsIn(case)) : SubsOf(m) \subseteq From(s, SubsIn(case))
  BY <1>1, SubsGraph, FromClosed
<1>3. SubsOf(n) \subseteq Within(SubsOf(n)) /\ Within(SubsOf(n)) \subseteq Nodes
  BY <1>2 DEF Within
<1>4. \A m \in Within(SubsOf(n)) : SubsOf(m) \subseteq Within(SubsOf(n))
  BY <1>2 DEF Within
<1>5. n \in T /\ \A m \in T \cap Nodes : SubsIn(case)[m] \subseteq T
  BY <1>1, <1>3, <1>4
<1>6. From(n, SubsIn(case)) \subseteq T
  <2> HIDE DEF T
  <2> QED
    BY <1>5, SubsGraph, FromLeast
<1>7. /\ n \in From(n, SubsIn(case)) /\ From(n, SubsIn(case)) \subseteq Nodes
      /\ \A m \in From(n, SubsIn(case)) : SubsIn(case)[m] \subseteq From(n, SubsIn(case))
  BY SubsGraph, FromClosed
<1>8. ASSUME NEW s \in SubsOf(n)
      PROVE  From(s, SubsIn(case)) \subseteq From(n, SubsIn(case))
  <2>1. s \in From(n, SubsIn(case)) /\ s \in Nodes
    BY <1>1, <1>7, <1>8
  <2> QED
    BY <1>7, <2>1, SubsGraph, FromLeast
<1>9. Within(SubsOf(n)) \subseteq From(n, SubsIn(case))
  BY <1>8 DEF Within
<1>10. Within({n}) = From(n, SubsIn(case))
  BY DEF Within
<1> QED
  BY <1>3, <1>4, <1>6, <1>7, <1>9, <1>10

LEMMA WithinParts ==
    ASSUME NEW S, NEW T
    PROVE  /\ Within(S \cup T) = Within(S) \cup Within(T)
           /\ S \subseteq T => Within(S) \subseteq Within(T)
           /\ Within({}) = {}
BY DEF Within

(* What E grows to, and what is awaited after the step, have to account for *)
(* all that was accounted for.                                              *)
LEMMA ExploredMoves ==
    ASSUME NEW s, NEW E, Explored(s, E), NEW t, NEW D \in SUBSET Nodes, E \subseteq D,
           \A n \in D \ E : /\ Ref(n) = Nowhere \/ Target(n) # Nowhere
                            /\ \A m \in Needs[n] : m \in D \cup Awaited(t) \/ Walked(m),
           Awaited(s) \subseteq D \cup Awaited(t),
           \A j \in 1 .. Len(t) : t[j].at # "enter" => t[j].node \in D,
           t = <<>> \/ t[1].at # "enter" =>
              \A m \in Starts :
                 \/ m \in D
                 \/ \E j \in 1 .. Len(t) : t[j].at = "enter" /\ m = t[j].node
                 \/ t # <<>> /\ m \in Awaits(t[1]),
           \A j \in 1 .. Len(s) : \A m \in Within(Awaits(s[j])) :
              (Walked(m) /\ \A i \in 1 .. j - 1 : s[i].at # "target") =>
                 \/ m \in D
                 \/ \E k \in 1 .. Len(t) :
                       (\A i \in 1 .. k - 1 : t[i].at # "target") /\ m \in Within(Awaits(t[k]))
    PROVE  Explored(t, D)
<1>1. \A n \in D : Ref(n) = Nowhere \/ Target(n) # Nowhere
  BY DEF Explored
<1>2. \A n \in D : \A m \in Needs[n] : m \in D \cup Awaited(t) \/ Walked(m)
  <2> SUFFICES ASSUME NEW n \in E, NEW m \in Needs[n], ~ Walked(m)
               PROVE  m \in D \cup Awaited(t)
    OBVIOUS
  <2> QED
    BY DEF Explored
<1>3. \A m \in Nodes : Walked(m) =>
         \/ m \in D
         \/ \E k \in 1 .. Len(t) :
               (\A i \in 1 .. k - 1 : t[i].at # "target") /\ m \in Within(Awaits(t[k]))
  <2> SUFFICES ASSUME NEW m \in Nodes, Walked(m), m \notin D
               PROVE  \E k \in 1 .. Len(t) :
                         (\A i \in 1 .. k - 1 : t[i].at # "target") /\ m \in Within(Awaits(t[k]))
    OBVIOUS
  <2>1. PICK j \in 1 .. Len(s) : (\A i \in 1 .. j - 1 : s[i].at # "target") /\ m \in Within(Awaits(s[j]))
    BY DEF Explored
  <2> QED
    BY <2>1
<1> QED
  BY <1>1, <1>2, <1>3 DEF Explored

(* The frame on top turns to the subschemas of its position, or goes on:   *)
(* what it does not resolve any more belongs to a type and is met below a  *)
(* target.                                                                 *)
LEMMA ExploredBecome ==
    ASSUME ResolverInv, Running, NEW E, Explored(stack, E),
           NEW f, f \in Frame, f.node = Top.node, f.at = "subs", Become(f),
           Top.at = "enter" =>
              /\ Range(f.todo) = SubsOf(Top.node)
              /\ TargetsOf(Top.node) \subseteq E \cup {Top.node}
              /\ Ref(Top.node) = Nowhere \/ Target(Top.node) # Nowhere,
           Top.at # "enter" =>
              \A m \in Awaits(Top) : m \in Range(f.todo) \/ (IsTypeRoot(m) /\ Targeted(stack) # {})
    PROVE  Explored(stack', E \cup {Top.node})
<1> DEFINE L == Len(stack)
           n == Top.node
           D == E \cup {n}
           t == stack'
<1>1. L \in Nat \ {0} /\ L \in 1 .. L /\ n \in Nodes /\ Top = stack[L] /\ Top.at # "target"
  BY TopHolds DEF Top
<1>2. /\ Len(t) = L /\ t[L] = f /\ t # <<>>
      /\ \A j \in 1 .. L - 1 : t[j] = stack[j] /\ stack[j].at # "enter" /\ j \in 1 .. L
      /\ \A j \in 1 .. L : j = L \/ j \in 1 .. L - 1
  <2>1. /\ t \in Seq(Frame) /\ Len(t) = L
        /\ \A j \in 1 .. L : t[j] = IF j = L THEN f ELSE stack[j]
    BY BecomeShape
  <2>2. t # <<>>
    BY <1>1, <2>1, EmptySeq
  <2>3. \A j \in 1 .. L - 1 : stack[j].at # "enter"
    BY WaitingBelow
  <2> QED
    BY <1>1, <2>1, <2>2, <2>3
<1> HIDE DEF L, t
<1>3. D \in SUBSET Nodes /\ E \subseteq D
  BY <1>1 DEF Explored
<1>4. Top.at # "enter" => n \in E
  BY <1>1 DEF Explored, L
<1>5. Awaits(f) = Range(f.todo) /\ (Top.at = "enter" => Awaits(Top) = {n})
  BY DEF Awaits
<1>6. Targeted(stack) # {} => \E i \in 1 .. L - 1 : stack[i].at = "target"
  BY <1>1, <1>2 DEF Targeted, L
<1>7. \A j \in 1 .. L - 1 : \A m \in Awaits(stack[j]) : ~ IsTypeRoot(m) => m \in Awaited(t)
  BY <1>2 DEF Awaited
<1>8. \A m \in Range(f.todo) : ~ IsTypeRoot(m) => m \in Awaited(t)
  BY <1>1, <1>2, <1>5 DEF Awaited
<1>9. ASSUME NEW m \in D \ E
      PROVE  /\ Ref(m) = Nowhere \/ Target(m) # Nowhere
             /\ \A x \in Needs[m] : x \in D \cup Awaited(t) \/ Walked(x)
  <2>1. m = n /\ Top.at = "enter"
    BY <1>4, <1>9
  <2>2. Needs[n] \subseteq TargetsOf(n) \cup {x \in SubsOf(n) : ~ IsTypeRoot(x)}
    BY <1>1 DEF Needs
  <2> QED
    BY <1>8, <2>1, <2>2
<1>10. Awaited(stack) \subseteq D \cup Awaited(t)
  <2> SUFFICES ASSUME NEW j \in 1 .. L, NEW m \in Awaits(stack[j]),
                      stack[j].at = "enter" \/ ~ IsTypeRoot(m)
               PROVE  m \in D \cup Awaited(t)
    BY DEF Awaited, L
  <2>1. CASE j # L
    BY <1>2, <1>7, <2>1
  <2>2. CASE j = L /\ Top.at = "enter"
    BY <1>1, <1>5, <2>2
  <2>3. CASE j = L /\ Top.at # "enter"
    BY <1>1, <1>8, <2>3
  <2> QED
    BY <2>1, <2>2, <2>3
<1>11. \A j \in 1 .. Len(t) : t[j].at # "enter" => t[j].node \in D
  BY <1>2 DEF Explored, L
<1>12. ASSUME t = <<>> \/ t[1].at # "enter", NEW m \in Starts
       PROVE  m \in D \/ m \in Awaits(t[1])
  <2>1. CASE L = 1 /\ Top.at = "enter"
    <3>1. case.fragment = n
      BY <1>1, <2>1 DEF ResolverInv, Path, Running
    <3> QED
      BY <1>2, <1>5, <2>1, <3>1 DEF Starts
  <2>2. CASE L = 1 /\ Top.at # "enter"
    <3>1. \/ m \in E
          \/ \E j \in 1 .. L : stack[j].at = "enter" /\ m = stack[j].node
          \/ m \in Awaits(stack[1])
      BY <1>1, <2>2 DEF Explored, L
    <3> QED
      BY <1>1, <1>2, <1>5, <1>6, <2>2, <3>1
  <2>3. CASE L # 1
    <3>1. 1 \in 1 .. L - 1
      BY <1>1, <2>3
    <3>2. \/ m \in E
          \/ \E j \in 1 .. L : stack[j].at = "enter" /\ m = stack[j].node
          \/ m \in Awaits(stack[1])
      BY <1>2, <3>1 DEF Explored, L
    <3> QED
      BY <1>1, <1>2, <3>1, <3>2
  <2> QED
    BY <2>1, <2>2, <2>3
<1>13. ASSUME NEW j \in 1 .. L, NEW m \in Within(Awaits(stack[j])),
              \A i \in 1 .. j - 1 : stack[i].at # "target"
       PROVE  \/ m \in D
              \/ \E k \in 1 .. Len(t) :
                    (\A i \in 1 .. k - 1 : t[i].at # "target") /\ m \in Within(Awaits(t[k]))
  <2>1. \A i \in 1 .. j - 1 : i \in 1 .. L - 1 /\ t[i].at # "target"
    BY <1>1, <1>2, <1>13
  <2>2. CASE j # L
    BY <1>2, <1>13, <2>1, <2>2
  <2>3. CASE j = L /\ Top.at = "enter"
    <3>1. m = n \/ m \in Within(SubsOf(n))
      BY <1>1, <1>5, <1>13, <2>3, WithinSplits DEF ResolverInv
    <3> QED
      BY <1>1, <1>2, <1>5, <2>1, <2>3, <3>1
  <2>4. CASE j = L /\ Top.at # "enter"
    <3>1. Targeted(stack) = {}
      BY <1>6, <1>13, <2>4
    <3>2. Awaits(Top) \subseteq Range(f.todo)
      BY <2>4, <3>1
    <3>3. m \in Within(Awaits(f))
      BY <1>1, <1>5, <1>13, <2>4, <3>2, WithinParts
    <3> QED
      BY <1>1, <1>2, <2>1, <2>4, <3>3
  <2> QED
    BY <2>2, <2>3, <2>4
<1> HIDE DEF D
<1>14. t = <<>> \/ t[1].at # "enter" =>
         \A m \in Starts :
            \/ m \in D
            \/ \E j \in 1 .. Len(t) : t[j].at = "enter" /\ m = t[j].node
            \/ t # <<>> /\ m \in Awaits(t[1])
  BY <1>2, <1>12
<1>15. \A m \in D \ E : /\ Ref(m) = Nowhere \/ Target(m) # Nowhere
                        /\ \A x \in Needs[m] : x \in D \cup Awaited(t) \/ Walked(x)
  BY <1>9
<1>16. \A j \in 1 .. Len(stack) : \A m \in Within(Awaits(stack[j])) :
         (Walked(m) /\ \A i \in 1 .. j - 1 : stack[i].at # "target") =>
            \/ m \in D
            \/ \E k \in 1 .. Len(t) :
                  (\A i \in 1 .. k - 1 : t[i].at # "target") /\ m \in Within(Awaits(t[k]))
  BY <1>13 DEF L
<1>17. Explored(t, D)
  BY <1>3, <1>10, <1>11, <1>14, <1>15, <1>16, ExploredMoves
<1> QED
  BY <1>17 DEF t, D

(* A position is entered, below one that waits for it. *)
LEMMA ExploredPush ==
    ASSUME ResolverInv, Running, NEW E, Explored(stack, E), NEW f, NEW p, IsPush(stack', stack, f, p),
           \/ /\ f.at = "target" /\ Top.at = "enter"
              /\ Ref(Top.node) # Nowhere /\ Target(Top.node) # Nowhere /\ p = Target(Top.node)
           \/ /\ f.at = "subs" /\ Top.at = "subs"
              /\ Range(Top.todo) = {p} \cup Range(f.todo)
    PROVE  Explored(stack', E \cup {Top.node})
<1> DEFINE L == Len(stack)
           n == Top.node
           D == E \cup {n}
           t == stack'
<1>1. L \in Nat \ {0} /\ L \in 1 .. L /\ n \in Nodes /\ Top = stack[L]
  BY TopHolds DEF Top
<1>2. /\ Len(t) = L + 1 /\ L \in 1 .. Len(t) /\ L + 1 \in 1 .. Len(t) /\ t # <<>>
      /\ t[L] = f /\ f.node = n /\ t[L + 1].node = p /\ t[L + 1].at = "enter"
      /\ \A j \in 1 .. L - 1 : t[j] = stack[j] /\ stack[j].at # "enter" /\ j \in 1 .. L /\ j \in 1 .. Len(t)
      /\ \A j \in 1 .. L : j = L \/ j \in 1 .. L - 1
      /\ \A j \in 1 .. Len(t) : j = L + 1 \/ j = L \/ j \in 1 .. L - 1
  <2>1. \A j \in 1 .. L - 1 : stack[j].at # "enter"
    BY WaitingBelow
  <2>2. t # <<>>
    BY <1>1, EmptySeq DEF IsPush
  <2> QED
    BY <1>1, <2>1, <2>2 DEF IsPush, Entered
<1> HIDE DEF L, t
<1>3. D \in SUBSET Nodes /\ E \subseteq D
  BY <1>1 DEF Explored
<1>4. Top.at # "enter" => n \in E
  BY <1>1 DEF Explored, L
<1>5. /\ Awaits(t[L + 1]) = {p}
      /\ Top.at = "enter" => Awaits(Top) = {n} /\ Awaits(f) = IF Ignored(n) THEN {} ELSE SubsOf(n)
      /\ Top.at = "subs" => Awaits(Top) = {p} \cup Awaits(f)
  BY <1>2 DEF Awaits
<1>6. \A j \in 1 .. L - 1 : \A m \in Awaits(stack[j]) : ~ IsTypeRoot(m) => m \in Awaited(t)
  BY <1>2 DEF Awaited
<1>7. p \in Awaited(t) /\ \A m \in Awaits(f) : ~ IsTypeRoot(m) => m \in Awaited(t)
  BY <1>2, <1>5 DEF Awaited
<1>8. ASSUME NEW m \in D \ E
      PROVE  /\ Ref(m) = Nowhere \/ Target(m) # Nowhere
             /\ \A x \in Needs[m] : x \in D \cup Awaited(t) \/ Walked(x)
  <2>1. m = n /\ Top.at = "enter"
    BY <1>4, <1>8
  <2>2. Needs[n] = TargetsOf(n) \cup IF Ignored(n) THEN {} ELSE {x \in SubsOf(n) : ~ IsTypeRoot(x)}
    BY <1>1 DEF Needs
  <2>3. TargetsOf(n) \subseteq {p}
    BY <2>1 DEF TargetsOf
  <2> QED
    BY <1>5, <1>7, <2>1, <2>2, <2>3
<1>9. Awaited(stack) \subseteq D \cup Awaited(t)
  <2> SUFFICES ASSUME NEW j \in 1 .. L, NEW m \in Awaits(stack[j]),
                      stack[j].at = "enter" \/ ~ IsTypeRoot(m)
               PROVE  m \in D \cup Awaited(t)
    BY DEF Awaited, L
  <2>1. CASE j # L
    BY <1>2, <1>6, <2>1
  <2>2. CASE j = L
    BY <1>1, <1>5, <1>7, <2>2
  <2> QED
    BY <2>1, <2>2
<1>10. \A j \in 1 .. Len(t) : t[j].at # "enter" => t[j].node \in D
  BY <1>2 DEF Explored, L
<1>11. ASSUME NEW m \in Starts
       PROVE  m \in D \/ m = t[L + 1].node \/ m \in Awaits(t[1])
  <2>1. CASE L = 1 /\ Top.at = "enter"
    <3>1. case.fragment = n
      BY <1>1, <2>1 DEF ResolverInv, Path, Running
    <3> QED
      BY <1>2, <1>5, <2>1, <3>1 DEF Starts
  <2>2. CASE L = 1 /\ Top.at # "enter"
    <3>1. \/ m \in E
          \/ \E j \in 1 .. L : stack[j].at = "enter" /\ m = stack[j].node
          \/ m \in Awaits(stack[1])
      BY <1>1, <2>2 DEF Explored, L
    <3> QED
      BY <1>1, <1>2, <1>5, <2>2, <3>1
  <2>3. CASE L # 1
    <3>1. 1 \in 1 .. L - 1
      BY <1>1, <2>3
    <3>2. \/ m \in E
          \/ \E j \in 1 .. L : stack[j].at = "enter" /\ m = stack[j].node
          \/ m \in Awaits(stack[1])
      BY <1>2, <3>1 DEF Explored, L
    <3> QED
      BY <1>1, <1>2, <3>1, <3>2
  <2> QED
    BY <2>1, <2>2, <2>3
<1>12. ASSUME NEW j \in 1 .. L, NEW m \in Within(Awaits(stack[j])), Walked(m),
              \A i \in 1 .. j - 1 : stack[i].at # "target"
       PROVE  \/ m \in D
              \/ \E k \in 1 .. Len(t) :
                    (\A i \in 1 .. k - 1 : t[i].at # "target") /\ m \in Within(Awaits(t[k]))
  <2>1. \A i \in 1 .. j - 1 : i \in 1 .. L - 1 /\ t[i].at # "target"
    BY <1>1, <1>2, <1>12
  <2>2. CASE j # L
    BY <1>2, <1>12, <2>1, <2>2
  <2>3. CASE j = L /\ Top.at = "enter"
    <3>1. m = n \/ m \in Within(SubsOf(n))
      BY <1>1, <1>5, <1>12, <2>3, WithinSplits DEF ResolverInv
    <3>2. Awaits(f) = SubsOf(n)
      BY <1>5, <1>12, <2>3 DEF Walked, Ignored
    <3> QED
      BY <1>1, <1>2, <2>1, <2>3, <3>1, <3>2
  <2>4. CASE j = L /\ Top.at = "subs"
    <3>1. m \in Within({p}) \/ m \in Within(Awaits(f))
      BY <1>1, <1>5, <1>12, <2>4, WithinParts
    <3>2. CASE m \in Within(Awaits(f))
      BY <1>1, <1>2, <2>1, <2>4, <3>2
    <3>3. CASE m \in Within({p})
      <4>1. \A i \in 1 .. (L + 1) - 1 : t[i].at # "target"
        BY <1>1, <1>2, <2>1, <2>4
      <4> QED
        BY <1>2, <1>5, <3>3, <4>1
    <3> QED
      BY <3>1, <3>2, <3>3
  <2> QED
    BY <2>2, <2>3, <2>4
<1> HIDE DEF D
<1>13. Explored(t, D)
  BY <1>2, <1>3, <1>8, <1>9, <1>10, <1>11, <1>12, ExploredMoves DEF L
<1> QED
  BY <1>13 DEF t, D

(* A frame returns that awaits nothing any more, or whose position stays as *)
(* it is, which happens below a target.                                     *)
LEMMA ExploredReturn ==
    ASSUME ResolverInv, Running, NEW E, Explored(stack, E), NEW left, left \subseteq Reference, Return(left),
           NEW D \in SUBSET Nodes, E \subseteq D, Top.node \in D,
           \A m \in D \ E : /\ Ref(m) = Nowhere \/ Target(m) # Nowhere
                            /\ \A x \in Needs[m] : x \in D \/ Walked(x),
           IF Top.at = "enter" THEN Targeted(stack) # {} ELSE Awaits(Top) = {}
    PROVE  Explored(stack', D)
<1> DEFINE L == Len(stack)
           t == stack'
<1>1. L \in Nat \ {0} /\ L \in 1 .. L /\ Top = stack[L] /\ Top.at # "target"
  BY TopHolds DEF Top
<1>2. \A j \in 1 .. L - 1 : stack[j].at # "enter" /\ j \in 1 .. L
  BY WaitingBelow
<1>3. Targeted(stack) # {} => \E i \in 1 .. L - 1 : stack[i].at = "target"
  BY <1>1 DEF Targeted
<1>4. Top.at = "enter" => Awaits(Top) = {Top.node}
  BY DEF Awaits
<1>5. /\ Len(t) = L - 1
      /\ \A j \in 1 .. Len(t) : /\ t[j].at # "enter" /\ t[j].node = stack[j].node
                                 /\ Awaits(t[j]) = Awaits(stack[j]) /\ j \in 1 .. L /\ stack[j].at # "enter"
      /\ \A j \in 1 .. Len(t) - 1 : t[j] = stack[j]
      /\ \A j \in 1 .. L : j = L \/ j \in 1 .. Len(t)
  <2>1. CASE L = 1
    <3>1. t = <<>>
      BY <2>1 DEF Return
    <3> QED
      BY <2>1, <3>1
  <2>2. CASE L # 1
    <3>1. /\ L - 1 \in Nat \ {0} /\ L - 1 \in 1 .. L - 1
          /\ t \in Seq(Frame) /\ Len(t) = L - 1
          /\ \A j \in 1 .. (L - 1) - 1 : t[j] = stack[j]
          /\ t[L - 1].node = stack[L - 1].node /\ t[L - 1].todo = stack[L - 1].todo
          /\ t[L - 1].at = IF stack[L - 1].at = "target" THEN "inlined" ELSE stack[L - 1].at
      BY <2>2, ReturnShape
    <3>2. stack[L - 1].at \in {"target", "subs"}
      BY <3>1, WaitingBelow
    <3>3. Awaits(t[L - 1]) = Awaits(stack[L - 1]) /\ t[L - 1].at # "enter"
      BY <3>1, <3>2 DEF Awaits
    <3> HIDE DEF t, L
    <3>4. \A j \in 1 .. L - 1 : j = L - 1 \/ j \in 1 .. (L - 1) - 1
      BY <3>1
    <3>5. ASSUME NEW j \in 1 .. L - 1
          PROVE  /\ t[j].at # "enter" /\ t[j].node = stack[j].node
                 /\ Awaits(t[j]) = Awaits(stack[j])
      BY <1>2, <3>1, <3>3, <3>4
    <3>6. \A j \in 1 .. L : j = L \/ j \in 1 .. L - 1
      BY <1>1
    <3> QED
      BY <1>2, <3>1, <3>5, <3>6
  <2> QED
    BY <2>1, <2>2
<1> HIDE DEF L, t
<1>6. \A j \in 1 .. Len(t) : \A m \in Awaits(stack[j]) : ~ IsTypeRoot(m) => m \in Awaited(t)
  BY <1>5 DEF Awaited
<1>7. Awaited(stack) \subseteq D \cup Awaited(t)
  <2> SUFFICES ASSUME NEW j \in 1 .. L, NEW m \in Awaits(stack[j]),
                      stack[j].at = "enter" \/ ~ IsTypeRoot(m)
               PROVE  m \in D \cup Awaited(t)
    BY DEF Awaited, L
  <2>1. CASE j = L
    BY <1>1, <1>4, <2>1
  <2>2. CASE j # L
    BY <1>5, <1>6, <2>2
  <2> QED
    BY <2>1, <2>2
<1>8. \A j \in 1 .. Len(t) : t[j].at # "enter" => t[j].node \in D
  BY <1>5 DEF Explored, L
<1>9. ASSUME NEW m \in Starts
      PROVE  m \in D \/ (t # <<>> /\ m \in Awaits(t[1]))
  <2>1. CASE L = 1
    <3>1. Top.at # "enter" /\ stack[1] = Top /\ 1 .. L - 1 = {}
      BY <1>1, <1>3, <2>1
    <3>2. \/ m \in E
          \/ \E j \in 1 .. L : stack[j].at = "enter" /\ m = stack[j].node
          \/ m \in Awaits(stack[1])
      BY <3>1 DEF Explored, L
    <3> QED
      BY <1>5, <2>1, <3>1, <3>2
  <2>2. CASE L # 1
    <3>1. 1 \in 1 .. Len(t)
      BY <1>1, <1>5, <2>2
    <3>2. \/ m \in E
          \/ \E j \in 1 .. L : stack[j].at = "enter" /\ m = stack[j].node
          \/ m \in Awaits(stack[1])
      BY <1>5, <3>1 DEF Explored, L
    <3>3. \A j \in 1 .. L : stack[j].at = "enter" => stack[j].node \in D
      BY <1>1, <1>5
    <3>4. t # <<>>
      BY <3>1
    <3> QED
      BY <1>5, <3>1, <3>2, <3>3, <3>4
  <2> QED
    BY <2>1, <2>2
<1>10. ASSUME NEW j \in 1 .. L, NEW m \in Within(Awaits(stack[j])),
              \A i \in 1 .. j - 1 : stack[i].at # "target"
       PROVE  \E k \in 1 .. Len(t) :
                 (\A i \in 1 .. k - 1 : t[i].at # "target") /\ m \in Within(Awaits(t[k]))
  <2>1. CASE j = L
    <3>1. Awaits(Top) = {}
      BY <1>3, <1>10, <2>1
    <3> QED
      BY <1>1, <1>10, <2>1, <3>1, WithinParts
  <2>2. CASE j # L
    <3>1. j \in 1 .. Len(t) /\ Len(t) \in Nat
      BY <1>1, <1>5, <2>2
    <3>2. \A i \in 1 .. j - 1 : i \in 1 .. Len(t) - 1
      BY <3>1
    <3> QED
      BY <1>5, <1>10, <3>1, <3>2
  <2> QED
    BY <2>1, <2>2
<1>11. Explored(t, D)
  BY <1>5, <1>7, <1>8, <1>9, <1>10, ExploredMoves, ZenonT(40) DEF L
<1> QED
  BY <1>11 DEF t

(* A reference met again leads to a position that was entered before. *)
LEMMA MetTarget ==
    ASSUME ResolverInv, At("enter"), Ref(Top.node) # Nowhere, OnPath, NEW E, Explored(stack, E)
    PROVE  /\ Targeted(stack) # {} /\ Target(Top.node) # Nowhere
           /\ TargetsOf(Top.node) \subseteq E \cup {Top.node}
<1>1. Running /\ Top.at = "enter"
  BY DEF At
<1>2. PICK k \in Targeted(stack) : Key(stack[k].node) = Key(Top.node)
  BY DEF OnPath, ResolverInv, Marks
<1>3. k \in 1 .. Len(stack) - 1 /\ stack[k].at = "target" /\ Len(stack) \in Nat \ {0}
  BY <1>1, TopHolds DEF Targeted, Top
<1>4. Ref(stack[k].node) # Nowhere /\ stack[k + 1].node = Target(stack[k].node) /\ k + 1 \in 1 .. Len(stack)
  BY <1>3, WaitingBelow
<1>5. Target(Top.node) = stack[k + 1].node
  BY <1>2, <1>4, KeyDecidesTarget
<1>6. Target(Top.node) \in Nodes
  BY <1>4, <1>5 DEF ResolverInv, Path, FrameHolds, Known
<1>7. Target(Top.node) \in E \cup {Top.node}
  <2>1. CASE k + 1 = Len(stack)
    BY <1>5, <2>1 DEF Top
  <2>2. CASE k + 1 # Len(stack)
    <3>1. k + 1 \in 1 .. Len(stack) - 1
      BY <1>3, <2>2
    <3>2. stack[k + 1].at # "enter"
      BY <3>1, WaitingBelow
    <3> QED
      BY <1>4, <1>5, <3>2 DEF Explored
  <2> QED
    BY <2>1, <2>2
<1> QED
  BY <1>2, <1>6, <1>7, ResolverAssumption DEF TargetsOf

LEMMA ReadKeywords ==
    ASSUME ResolverInv, UNCHANGED case, UNCHANGED mode, Running, NEW E, Explored(stack, E),
           \/ Top.at = "inlined"
           \/ /\ Top.at = "enter" /\ TargetsOf(Top.node) \subseteq E \cup {Top.node}
              /\ Ref(Top.node) = Nowhere \/ Target(Top.node) # Nowhere,
           NEW left, left \subseteq Reference, Become(Keywords(Top, left))
    PROVE  \E D \in SUBSET Nodes : Explored(stack, D)' /\ D \subseteq E \cup {Top.node}
<1> DEFINE f == Keywords(Top, left)
<1>1. f \in Frame /\ f.node = Top.node /\ f.at = "subs" /\ Range(f.todo) = SubsOf(Top.node)
  BY KeywordsBecome
<1> HIDE DEF f
<1>2. Become(f)
  BY DEF f
<1>3. Top.at = "inlined" => Awaits(Top) \subseteq Range(f.todo)
  BY <1>1 DEF Awaits
<1>4. Explored(stack', E \cup {Top.node})
  BY <1>1, <1>2, <1>3, ExploredBecome
<1> QED
  BY <1>4, ExploredStays DEF Explored

LEMMA ReadReturn ==
    ASSUME ResolverInv, UNCHANGED case, UNCHANGED mode, Running, NEW E, Explored(stack, E),
           \/ Top.at = "inlined" /\ (Node(Top.node).alone \/ case.dialect = "draft-07")
           \/ Top.at = "subs" /\ Top.todo = <<>>,
           Return(Top.left)
    PROVE  Explored(stack, E)'
<1>1. /\ Top.node \in Nodes /\ Top.left \subseteq Reference /\ FrameHolds(Top)
      /\ Len(stack) \in 1 .. Len(stack) /\ Top = stack[Len(stack)]
  BY TopHolds DEF Top
<1>2. Top.at # "enter" /\ Top.node \in E /\ E \in SUBSET Nodes
  BY <1>1 DEF Explored
<1>3. Awaits(Top) = {}
  <2>1. CASE Top.at = "inlined" /\ Node(Top.node).alone
    <3>1. Node(Top.node).subs = <<>>
      BY <1>1, <2>1 DEF ResolverInv, IsCase, Node
    <3>2. SubsOf(Top.node) = {}
      BY <1>1, <3>1, SMTT(30) DEF SubsOf, SubsIn, Node, Range
    <3> QED
      BY <2>1, <3>2 DEF Awaits
  <2>2. CASE Top.at = "inlined" /\ case.dialect = "draft-07"
    BY <1>1, <2>2 DEF Awaits, Ignored, FrameHolds
  <2>3. CASE Top.at = "subs" /\ Top.todo = <<>>
    BY <2>3 DEF Awaits, Range
  <2> QED
    BY <2>1, <2>2, <2>3
<1>4. Explored(stack', E)
  BY <1>1, <1>2, <1>3, ExploredReturn
<1> QED
  BY <1>2, <1>4, ExploredStays

(* A pointer that stays as it is.  In the host, what stands beside it is    *)
(* walked anyway, at its own place; in a fragment, nothing refers there.    *)
LEMMA ReadPointer ==
    ASSUME ResolverInv, UNCHANGED case, UNCHANGED mode, Reads, NEW E, Explored(stack, E),
           At("enter"), IsLocal(Ref(Top.node)), OnPath, ResolvesHost => Node(Top.node).root = Host,
           NEW left, left \subseteq Reference, Return(left)
    PROVE  \E D \in SUBSET Nodes : /\ Explored(stack, D)'
                                   /\ ResolvesHost => D \subseteq E \cup {Top.node}
<1> DEFINE n == Top.node
<1>1. Running /\ Top.at = "enter" /\ Ref(n) # Nowhere
  BY DEF At, IsLocal
<1>2. n \in Nodes /\ n \in Mentioned /\ E \in SUBSET Nodes
  BY <1>1, TopHolds DEF Explored
<1>3. Targeted(stack) # {} /\ Target(n) # Nowhere /\ TargetsOf(n) \subseteq E \cup {n}
  BY <1>1, MetTarget
<1>4. Needs[n] = TargetsOf(n) \cup IF Ignored(n) THEN {} ELSE {m \in SubsOf(n) : ~ IsTypeRoot(m)}
  BY <1>2 DEF Needs
<1> HIDE DEF n
<1>5. CASE ResolvesHost
  <2>1. \A x \in SubsOf(n) : ~ Ignored(n) => Walked(x)
    <3>1. ~ Ignored(n) => case.dialect = "later"
      BY <1>1 DEF Ignored, ResolverInv, IsCase
    <3>2. \A x \in SubsOf(n) : Node(x).root = Host
      BY <1>2, <1>5, DocumentTree DEF n, ResolverInv
    <3> QED
      BY <1>5, <3>1, <3>2 DEF Walked
  <2>2. \A m \in (E \cup {n}) \ E :
           /\ Ref(m) = Nowhere \/ Target(m) # Nowhere
           /\ \A x \in Needs[m] : x \in E \cup {n} \/ Walked(x)
    BY <1>3, <1>4, <2>1
  <2>3. Explored(stack', E \cup {n})
    <3> DEFINE D == E \cup {n}
    <3>1. D \in SUBSET Nodes /\ E \subseteq D /\ n \in D
      BY <1>2
    <3>2. \A m \in D \ E : /\ Ref(m) = Nowhere \/ Target(m) # Nowhere
                           /\ \A x \in Needs[m] : x \in D \/ Walked(x)
      BY <2>2
    <3> HIDE DEF D
    <3>3. Explored(stack', D)
      BY <1>1, <1>3, <3>1, <3>2, ExploredReturn DEF n
    <3> QED
      BY <3>3 DEF D
  <2> QED
    BY <1>2, <2>3, ExploredStays DEF n
<1>6. CASE ~ ResolvesHost
  <2> DEFINE D == E \cup Within({n})
  <2>1. /\ Within({n}) = {n} \cup Below(n) /\ Below(n) \subseteq Nodes
        /\ \A m \in Within({n}) : SubsOf(m) \subseteq Below(n)
    BY <1>2, WithinSplits DEF ResolverInv, Below
  <2>2. \A m \in Below(n) : Ref(m) = Nowhere
    BY <1>2, <1>6 DEF Reads, BarePointers, n
  <2>3. D \in SUBSET Nodes /\ E \subseteq D /\ n \in D
    BY <1>2, <2>1
  <2>4. ASSUME NEW m \in D \ E
        PROVE  /\ Ref(m) = Nowhere \/ Target(m) # Nowhere
               /\ \A x \in Needs[m] : x \in D
    <3>1. m \in Nodes /\ (m = n \/ m \in Below(n)) /\ SubsOf(m) \subseteq D
      BY <2>1, <2>3, <2>4
    <3>2. Needs[m] \subseteq TargetsOf(m) \cup SubsOf(m)
      BY <3>1 DEF Needs
    <3>3. TargetsOf(m) \subseteq D
      <4>1. CASE m = n
        BY <1>3, <2>3, <4>1
      <4>2. CASE m \in Below(n)
        BY <2>2, <4>2 DEF TargetsOf
      <4> QED
        BY <3>1, <4>1, <4>2
    <3> QED
      BY <1>3, <2>2, <3>1, <3>2, <3>3
  <2> HIDE DEF D
  <2>5. Explored(stack', D)
    BY <1>1, <1>3, <2>3, <2>4, ExploredReturn DEF n
  <2> QED
    BY <1>6, <2>3, <2>5, ExploredStays
<1> QED
  BY <1>5, <1>6

(* When nothing is left on the stack, all that is needed was entered. *)
LEMMA AllEntered ==
    ASSUME IsCase(case), NEW E, Explored(<<>>, E)
    PROVE  Needed \subseteq E
<1>1. Len(<<>>) = 0 /\ 1 .. 0 = {} /\ Awaited(<<>>) = {}
  BY DEF Awaited
<1>2. E \in SUBSET Nodes /\ Starts \subseteq E
  BY <1>1 DEF Explored
<1>3. \A n \in E : Needs[n] \subseteq E
  <2>1. \A m \in Nodes : Walked(m) => m \in E
    BY <1>1 DEF Explored
  <2>2. \A n \in E : Needs[n] \subseteq Nodes
    BY <1>2, NeedsGraph DEF IsGraph
  <2> QED
    BY <1>1, <2>1, <2>2 DEF Explored
<1> QED
  BY <1>2, <1>3, NeededWithin

LEMMA AllRead ==
    ASSUME IsCase(case), NEW E, Explored(<<>>, E)
    PROVE  ~ Dangling(Needed)
BY AllEntered DEF Dangling, Explored

(* A step reads at most the position on top, other than in a fragment. *)
LEMMA StepExplores ==
    ASSUME ResolverInv, [Step \/ Rest]_vars, ~ ResolveAgain, Reads, Reads',
           NEW E \in SUBSET Nodes, Explored(stack, E)
    PROVE  \E D \in SUBSET Nodes : /\ Explored(stack, D)'
                                   /\ ResolvesHost => D \subseteq E \cup {Top.node}
<1>1. UNCHANGED case /\ UNCHANGED mode
  BY DEF Step, Rest, vars, input, WithoutRef, MeetWhole, MeetPointerAgain, RebasePointer, MeetDocumentAgain,
         MeetTooDeep, MeetMissing, Inline, ReplaceByTarget, KeepRef, DropSiblings, Compose,
         NextSubschema, OmitSubschema, KeywordsDone, ResolveAgain
<1>2. /\ Reads /\ ~ contextual /\ ~ unresolved' /\ (ResolvesHost => ~ cycle_found')
      /\ (~ ResolvesHost => BarePointers)
  BY <1>1, CaseStays DEF Reads
<1>3. CASE WithoutRef
  <2>1. Running /\ Top.at = "enter" /\ Ref(Top.node) = Nowhere /\ Become(Keywords(Top, {}))
    BY <1>3 DEF WithoutRef, At
  <2>2. TargetsOf(Top.node) = {}
    BY <2>1 DEF TargetsOf
  <2> QED
    BY <1>1, <2>1, <2>2, ReadKeywords
<1>4. CASE MeetWhole \/ MeetTooDeep \/ MeetMissing
  BY <1>2, <1>4 DEF MeetWhole, MeansWholeBundled, MeetTooDeep, MeetMissing
<1>5. CASE MeetPointerAgain
  <2>1. /\ Running /\ At("enter") /\ IsLocal(Ref(Top.node)) /\ OnPath /\ Return(AsAuthored(Top.node))
        /\ cycle_found' = (cycle_found \/ ~ KeepsRecursion(Top.node))
    BY <1>5 DEF MeetPointerAgain, Meets, Refers, At, IsLocal
  <2>2. AsAuthored(Top.node) \subseteq Reference
    BY <2>1, TopHolds, AuthoredTyped DEF ResolverInv
  <2>3. ResolvesHost => Node(Top.node).root = Host
    BY <1>2, <2>1 DEF KeepsRecursion
  <2> QED
    BY <1>1, <1>2, <2>1, <2>2, <2>3, ReadPointer
<1>6. CASE RebasePointer
  <2> DEFINE left == {Rebased(Top.node)} \cup UNION {AsAuthored(m) : m \in SubsOf(Top.node)}
  <2>1. /\ Running /\ At("enter") /\ IsLocal(Ref(Top.node)) /\ OnPath /\ Return(left)
        /\ Rebases(Top.node) /\ Refers("local")
    BY <1>6 DEF RebasePointer, Meets, Refers, At, IsLocal
  <2>2. Rebased(Top.node) \in Reference
    BY <2>1, RebasedTyped DEF Rebases
  <2>3. \A m \in SubsOf(Top.node) : AsAuthored(m) \subseteq Reference
    BY <2>1, TopHolds, KnownMentions, AuthoredTyped DEF ResolverInv
  <2>4. ~ ResolvesHost
    BY <1>2, <2>1 DEF Rebases, RebasesRecursion
  <2>5. left \subseteq Reference
    BY <2>2, <2>3
  <2> HIDE DEF left
  <2> QED
    BY <1>1, <1>2, <2>1, <2>4, <2>5, ReadPointer
<1>7. CASE MeetDocumentAgain
  <2>1. /\ Running /\ At("enter") /\ Top.at = "enter" /\ Ref(Top.node) # Nowhere /\ OnPath
        /\ Become(Keywords(Top, {Ref(Top.node)}))
    BY <1>7 DEF MeetDocumentAgain, Meets, Refers, At
  <2>2. Target(Top.node) # Nowhere /\ TargetsOf(Top.node) \subseteq E \cup {Top.node}
    BY <2>1, MetTarget
  <2>3. {Ref(Top.node)} \subseteq Reference
    BY <2>1, RefTyped
  <2> QED
    BY <1>1, <2>1, <2>2, <2>3, ReadKeywords
<1>8. CASE Inline
  <2> DEFINE f == [Top EXCEPT !.at = "target"]
  <2>1. /\ Running /\ Top.at = "enter" /\ Ref(Top.node) # Nowhere /\ Target(Top.node) # Nowhere
    BY <1>8 DEF Inline, Fresh, Meets, Refers, At
  <2>2. f.at = "target" /\ IsPush(stack', stack, f, Target(Top.node))
    BY <1>8, InlinePush
  <2> HIDE DEF f
  <2>3. Explored(stack', E \cup {Top.node})
    BY <2>1, <2>2, ExploredPush
  <2> QED
    BY <1>1, <2>3, ExploredStays DEF Explored
<1>9. CASE ReplaceByTarget \/ DropSiblings \/ KeywordsDone
  <2>1. Running /\ Return(Top.left)
        /\ \/ Top.at = "inlined" /\ (Node(Top.node).alone \/ case.dialect = "draft-07")
           \/ Top.at = "subs" /\ Top.todo = <<>>
    BY <1>9 DEF ReplaceByTarget, DropSiblings, KeywordsDone, WithSiblings, At
  <2> QED
    BY <1>1, <2>1, ReadReturn
<1>10. CASE KeepRef
  <2>1. Running /\ Top.at = "inlined" /\ Become(Keywords(Top, {Ref(Top.node)}))
    BY <1>10 DEF KeepRef, WithSiblings, At
  <2>2. {Ref(Top.node)} \subseteq Reference
    BY <2>1, TopHolds, RefTyped DEF FrameHolds
  <2> QED
    BY <1>1, <2>1, <2>2, ReadKeywords
<1>11. CASE Compose
  <2>1. Running /\ Top.at = "inlined" /\ Become(Keywords(Top, Top.left))
    BY <1>11 DEF Compose, WithSiblings, At
  <2>2. Top.left \subseteq Reference
    BY <2>1, TopHolds
  <2> QED
    BY <1>1, <2>1, <2>2, ReadKeywords
<1>12. CASE NextSubschema
  <2> DEFINE f == [Top EXCEPT !.todo = Tail(@)]
             p == Head(Top.todo)
  <2>1. Running /\ Top.at = "subs"
    BY <1>12 DEF NextSubschema, Subschema, At
  <2>2. f.at = "subs" /\ IsPush(stack', stack, f, p) /\ Range(Top.todo) = {p} \cup Range(f.todo)
    BY <1>12, NextPush
  <2> HIDE DEF f, p
  <2>3. Explored(stack', E \cup {Top.node})
    BY <2>1, <2>2, ExploredPush
  <2> QED
    BY <1>1, <2>3, ExploredStays DEF Explored
<1>13. CASE OmitSubschema
  <2> DEFINE f == [Top EXCEPT !.todo = Tail(@)]
  <2>1. Running /\ Top.at = "subs"
    BY <1>13 DEF OmitSubschema, Subschema, At
  <2>2. /\ f \in Frame /\ f.at = "subs" /\ f.node = Top.node /\ Become(f)
        /\ Range(Top.todo) = {Head(Top.todo)} \cup Range(f.todo)
        /\ IsTypeRoot(Head(Top.todo)) /\ Targeted(stack) # {}
    BY <1>13, OmitBecome
  <2> HIDE DEF f
  <2>3. \A m \in Awaits(Top) : m \in Range(f.todo) \/ (IsTypeRoot(m) /\ Targeted(stack) # {})
    BY <2>1, <2>2 DEF Awaits
  <2>4. Explored(stack', E \cup {Top.node})
    BY <2>1, <2>2, <2>3, ExploredBecome
  <2> QED
    BY <1>1, <2>4, ExploredStays DEF Explored
<1>14. CASE Rest \/ UNCHANGED vars
  <2>1. UNCHANGED stack
    BY <1>14 DEF Rest, vars
  <2> QED
    BY <1>1, <2>1, ExploredStays
<1> QED
  BY <1>3, <1>4, <1>5, <1>6, <1>7, <1>8, <1>9, <1>10, <1>11, <1>12, <1>13, <1>14 DEF Step

(* What was held against the result stays held against it. *)
LEMMA FlagsStay ==
    ASSUME ResolverInv, [Step \/ Rest]_vars, ~ ResolveAgain
    PROVE  /\ UNCHANGED contextual
           /\ unresolved => unresolved'
           /\ cycle_found => cycle_found'
           /\ needs_bundle => needs_bundle'
<1>1. CASE MeetWhole \/ MeetPointerAgain \/ RebasePointer \/ MeetDocumentAgain \/ MeetTooDeep \/ MeetMissing
  <2>1. cycle_found \in BOOLEAN
    BY DEF ResolverInv, FlagsHold
  <2> QED
    BY <1>1, <2>1 DEF MeetWhole, MeetPointerAgain, RebasePointer, MeetDocumentAgain, MeetTooDeep, MeetMissing,
                      input, flags
<1>2. CASE WithoutRef \/ Inline \/ ReplaceByTarget \/ KeepRef \/ DropSiblings \/ Compose
  BY <1>2 DEF WithoutRef, Inline, ReplaceByTarget, KeepRef, DropSiblings, Compose, input, flags
<1>3. CASE NextSubschema \/ OmitSubschema \/ KeywordsDone \/ Rest \/ UNCHANGED vars
  BY <1>3 DEF NextSubschema, OmitSubschema, KeywordsDone, Rest, vars, input, flags
<1> QED
  BY <1>1, <1>2, <1>3 DEF Step

(* A resolution that has ended changes no more, unless it starts again. *)
LEMMA OnlyRest ==
    ASSUME [Step \/ Rest]_vars, ~ ResolveAgain, ~ Running
    PROVE  UNCHANGED stack
<1>1. ~ At("enter") /\ ~ At("inlined") /\ ~ At("subs")
  BY DEF At
<1>2. ~ (WithoutRef \/ MeetWhole \/ MeetPointerAgain \/ RebasePointer \/ MeetDocumentAgain \/ MeetTooDeep)
  BY <1>1 DEF WithoutRef, MeetWhole, MeansWholeBundled, MeetPointerAgain, RebasePointer, MeetDocumentAgain,
              MeetTooDeep, Meets, Refers
<1>3. ~ (MeetMissing \/ Inline \/ ReplaceByTarget \/ KeepRef \/ DropSiblings \/ Compose)
  BY <1>1 DEF MeetMissing, Inline, Fresh, Meets, Refers, ReplaceByTarget, KeepRef, DropSiblings, Compose, WithSiblings
<1>4. ~ (NextSubschema \/ OmitSubschema \/ KeywordsDone)
  BY <1>1 DEF NextSubschema, OmitSubschema, KeywordsDone, Subschema
<1> QED
  BY <1>2, <1>3, <1>4 DEF Step, Rest, vars

LEMMA StepRead == ResolverInv /\ ReadInv /\ [Step \/ Rest]_vars => ReadInv'
<1> SUFFICES ASSUME ResolverInv, ReadInv, [Step \/ Rest]_vars PROVE ReadInv'
  OBVIOUS
<1>1. UNCHANGED case /\ UNCHANGED mode
  BY DEF Step, Rest, vars, input, WithoutRef, MeetWhole, MeetPointerAgain, RebasePointer, MeetDocumentAgain,
         MeetTooDeep, MeetMissing, Inline, ReplaceByTarget, KeepRef, DropSiblings, Compose,
         NextSubschema, OmitSubschema, KeywordsDone, ResolveAgain
<1>2. CASE ResolveAgain
  <2>1. /\ stack = <<>> /\ ~ contextual /\ ~ unresolved /\ ~ ResolvesHost /\ contextual'
    BY <1>2 DEF ResolveAgain, Retries, Running
  <2>2. BarePointers => ~ Dangling(Needed)
    BY <2>1, AllRead DEF ReadInv, Reads, ResolverInv
  <2>3. ~ Reads'
    BY <2>1 DEF Reads
  <2>4. (contextual /\ BarePointers => ~ Dangling(Needed))'
    BY <1>1, <2>2, NeedsStay
  <2> QED
    BY <2>3, <2>4 DEF ReadInv
<1>3. CASE ~ ResolveAgain
  <2>1. /\ UNCHANGED contextual /\ (unresolved => unresolved') /\ (cycle_found => cycle_found')
    BY <1>3, FlagsStay
  <2>2. (contextual /\ BarePointers => ~ Dangling(Needed))'
    BY <1>1, <2>1, NeedsStay DEF ReadInv
  <2> SUFFICES ASSUME Reads' PROVE \E D \in SUBSET Nodes : Explored(stack, D)'
    BY <2>2 DEF ReadInv
  <2>3. Reads
    BY <1>1, <2>1, NeedsStay, CaseStays DEF Reads
  <2>4. PICK E \in SUBSET Nodes : Explored(stack, E)
    BY <2>3 DEF ReadInv
  <2> QED
    BY <1>3, <2>3, <2>4, StepExplores
<1> QED
  BY <1>2, <1>3

LEMMA InitExplored == Init => Explored(stack, {}) /\ ~ contextual
<1> SUFFICES ASSUME Init PROVE Explored(stack, {}) /\ ~ contextual
  OBVIOUS
<1>1. IsCase(case) /\ Len(stack) = 1 /\ stack[1] = Entered(case.fragment) /\ stack # <<>>
  BY ResolverAssumption DEF Init
<1>2. 1 \in 1 .. Len(stack) /\ 1 .. 1 - 1 = {} /\ \A j \in 1 .. Len(stack) : j = 1
  BY <1>1
<1>3. stack[1].at = "enter" /\ Awaits(stack[1]) = {case.fragment}
  BY <1>1 DEF Entered, Awaits
<1>4. \A m \in Nodes : Walked(m) => m \in Within({case.fragment})
  <2>1. From(Host, SubsIn(case)) = {m \in Nodes : Node(m).root = Host}
    BY <1>1, HostIsRoot DEF IsCase, Node
  <2> QED
    BY <2>1 DEF Walked, ResolvesHost, Within
<1> QED
  BY <1>1, <1>2, <1>3, <1>4 DEF Explored, Init

LEMMA InitRead == Init => ReadInv
BY InitExplored DEF ReadInv

(* What is resolved has no reference that leads nowhere, in either mode,     *)
(* but for what stands beside a pointer that stays in a fragment             *)
(* (resolve_inner).                                                          *)
THEOREM NothingDangles == Spec => []NoneDangling
<1>1. ASSUME ResolverInv, ReadInv PROVE NoneDangling
  <2> SUFFICES ASSUME Outcome = "resolved", ResolvesHost \/ BarePointers
               PROVE  ~ Dangling(Needed)
    BY DEF NoneDangling
  <2>1. stack = <<>> /\ ~ cycle_found /\ ~ unresolved
    BY DEF Outcome, Done, Running
  <2>2. CASE contextual
    BY <1>1, <2>2 DEF ResolverInv, FlagsHold, ReadInv
  <2>3. CASE ~ contextual
    <3>1. Reads
      BY <2>1, <2>3 DEF Reads
    <3> QED
      BY <1>1, <2>1, <3>1, AllRead DEF ReadInv, ResolverInv
  <2> QED
    BY <2>2, <2>3
<1>2. Spec => []ReadInv
  BY InitRead, StepRead, ResolverInvHolds, PTL DEF Spec
<1> QED
  BY <1>1, <1>2, ResolverInvHolds, PTL

(* The document is resolved, and what was read of other documents is        *)
(* settled.                                                                *)
SettledInv ==
    Decided /\ ~ cycle_found /\ ~ unresolved /\ ~ needs_bundle =>
        \E C \in SUBSET Nodes :
            /\ Settled(stack, C)
            /\ ResolvesHost => \E E \in SUBSET Nodes :
                  Explored(stack, E) /\ \A n \in E : Traced(n) => n \in C \cup OnStack(stack)

LEMMA InitSettled == Init => SettledInv
BY StartSettled, InitExplored DEF Init, SettledInv

LEMMA StepSettled == ResolverInv /\ SettledInv /\ [Step \/ Rest]_vars => SettledInv'
<1> SUFFICES ASSUME ResolverInv, SettledInv, [Step \/ Rest]_vars,
                    Decided', ~ cycle_found', ~ unresolved', ~ needs_bundle'
             PROVE  \E D \in SUBSET Nodes :
                       /\ Settled(stack, D)'
                       /\ ResolvesHost' => \E F \in SUBSET Nodes :
                             /\ Explored(stack, F)'
                             /\ \A n \in F : Traced(n)' => n \in D \cup OnStack(stack')
  BY DEF SettledInv, OnStack
<1>1. UNCHANGED case /\ UNCHANGED mode
  BY DEF Step, Rest, vars, input, WithoutRef, MeetWhole, MeetPointerAgain, RebasePointer, MeetDocumentAgain,
         MeetTooDeep, MeetMissing, Inline, ReplaceByTarget, KeepRef, DropSiblings, Compose,
         NextSubschema, OmitSubschema, KeywordsDone, ResolveAgain
<1>2. Decided /\ ResolvesHost' = ResolvesHost /\ \A n : Traced(n)' <=> Traced(n)
  BY <1>1, TracedStays, CaseStays
<1>3. CASE ResolveAgain
  <2>1. Settled(stack', {}) /\ ~ ResolvesHost
    BY <1>3, StartSettled DEF ResolveAgain, Retries
  <2> QED
    BY <1>1, <1>2, <2>1, SettledStays
<1>4. CASE ~ ResolveAgain
  <2>1. ~ cycle_found /\ ~ unresolved /\ ~ needs_bundle /\ UNCHANGED contextual
    BY <1>4, FlagsStay
  <2>2. PICK C \in SUBSET Nodes :
           /\ Settled(stack, C)
           /\ ResolvesHost => \E E \in SUBSET Nodes :
                 Explored(stack, E) /\ \A n \in E : Traced(n) => n \in C \cup OnStack(stack)
    BY <1>2, <2>1 DEF SettledInv
  <2>3. PICK D \in SUBSET Nodes : Settled(stack, D)' /\ Passes(C, D)
    BY <1>2, <1>4, <2>2, StepSettles
  <2>4. CASE ~ ResolvesHost
    BY <1>2, <2>3, <2>4
  <2>5. CASE ResolvesHost
    <3>1. PICK E \in SUBSET Nodes :
             Explored(stack, E) /\ \A n \in E : Traced(n) => n \in C \cup OnStack(stack)
      BY <2>2, <2>5
    <3>2. Reads /\ Reads'
      BY <1>2, <2>1, <2>5 DEF Reads, ResolverInv, FlagsHold
    <3>3. PICK F \in SUBSET Nodes : Explored(stack, F)' /\ F \subseteq E \cup OnStack(stack)
      <4>1. CASE Running
        <5>1. Top.node \in OnStack(stack)
          BY <4>1, TopHolds DEF OnStack, Top
        <5> QED
          BY <1>4, <2>5, <3>1, <3>2, <5>1, StepExplores
      <4>2. CASE ~ Running
        <5>1. UNCHANGED stack
          BY <1>4, <4>2, OnlyRest
        <5> QED
          BY <1>1, <3>1, <5>1, ExploredStays
      <4> QED
        BY <4>1, <4>2
    <3>4. \A n \in F : Traced(n) => n \in D \cup OnStack(stack')
      BY <2>3, <3>1, <3>3 DEF Passes
    <3> QED
      BY <1>2, <2>3, <3>3, <3>4
  <2> QED
    BY <2>4, <2>5
<1> QED
  BY <1>3, <1>4

(* What is resolved has no reference that leads nowhere and none that leads  *)
(* back to itself, unless its documents are bundled with it (resolve_in,     *)
(* ResolutionMode): in full mode, for a fragment, and for a whole document   *)
(* that no URI it leads to names in place.                                   *)
THEOREM ResolutionSound ==
    Spec => [](mode = "full" \/ ~ ResolvesHost \/ OnlyByPointers => ResolvedIsSound)
<1>1. ASSUME ResolverInv, SettledInv, Decided, Outcome = "resolved"
      PROVE  needs_bundle \/ ~ Recursive(Needed, Needs)
  <2>1. stack = <<>> /\ ~ cycle_found /\ ~ unresolved
    BY <1>1 DEF Outcome, Done, Running
  <2> SUFFICES ASSUME ~ needs_bundle PROVE ~ Recursive(Needed, Needs)
    OBVIOUS
  <2>2. PICK C \in SUBSET Nodes :
           /\ Settled(stack, C)
           /\ ResolvesHost => \E E \in SUBSET Nodes :
                 Explored(stack, E) /\ \A n \in E : Traced(n) => n \in C \cup OnStack(stack)
    BY <1>1, <2>1 DEF SettledInv
  <2>3. Needed \subseteq Mentioned
    BY <1>1, NeededMentioned DEF ResolverInv
  <2>4. \A n \in Needed : Traced(n) => n \in C
    <3>1. CASE ResolvesHost
      <4>1. PICK E \in SUBSET Nodes :
               Explored(<<>>, E) /\ \A n \in E : Traced(n) => n \in C \cup OnStack(<<>>)
        BY <2>1, <2>2, <3>1
      <4>2. Needed \subseteq E
        BY <1>1, <4>1, AllEntered DEF ResolverInv
      <4>3. OnStack(<<>>) = {}
        BY DEF OnStack
      <4> QED
        BY <4>1, <4>2, <4>3
    <3>2. CASE ~ ResolvesHost
      <4>1. \A n \in Starts : n \in Mentioned
        BY <1>1, NeededMentioned DEF ResolverInv
      <4>2. Starts \subseteq C /\ \A n \in C : Needs[n] \subseteq C
        BY <2>1, <2>2, <3>2, <4>1 DEF Settled, Traced
      <4> QED
        BY <1>1, <4>2, NeededWithin DEF ResolverInv
    <3> QED
      BY <3>1, <3>2
  <2>5. ASSUME NEW n \in Needed, TargetsOf(n) # {}, n \in From(Target(n), Needs),
               ~ (IsLocal(Ref(n)) /\ Node(n).root = Host /\ ResolvesHost /\ mode = "partial")
        PROVE  FALSE
    <3>1. Ref(n) # Nowhere /\ Target(n) # Nowhere /\ Target(n) \in TargetsOf(n)
      BY <2>5 DEF TargetsOf
    <3>2. n \in Nodes /\ n \in Mentioned /\ Ref(n) \in Reference /\ Target(n) \in Nodes
      BY <1>1, <2>3, <3>1, MentionedTyped, PositionTyped, TargetTyped DEF ResolverInv
    <3>3. Traced(n)
      <4> SUFFICES ASSUME Node(n).root = Host, ResolvesHost, mode = "partial", ~ IsLocal(Ref(n))
                   PROVE  Traced(n)
        BY <1>1, <2>5, <3>2, ResolverAssumption DEF Traced, ResolverInv
      <4>1. Ref(n).kind = "gts"
        BY <3>1, <3>2 DEF IsLocal, Reference
      <4>2. Traced(Target(n))
        <5>1. Target(n) \in Mentioned
          BY <1>1, <3>1, <3>2, MentionedTyped DEF Mentions, ResolverInv
        <5> QED
          BY <1>1, <3>1, <3>2, <4>1, <5>1 DEF Decided, OnlyByPointers, Traced
      <4>3. From(Target(n), Needs) \subseteq {m \in Nodes : Traced(m)}
        <5> DEFINE T == {m \in Nodes : Traced(m)}
        <5>1. \A m \in T \cap Nodes : Needs[m] \subseteq T
          <6> SUFFICES ASSUME NEW m \in Nodes, Traced(m), NEW x \in Needs[m]
                       PROVE  x \in Nodes /\ Traced(x)
            OBVIOUS
          <6>1. x \in Nodes
            BY <1>1, NeedsGraph DEF IsGraph, ResolverInv
          <6>2. x \in TargetsOf(m) \cup SubsOf(m)
            BY DEF Needs
          <6> QED
            BY <1>1, <6>1, <6>2, TracedNeeds DEF ResolverInv
        <5>2. Target(n) \in T
          BY <3>2, <4>2
        <5> HIDE DEF T
        <5>3. From(Target(n), Needs) \subseteq T
          BY <1>1, <3>2, <5>1, <5>2, NeedsGraph, FromLeast DEF ResolverInv
        <5> QED
          BY <5>3 DEF T
      <4> QED
        BY <2>5, <4>3
    <3>4. n \in C /\ Good(n)
      BY <2>2, <2>4, <3>3 DEF Settled
    <3> QED
      BY <2>5, <3>1, <3>4 DEF Good
  <2> QED
    BY <2>5 DEF Recursive
<1>2. ResolverInv /\ SettledInv /\ NoneDangling =>
         (mode = "full" \/ ~ ResolvesHost \/ OnlyByPointers => ResolvedIsSound)
  BY <1>1 DEF ResolvedIsSound, Decided
<1>3. Spec => []SettledInv
  BY InitSettled, StepSettled, ResolverInvHolds, PTL DEF Spec
<1> QED
  BY <1>2, <1>3, NothingDangles, ResolverInvHolds, PTL
=============================================================================
