------------------------ MODULE GtsValidationProofs ------------------------
(***************************************************************************)
(* Proofs about the validator: its type invariant, and that its answers    *)
(* are the ones the definition of validity prescribes when no document     *)
(* negates a reference.                                                    *)
(***************************************************************************)
EXTENDS GtsValidation, GtsValidityProofs, SequenceTheorems

---------------------------------------------------------------------------
(* Types.                                                                  *)

(* Typing is inductive together with the shape of the frames. *)
TypeInv ==
    /\ TypeOK
    /\ by_id \in Registries
    /\ Running => FramesShaped /\ MarksOrdered

(* Frame g is a well-formed state of the same judgement as frame f. *)
Resumes(g, f) ==
    /\ g \in Frame
    /\ FrameShape(by_id, request, g)
    /\ g.op = f.op /\ g.id = f.id /\ g.mark = f.mark

LEMMA NoTypeIsNoId == NoType \notin Ids
BY IdAssumption DEF Ids

(* What a registered type builds on is a set of types (RelatedTypes). *)
LEMMA RelatedAreTypes ==
    ASSUME NEW R, IsRegistry(R), NEW t \in TypeIds
    PROVE  RelatedTypes(R, t) \subseteq TypeIds
<1>1. RefsOf(R, t) \subseteq TypeIds
  BY DEF RefsOf, IsSchema, IsRegistry, IsDocument, Document
<1>2. Base[t] \in TypeIds \cup {NoType}
  BY IdAssumption
<1> QED
  BY <1>1, <1>2 DEF RelatedTypes

(* The function being run is a well-formed frame of the stack. *)
LEMMA TopFrame ==
    ASSUME TypeInv, Running
    PROVE  /\ Len(stack) \in Nat \ {0}
           /\ Len(stack) \in DOMAIN stack
           /\ DOMAIN stack = 1 .. Len(stack)
           /\ Top \in Frame
           /\ FrameShape(by_id, request, Top)
<1>1. stack \in Seq(Frame) /\ stack # <<>>
  BY DEF TypeInv, TypeOK
<1>2. Len(stack) \in Nat \ {0}
  BY <1>1, EmptySeq
<1>3. DOMAIN stack = 1 .. Len(stack)
  BY <1>1, LenProperties
<1>4. Len(stack) \in 1 .. Len(stack)
  BY <1>2
<1>5. Top \in Frame
  BY <1>1, <1>4, ElementOfSeq DEF Top
<1> QED
  BY <1>2, <1>3, <1>4, <1>5 DEF Top, TypeInv, FramesShaped

(* Marks are positions of the log, in the order of the frames. *)
LEMMA Marks ==
    ASSUME TypeInv, Running
    PROVE  /\ Len(judged_valid) \in Nat
           /\ \A k \in 1 .. Len(stack) :
                 /\ stack[k] \in Frame
                 /\ stack[k].mark \in Nat
                 /\ stack[k].mark <= Len(judged_valid)
                 /\ \A j \in 1 .. k : stack[j].mark <= stack[k].mark
<1>1. Len(judged_valid) \in Nat /\ DOMAIN stack = 1 .. Len(stack)
  BY LenProperties DEF TypeInv, TypeOK
<1>2. \A k \in 1 .. Len(stack) : stack[k] \in Frame
  BY ElementOfSeq DEF TypeInv, TypeOK
<1>3. \A k \in 1 .. Len(stack) : stack[k].mark \in Nat
  BY <1>2 DEF Frame
<1> QED
  BY <1>1, <1>2, <1>3 DEF TypeInv, MarksOrdered

(* Replacing the top frame by a well-formed one keeps the types. *)
LEMMA ContinueTyped ==
    ASSUME TypeInv, Running, NEW f, Resumes(f, Top), Continue(f)
    PROVE  TypeInv'
<1>1. stack \in Seq(Frame) /\ Len(stack) \in 1 .. Len(stack)
  BY TopFrame DEF TypeInv, TypeOK
<1>2. stack' = [stack EXCEPT ![Len(stack)] = f]
  BY DEF Continue
<1>3. /\ UNCHANGED <<by_id, request, outcome, calls>>
      /\ UNCHANGED <<validating, verdicts, judged_valid>>
  BY DEF Continue, caller, caches
<1>4. /\ stack' \in Seq(Frame)
      /\ Len(stack') = Len(stack)
      /\ \A j \in 1 .. Len(stack) : stack'[j] = IF j = Len(stack) THEN f ELSE stack[j]
  BY <1>1, <1>2, ExceptSeq DEF Resumes
<1>5. DOMAIN stack = 1 .. Len(stack) /\ DOMAIN stack' = 1 .. Len(stack)
  BY <1>1, <1>4, LenProperties
<1>6. FramesShaped'
  BY <1>3, <1>4, <1>5 DEF TypeInv, FramesShaped, Resumes
<1>7. MarksOrdered'
  <2>1. \A j \in 1 .. Len(stack) : stack'[j].mark = stack[j].mark
    BY <1>4 DEF Resumes, Top
  <2> QED
    BY <1>1, <1>3, <1>5, <2>1 DEF TypeInv, MarksOrdered
<1>8. stack' # <<>>
  BY <1>1, <1>4, EmptySeq
<1>9. TypeOK'
  BY <1>3, <1>4, <1>8 DEF TypeInv, TypeOK, Running
<1> QED
  BY <1>3, <1>6, <1>7, <1>9 DEF TypeInv

(* What the frames built by the actions are made of. *)
LEMMA FacingFrame ==
    ASSUME TypeInv, NEW f \in Frame, FrameShape(by_id, request, f),
           IsSchema(by_id, f.cur), InType(f),
           NEW ops \in Seq(SUBSET Ids), request.mode = "none" => ops = <<>>
    PROVE  Resumes(Facing(f, ops), f)
<1>1. (IF ops = <<>> THEN {} ELSE Head(ops) \cap DOMAIN by_id) \in SUBSET Ids
  <2>1. ops # <<>> => Head(ops) \in SUBSET Ids
    BY HeadTailProperties
  <2> QED
    BY <2>1
<1>2. Facing(f, ops) \in Frame
  BY <1>1 DEF Facing, Frame
<1> QED
  BY <1>2 DEF Resumes, Facing, Frame, FrameShape, InType, InstanceStored

LEMMA PayloadDocument ==
    ASSUME TypeInv, NEW f \in Frame, FrameShape(by_id, request, f),
           f.op # "schema", f.at \notin {"instance", "reject"}
    PROVE  /\ IsDocument(PayloadDoc(by_id, request, f))
           /\ PayloadType(by_id, f) \in Ids \cup {NoType}
<1>1. CASE f.op = "payload"
  <2>1. request \in Request /\ request.op = "payload" /\ IsDocument(request.doc)
    BY <1>1, CallAssumption DEF TypeInv, TypeOK, FrameShape
  <2> QED
    BY <1>1, <2>1 DEF PayloadDoc, PayloadType, Frame
<1>2. CASE f.op = "instance"
  <2>1. f.id \in DOMAIN by_id /\ IsDocument(by_id[f.id])
    BY <1>2 DEF TypeInv, TypeOK, FrameShape, InstanceStored, IsRegistry
  <2>2. by_id[f.id].type \in TypeIds \cup {NoType}
    BY <2>1 DEF IsDocument, Document
  <2> QED
    BY <1>2, <2>1, <2>2 DEF PayloadDoc, PayloadType, Ids
<1> QED
  BY <1>1, <1>2 DEF Frame

LEMMA CollectingFrame ==
    ASSUME TypeInv, NEW f \in Frame, FrameShape(by_id, request, f),
           NEW values \in SUBSET Ids, NEW stage \in {"values", "payload"},
           stage = "values" => InType(f) /\ IsSchema(by_id, f.cur),
           stage = "payload" => f.op # "schema" /\ f.at \notin {"instance", "reject"}
    PROVE  Resumes(Collecting(f, stage, values), f)
<1>1. Collecting(f, stage, values) \in Frame
  BY DEF Collecting, Frame
<1> QED
  BY <1>1 DEF Resumes, Collecting, Frame, FrameShape, InType, InstanceStored

LEMMA VisitingFrame ==
    ASSUME TypeInv, NEW f \in Frame, FrameShape(by_id, request, f),
           f.at \notin {"instance", "reject"}, NEW t \in Ids
    PROVE  Resumes(Visiting(f, t), f)
<1>1. Visiting(f, t) \in Frame
  BY DEF Visiting, Frame
<1> QED
  BY <1>1 DEF Resumes, Visiting, Frame, FrameShape, InType, InstanceStored

LEMMA SettledFrame ==
    ASSUME TypeInv, NEW f \in Frame, FrameShape(by_id, request, f), NEW r
    PROVE  Resumes(Settled(f, r), f)
<1>1. Settled(f, r) \in Frame
  BY DEF Settled, Frame
<1> QED
  BY <1>1 DEF Resumes, Settled, Frame, FrameShape, InType, InstanceStored

LEMMA EndedFrame ==
    ASSUME TypeInv, NEW f \in Frame, FrameShape(by_id, request, f),
           NEW stage \in {"accept", "reject"},
           f.at \in {"instance", "reject"} => stage = "reject"
    PROVE  Resumes([f EXCEPT !.at = stage], f)
<1>1. [f EXCEPT !.at = stage] \in Frame
  BY DEF Frame
<1> QED
  BY <1>1 DEF Resumes, Frame, FrameShape, InType, InstanceStored

LEMMA OpenedFrame ==
    ASSUME NEW id \in Ids, NEW mark \in Nat, NEW op \in {"schema", "instance", "payload"},
           op = "payload" => request.op = "payload"
    PROVE  Opened(op, id, mark) \in Frame /\ FrameShape(by_id, request, Opened(op, id, mark))
<1>0. NoType \in Ids \cup {NoType} /\ <<>> \in Seq(SUBSET Ids)
  BY EmptySeq
<1>1. CASE op = "schema"
  <2>1. Opened(op, id, mark) \in Frame
    BY <1>0, <1>1 DEF Opened, Frame
  <2> QED
    BY <1>1, <2>1 DEF Opened, FrameShape, InType
<1>2. CASE op = "instance"
  <2>1. Opened(op, id, mark) \in Frame
    BY <1>0, <1>2 DEF Opened, Frame
  <2> QED
    BY <1>2, <2>1 DEF Opened, FrameShape, InType
<1>3. CASE op = "payload"
  <2>1. Opened(op, id, mark) \in Frame
    BY <1>0, <1>3 DEF Opened, Frame
  <2> QED
    BY <1>3, <2>1 DEF Opened, FrameShape, InType
<1> QED
  BY <1>1, <1>2, <1>3

(* Every action that only moves the running function on keeps the types. *)
LEMMA ChecksTyped ==
    ASSUME TypeInv,
           \/ CheckInstance \/ CheckPayloadType \/ CheckHead
           \/ OperandMet \/ OperandMissed \/ OperandUnmet
           \/ CheckBody \/ Collect \/ CheckTraits \/ VisitRelated \/ SchemaDone
           \/ CheckPayload
    PROVE  TypeInv'
<1>1. Running
  BY DEF CheckInstance, CheckPayloadType, CheckHead, OperandMet, OperandMissed,
         OperandUnmet, CheckBody, Collect, CheckTraits, VisitRelated, SchemaDone,
         CheckPayload, At
<1>2. Top \in Frame /\ FrameShape(by_id, request, Top)
  BY <1>1, TopFrame
<1>3. ASSUME Top.at # "instance", Top.at # "reject", Go("accept")
      PROVE  TypeInv'
  BY <1>1, <1>2, <1>3, EndedFrame, ContinueTyped DEF Go
<1>4. ASSUME Go("reject")
      PROVE  TypeInv'
  BY <1>1, <1>2, <1>4, EndedFrame, ContinueTyped DEF Go
<1>5. ASSUME Top.at \notin {"instance", "reject"}, NEW t \in Ids, Continue(Visiting(Top, t))
      PROVE  TypeInv'
  BY <1>1, <1>2, <1>5, VisitingFrame, ContinueTyped
<1>6. ASSUME Top.op # "schema", Top.at \notin {"instance", "reject"},
             Continue(Collecting(Top, "payload", PayloadDoc(by_id, request, Top).candidates))
      PROVE  TypeInv'
  <2>1. PayloadDoc(by_id, request, Top).candidates \in SUBSET Ids
    BY <1>1, <1>2, <1>6, PayloadDocument DEF IsDocument, Document
  <2>2. LET f == Collecting(Top, "payload", PayloadDoc(by_id, request, Top).candidates)
        IN  Resumes(f, Top)
    BY <1>2, <1>6, <2>1, CollectingFrame
  <2> QED
    BY <1>1, <1>6, <2>2, ContinueTyped
<1>7. ASSUME NEW r, Continue(Settled(Top, r))
      PROVE  TypeInv'
  BY <1>1, <1>2, <1>7, SettledFrame, ContinueTyped
<1>8. ASSUME NEW t, IsSchema(by_id, t)
      PROVE  t \in Ids /\ by_id[t] \in Document /\ IsDocument(by_id[t])
  BY <1>8 DEF IsSchema, Ids, TypeInv, TypeOK, IsRegistry, IsDocument
<1>9. CASE CheckInstance
  <2>1. CASE Go("reject")
    BY <2>1, <1>4
  <2>2. CASE /\ Top.at = "instance"
             /\ Go("type")
             /\ InstanceStored(by_id, Top.id)
    <3>1. [Top EXCEPT !.at = "type"] \in Frame
      BY <1>2 DEF Frame
    <3>2. Resumes([Top EXCEPT !.at = "type"], Top)
      BY <1>2, <2>2, <3>1 DEF Resumes, Frame, FrameShape, InType, InstanceStored
    <3> QED
      BY <1>1, <2>2, <3>2, ContinueTyped DEF Go
  <2> QED
    BY <1>9, <2>1, <2>2 DEF CheckInstance, At, InstanceStored
<1>10. CASE CheckPayloadType
  <2>1. Top.at = "type" /\ Top.op # "schema"
    BY <1>2, <1>10 DEF CheckPayloadType, At, FrameShape
  <2>2. CASE Go("reject")
    BY <2>2, <1>4
  <2>3. CASE Continue(Collecting(Top, "payload", PayloadDoc(by_id, request, Top).candidates))
    BY <2>1, <2>3, <1>6
  <2>4. CASE /\ IsSchema(by_id, PayloadType(by_id, Top))
             /\ Continue(Visiting(Top, PayloadType(by_id, Top)))
    BY <2>1, <2>4, <1>5, <1>8
  <2> QED
    BY <1>10, <2>2, <2>3, <2>4 DEF CheckPayloadType
<1>11. CASE CheckHead
  <2>1. CASE Go("reject")
    BY <2>1, <1>4
  <2>2. CASE /\ IsSchema(by_id, Top.cur)
             /\ Continue(Facing(Top, IF request.mode = "none"
                                     THEN <<>> ELSE by_id[Top.cur].operands))
    <3>1. (IF request.mode = "none" THEN <<>> ELSE by_id[Top.cur].operands) \in Seq(SUBSET Ids)
      BY <2>2, <1>8, EmptySeq DEF Document
    <3>2. InType(Top)
      BY <1>11 DEF CheckHead, At, InType
    <3>3. LET f == Facing(Top, IF request.mode = "none" THEN <<>> ELSE by_id[Top.cur].operands)
          IN  Resumes(f, Top)
      BY <1>2, <2>2, <3>1, <3>2, FacingFrame
    <3> QED
      BY <1>1, <2>2, <3>3, ContinueTyped
  <2> QED
    BY <1>11, <2>1, <2>2 DEF CheckHead
<1>12. CASE OperandMet
  <2>1. /\ IsSchema(by_id, Top.cur) /\ InType(Top)
        /\ request.mode # "none" /\ Top.operands # <<>>
    BY <1>2, <1>12 DEF OperandMet, At, FrameShape, InType
  <2>2. Tail(Top.operands) \in Seq(SUBSET Ids)
    BY <1>2, <2>1, HeadTailProperties DEF Frame
  <2>3. Resumes(Facing(Top, Tail(Top.operands)), Top)
    BY <1>2, <2>1, <2>2, FacingFrame
  <2> QED
    BY <1>1, <1>12, <2>3, ContinueTyped DEF OperandMet
<1>13. CASE OperandMissed
  BY <1>13, <1>7 DEF OperandMissed
<1>14. CASE OperandUnmet
  BY <1>14, <1>4 DEF OperandUnmet
<1>15. CASE CheckBody
  <2>1. CASE Go("reject")
    BY <2>1, <1>4
  <2>2. CASE Continue(Collecting(Top, "values", by_id[Top.cur].candidates))
    <3>1. IsSchema(by_id, Top.cur) /\ InType(Top)
      BY <1>2, <1>15 DEF CheckBody, At, FrameShape, InType
    <3>2. by_id[Top.cur].candidates \in SUBSET Ids
      BY <3>1, <1>8 DEF Document
    <3>3. LET f == Collecting(Top, "values", by_id[Top.cur].candidates)
          IN  Resumes(f, Top)
      BY <1>2, <3>1, <3>2, CollectingFrame
    <3> QED
      BY <1>1, <2>2, <3>3, ContinueTyped
  <2> QED
    BY <1>15, <2>1, <2>2 DEF CheckBody
<1>16. CASE Collect
  <2>1. PICK r \in Asked(Top) :
          \/ Continue(Settled(Top, r))
          \/ Continue([Settled(Top, r) EXCEPT !.unsat = @ \cup {r}])
    BY <1>16 DEF Collect
  <2>2. r \in Ids
    BY <1>2, NoTypeIsNoId DEF Asked, Frame, FrameShape
  <2>3. LET f == [Settled(Top, r) EXCEPT !.unsat = @ \cup {r}]
        IN  Resumes(f, Top)
    <3>1. [Settled(Top, r) EXCEPT !.unsat = @ \cup {r}] \in Frame
      BY <1>2, <2>2 DEF Settled, Frame
    <3> QED
      BY <1>2, <3>1 DEF Resumes, Settled, Frame, FrameShape, InType, InstanceStored
  <2> QED
    BY <1>1, <1>7, <2>1, <2>3, ContinueTyped
<1>17. CASE CheckTraits
  <2>1. CASE Go("reject")
    BY <2>1, <1>4
  <2>2. CASE Continue([Top EXCEPT !.at = "related",
                       !.todo = @ \cup (RelatedTypes(by_id, Top.cur) \ Top.seen)])
    <3>1. IsSchema(by_id, Top.cur) /\ Top.at = "values"
      BY <1>2, <1>17 DEF CheckTraits, At, FrameShape
    <3>2. RelatedTypes(by_id, Top.cur) \subseteq Ids
      BY <3>1, RelatedAreTypes DEF TypeInv, TypeOK, Ids, IsSchema
    <3>3. [Top EXCEPT !.at = "related",
              !.todo = @ \cup (RelatedTypes(by_id, Top.cur) \ Top.seen)] \in Frame
      BY <1>2, <3>2 DEF Frame
    <3>4. Resumes([Top EXCEPT !.at = "related",
              !.todo = @ \cup (RelatedTypes(by_id, Top.cur) \ Top.seen)], Top)
      BY <1>2, <3>1, <3>3 DEF Resumes, Frame, FrameShape, InType, InstanceStored
    <3> QED
      BY <1>1, <2>2, <3>4, ContinueTyped
  <2> QED
    BY <1>17, <2>1, <2>2 DEF CheckTraits
<1>18. CASE VisitRelated
  BY <1>2, <1>18, <1>5 DEF VisitRelated, At, Frame
<1>19. CASE SchemaDone
  <2>1. Top.at = "related"
    BY <1>19 DEF SchemaDone, At
  <2> QED
    BY <1>19, <1>3, <1>6, <2>1 DEF SchemaDone
<1>20. CASE CheckPayload
  <2>1. Top.at = "payload"
    BY <1>20 DEF CheckPayload, At
  <2> QED
    BY <1>20, <1>3, <1>4, <2>1 DEF CheckPayload
<1> QED
  BY <1>9, <1>10, <1>11, <1>12, <1>13, <1>14, <1>15, <1>16, <1>17, <1>18, <1>19, <1>20

(* What beginning a nested judgement (entity_is_valid) does to the stack. *)
LEMMA JudgeStack ==
    ASSUME TypeInv, Judge
    PROVE  \E r \in Top.asks \cap Ids :
              /\ r \in Asked(Top) /\ Undecided(r)
              /\ validating' = validating \cup {r}
              /\ UNCHANGED <<by_id, request, outcome, calls, verdicts, judged_valid>>
              /\ stack' \in Seq(Frame) /\ Len(stack') = Len(stack) + 1
              /\ DOMAIN stack' = 1 .. Len(stack) + 1
              /\ \A k \in 1 .. Len(stack) :
                    stack'[k] = IF k = Len(stack) THEN [Top EXCEPT !.asking = r] ELSE stack[k]
              /\ stack'[Len(stack) + 1] = Opened(OpOf(r), r, Len(judged_valid))
<1>1. Running
  BY DEF Judge, At
<1>2. /\ Top \in Frame /\ FrameShape(by_id, request, Top)
      /\ stack \in Seq(Frame) /\ Len(stack) \in 1 .. Len(stack)
  BY <1>1, TopFrame DEF TypeInv, TypeOK
<1>3. PICK r \in Asked(Top) :
         /\ Undecided(r)
         /\ validating' = validating \cup {r}
         /\ stack' = Append([stack EXCEPT ![Len(stack)].asking = r],
                            Opened(OpOf(r), r, Len(judged_valid)))
  BY DEF Judge
<1>4. UNCHANGED <<by_id, request, outcome, calls, verdicts, judged_valid>>
  BY DEF Judge, caller
<1>5. r \in Top.asks /\ r \in Ids
  BY <1>2, NoTypeIsNoId DEF Asked, Frame, FrameShape
<1> DEFINE waiting == [Top EXCEPT !.asking = r]
           opened == Opened(OpOf(r), r, Len(judged_valid))
           below == [stack EXCEPT ![Len(stack)] = waiting]
<1>6. waiting \in Frame
  BY <1>2, <1>5 DEF Frame
<1>7. opened \in Frame
  <2>1. Len(judged_valid) \in Nat
    BY LenProperties DEF TypeInv, TypeOK
  <2> QED
    BY <1>5, <2>1, OpenedFrame DEF OpOf
<1>8. stack' = Append(below, opened)
  BY <1>3 DEF Top
<1> HIDE DEF waiting, opened
<1>9. /\ below \in Seq(Frame) /\ Len(below) = Len(stack)
      /\ \A k \in 1 .. Len(stack) : below[k] = IF k = Len(stack) THEN waiting ELSE stack[k]
  BY <1>2, <1>6, ExceptSeq
<1> HIDE DEF below
<1>10. /\ stack' \in Seq(Frame) /\ Len(stack') = Len(stack) + 1
       /\ \A k \in 1 .. Len(stack) : stack'[k] = below[k]
       /\ stack'[Len(stack) + 1] = opened
  BY <1>7, <1>8, <1>9, AppendProperties
<1>11. DOMAIN stack' = 1 .. Len(stack) + 1
  BY <1>10, LenProperties
<1> QED
  BY <1>3, <1>4, <1>5, <1>9, <1>10, <1>11 DEF waiting, opened

(* It keeps the types. *)
LEMMA JudgeTyped ==
    ASSUME TypeInv, Judge
    PROVE  TypeInv'
<1>1. Running
  BY DEF Judge, At
<1>2. /\ Top \in Frame /\ FrameShape(by_id, request, Top)
      /\ Len(stack) \in Nat /\ Len(stack) \in 1 .. Len(stack)
      /\ DOMAIN stack = 1 .. Len(stack)
  BY <1>1, TopFrame
<1>3. PICK r \in Top.asks \cap Ids :
         /\ validating' = validating \cup {r}
         /\ UNCHANGED <<by_id, request, outcome, calls, verdicts, judged_valid>>
         /\ stack' \in Seq(Frame) /\ Len(stack') = Len(stack) + 1
         /\ DOMAIN stack' = 1 .. Len(stack) + 1
         /\ \A k \in 1 .. Len(stack) :
               stack'[k] = IF k = Len(stack) THEN [Top EXCEPT !.asking = r] ELSE stack[k]
         /\ stack'[Len(stack) + 1] = Opened(OpOf(r), r, Len(judged_valid))
  BY JudgeStack
<1> DEFINE waiting == [Top EXCEPT !.asking = r]
           opened == Opened(OpOf(r), r, Len(judged_valid))
<1>4. Len(judged_valid) \in Nat
  BY <1>1, Marks
<1>5. FrameShape(by_id, request, waiting) /\ waiting.mark = Top.mark
  <2>1. waiting \in Frame
    BY <1>2 DEF Frame
  <2> QED
    BY <1>2, <2>1 DEF Frame, FrameShape, InType, InstanceStored
<1>6. FrameShape(by_id, request, opened) /\ opened.mark = Len(judged_valid)
  <2>1. opened.mark = Len(judged_valid)
    BY DEF Opened
  <2> QED
    BY <1>4, <2>1, OpenedFrame DEF OpOf
<1> HIDE DEF waiting, opened
<1>7. /\ stack'[Len(stack) + 1] = opened
      /\ \A k \in 1 .. Len(stack) : stack'[k] = IF k = Len(stack) THEN waiting ELSE stack[k]
  BY <1>3 DEF waiting, opened
<1>8. FramesShaped'
  <2> SUFFICES ASSUME NEW k \in 1 .. Len(stack) + 1
               PROVE  FrameShape(by_id, request, stack'[k])
    BY <1>3 DEF FramesShaped
  <2>1. CASE k = Len(stack) + 1
    BY <2>1, <1>6, <1>7
  <2>2. CASE k \in 1 .. Len(stack)
    BY <2>2, <1>1, <1>2, <1>5, <1>7 DEF TypeInv, FramesShaped
  <2> QED
    BY <1>2, <2>1, <2>2
<1>9. MarksOrdered'
  <2>1. \A k \in 1 .. Len(stack) : stack'[k].mark = stack[k].mark
    BY <1>5, <1>7 DEF Top
  <2> SUFFICES ASSUME NEW k \in 1 .. Len(stack) + 1
               PROVE  /\ stack'[k].mark <= Len(judged_valid)
                      /\ \A j \in 1 .. k : stack'[j].mark <= stack'[k].mark
    BY <1>3 DEF MarksOrdered
  <2>2. CASE k = Len(stack) + 1
    <3>1. stack'[k].mark = Len(judged_valid)
      BY <1>6, <1>7, <2>2
    <3>2. \A j \in 1 .. Len(stack) : stack[j].mark <= Len(judged_valid)
      BY <1>1, Marks
    <3>3. \A j \in 1 .. k : j = k \/ j \in 1 .. Len(stack)
      BY <1>2, <2>2
    <3> QED
      BY <1>4, <2>1, <3>1, <3>2, <3>3
  <2>3. CASE k \in 1 .. Len(stack)
    BY <1>1, <1>2, <2>1, <2>3, Marks
  <2> QED
    BY <1>2, <2>2, <2>3
<1>10. stack' # <<>>
  BY <1>2, <1>3, EmptySeq
<1>11. TypeOK'
  BY <1>1, <1>3, <1>10 DEF TypeInv, TypeOK, Running
<1> QED
  BY <1>3, <1>8, <1>9, <1>11 DEF TypeInv

(* What ending one does to the stack... *)
LEMMA LeaveStack ==
    ASSUME TypeInv, LeaveValid \/ LeaveInvalid
    PROVE  /\ Running /\ Top \in Frame
           /\ Len(stack) \in Nat /\ Len(stack) > 1
           /\ DOMAIN stack = 1 .. Len(stack)
           /\ validating' = validating \ {Top.id}
           /\ UNCHANGED <<by_id, request, outcome, calls>>
           /\ stack' \in Seq(Frame) /\ Len(stack') = Len(stack) - 1
           /\ DOMAIN stack' = 1 .. Len(stack) - 1
           /\ \A k \in 1 .. Len(stack) - 1 : stack'[k] = stack[k]
<1>1. Running /\ Len(stack) > 1
  BY DEF LeaveValid, LeaveInvalid, Nested
<1>2. /\ Top \in Frame /\ stack \in Seq(Frame) /\ Len(stack) \in Nat
      /\ DOMAIN stack = 1 .. Len(stack)
  BY <1>1, TopFrame DEF TypeInv, TypeOK
<1>3. /\ stack' = SubSeq(stack, 1, Len(stack) - 1)
      /\ validating' = validating \ {Top.id}
      /\ UNCHANGED <<by_id, request, outcome, calls>>
  BY DEF LeaveValid, LeaveInvalid, caller
<1>4. \A k \in 1 .. Len(stack) - 1 : stack[k] \in Frame
  BY <1>2, ElementOfSeq
<1>5. /\ stack' \in Seq(Frame) /\ Len(stack') = Len(stack) - 1
      /\ \A k \in 1 .. Len(stack) - 1 : stack'[k] = stack[k]
  BY <1>1, <1>2, <1>3, <1>4, SubSeqProperties
<1>6. DOMAIN stack' = 1 .. Len(stack) - 1
  BY <1>5, LenProperties
<1> QED
  BY <1>1, <1>2, <1>3, <1>5, <1>6

(* ... and to the log of valid verdicts. *)
LEMMA LeaveLog ==
    ASSUME TypeInv, LeaveValid \/ LeaveInvalid
    PROVE  /\ Len(judged_valid) \in Nat /\ Top.mark \in Nat /\ Top.mark <= Len(judged_valid)
           /\ judged_valid' \in Seq(Ids)
           /\ LeaveValid => /\ Len(judged_valid') = Len(judged_valid) + 1
                            /\ judged_valid'[Len(judged_valid) + 1] = Top.id
           /\ LeaveInvalid => Len(judged_valid') = Top.mark
           /\ \A k \in 1 .. Top.mark : judged_valid'[k] = judged_valid[k]
           /\ LeaveValid =>
                 \A k \in 1 .. Len(judged_valid) : judged_valid'[k] = judged_valid[k]
<1>1. /\ Len(judged_valid) \in Nat /\ Top.mark \in Nat /\ Top.mark <= Len(judged_valid)
      /\ judged_valid \in Seq(Ids) /\ Top.id \in Ids
  <2>1. Running /\ Top \in Frame /\ Len(stack) \in 1 .. Len(stack)
    BY LeaveStack
  <2> QED
    BY <2>1, Marks DEF TypeInv, TypeOK, Top, Frame
<1>2. CASE LeaveValid
  <2>1. judged_valid' = Append(judged_valid, Top.id) /\ ~LeaveInvalid
    BY <1>2 DEF LeaveValid, LeaveInvalid
  <2> QED
    BY <1>1, <2>1, AppendProperties
<1>3. CASE LeaveInvalid
  <2>1. judged_valid' = SubSeq(judged_valid, 1, Top.mark) /\ ~LeaveValid
    BY <1>3 DEF LeaveValid, LeaveInvalid
  <2>2. \A k \in 1 .. Top.mark : judged_valid[k] \in Ids
    BY <1>1, ElementOfSeq
  <2>3. /\ judged_valid' \in Seq(Ids) /\ Len(judged_valid') = Top.mark
        /\ \A k \in 1 .. Top.mark : judged_valid'[k] = judged_valid[k]
    BY <1>1, <2>1, <2>2, SubSeqProperties
  <2> QED
    BY <1>1, <2>1, <2>3
<1> QED
  BY <1>2, <1>3

(* It keeps the types. *)
LEMMA LeaveTyped ==
    ASSUME TypeInv, LeaveValid \/ LeaveInvalid
    PROVE  TypeInv'
<1>1. /\ Running /\ Len(stack) \in Nat /\ Len(stack) > 1
      /\ DOMAIN stack = 1 .. Len(stack)
      /\ UNCHANGED <<by_id, request, outcome, calls>>
      /\ validating' = validating \ {Top.id}
      /\ stack' \in Seq(Frame) /\ Len(stack') = Len(stack) - 1
      /\ DOMAIN stack' = 1 .. Len(stack) - 1
      /\ \A k \in 1 .. Len(stack) - 1 : stack'[k] = stack[k]
  BY LeaveStack
<1>2. FramesShaped'
  BY <1>1 DEF TypeInv, FramesShaped
<1>3. MarksOrdered'
  <2>1. Len(judged_valid') \in Nat /\ Top.mark \in Nat /\ Top.mark <= Len(judged_valid')
    BY LeaveLog
  <2> SUFFICES ASSUME NEW k \in 1 .. Len(stack) - 1
               PROVE  /\ stack[k].mark <= Len(judged_valid')
                      /\ \A j \in 1 .. k : stack[j].mark <= stack[k].mark
    BY <1>1 DEF MarksOrdered
  <2>2. k \in 1 .. Len(stack) /\ Len(stack) \in 1 .. Len(stack) /\ k \in 1 .. Len(stack)
    BY <1>1
  <2>3. stack[k].mark \in Nat /\ stack[k].mark <= Top.mark
    BY <1>1, <2>2, Marks DEF Top
  <2> QED
    BY <1>1, <2>1, <2>2, <2>3, Marks
<1>4. stack' # <<>>
  BY <1>1, EmptySeq
<1>5. judged_valid' \in Seq(Ids)
  BY LeaveLog
<1>6. verdicts' \in [Ids -> {"unknown", "valid", "invalid"}]
  <2>1. CASE LeaveValid
    BY <2>1 DEF LeaveValid, TypeInv, TypeOK
  <2>2. CASE LeaveInvalid
    BY <2>2 DEF LeaveInvalid, TypeInv, TypeOK
  <2> QED
    BY <2>1, <2>2
<1>7. TypeOK'
  BY <1>1, <1>4, <1>5, <1>6 DEF TypeInv, TypeOK, Running
<1> QED
  BY <1>1, <1>2, <1>3, <1>7 DEF TypeInv

(* A top-level call starts with one well-formed frame and empty caches. *)
LEMMA BeginTyped ==
    ASSUME TypeInv, NEW req \in Requests, Begin(req)
    PROVE  TypeInv'
<1>1. /\ req.op \in {"schema", "instance", "payload"} /\ req.id \in Ids
  BY CallAssumption DEF Request
<1> DEFINE opened == Opened(req.op, req.id, 0)
<1>2. opened \in Frame
  BY <1>1, EmptySeq DEF Opened, Frame
<1>3. /\ stack' = <<opened>> /\ request' = req /\ by_id' = by_id
      /\ outcome' = "running" /\ judged_valid' = <<>>
  BY DEF Begin
<1>4. FrameShape(by_id', request', opened)
  BY <1>1, <1>3 DEF Opened, FrameShape, InType
<1> HIDE DEF opened
<1>5. /\ stack' \in Seq(Frame) /\ stack' # <<>> /\ judged_valid' \in Seq(Ids)
      /\ DOMAIN stack' = 1 .. 1 /\ stack'[1] = opened /\ Len(judged_valid') = 0
  BY <1>2, <1>3, EmptySeq
<1>6. FramesShaped'
  BY <1>4, <1>5 DEF FramesShaped
<1>7. MarksOrdered'
  <2>1. opened.mark = 0
    BY DEF opened, Opened
  <2> QED
    BY <1>5, <2>1 DEF MarksOrdered
<1>8. TypeOK'
  BY <1>3, <1>5, CallAssumption DEF Begin, TypeInv, TypeOK, Running
<1> QED
  BY <1>3, <1>6, <1>7, <1>8 DEF TypeInv

(* Nothing of a call survives its end but the caches and its outcome. *)
LEMMA EndTyped ==
    ASSUME TypeInv, Answer \/ Panic \/ Change
    PROVE  TypeInv'
<1>1. outcome' \in {"idle", "accepted", "rejected"} /\ stack' = <<>>
  BY DEF Answer, Panic, Change, TypeInv, TypeOK
<1>2. /\ by_id' \in Registries /\ IsRegistry(by_id')
      /\ UNCHANGED <<request, calls, validating, verdicts, judged_valid>>
  BY CallAssumption DEF Answer, Panic, Change, caches, TypeInv, TypeOK
<1>3. ~Running'
  BY <1>1 DEF Running
<1>4. stack' \in Seq(Frame)
  BY <1>1, EmptySeq
<1> QED
  BY <1>1, <1>2, <1>3, <1>4 DEF TypeInv, TypeOK

LEMMA InitTyped ==
    ASSUME Init
    PROVE  TypeInv
<1>1. request \in Requests
  BY CallAssumption DEF Init
<1>2. <<>> \in Seq(Frame) /\ <<>> \in Seq(Ids)
  BY EmptySeq
<1> QED
  BY <1>1, <1>2, CallAssumption DEF Init, TypeInv, TypeOK, Running

LEMMA NextTyped ==
    ASSUME TypeInv, [Next]_vars
    PROVE  TypeInv'
<1>1. CASE UNCHANGED vars
  BY <1>1 DEF vars, TypeInv, TypeOK, Running, FramesShaped, MarksOrdered
<1>2. CASE \E req \in Requests : Begin(req)
  BY <1>2, BeginTyped
<1>3. CASE Answer \/ Panic \/ Change
  BY <1>3, EndTyped
<1>4. CASE Judge
  BY <1>4, JudgeTyped
<1>5. CASE LeaveValid \/ LeaveInvalid
  BY <1>5, LeaveTyped
<1> QED
  BY <1>1, <1>2, <1>3, <1>4, <1>5, ChecksTyped DEF Next, Step, Rest

(***************************************************************************)
(* Every state of the validator is well-typed: each frame of the recursion *)
(* is one the code can be in, at a stage its kind of entity has, and every *)
(* document it dereferences is registered.                                 *)
(***************************************************************************)
THEOREM TypeCorrect == Spec => []TypeOK
<1>1. Init => TypeInv
  BY InitTyped
<1>2. TypeInv /\ [Next]_vars => TypeInv'
  BY NextTyped
<1>3. TypeInv => TypeOK
  BY DEF TypeInv
<1> QED
  BY <1>1, <1>2, <1>3, PTL DEF Spec

---------------------------------------------------------------------------
(* The caches.                                                             *)

(* Only an any-valid call ever judges, and then only what is undecided. *)
CachesUnused ==
    Running /\ request.mode # "any-valid" =>
        Len(stack) = 1 /\ judged_valid = <<>> /\ \A id \in Ids : verdicts[id] = "unknown"

CacheInv == TypeInv /\ CachesAgree /\ NoReentry /\ CachesUnused

LEMMA JudgedUndecided ==
    ASSUME TypeOK, NEW r \in Ids, Undecided(r)
    PROVE  request.mode = "any-valid" /\ verdicts[r] = "unknown" /\ r \notin validating
<1>1. request.mode \in Modes
  BY CallAssumption DEF TypeOK, Request
<1>2. verdicts[r] \in {"unknown", "valid", "invalid"}
  BY DEF TypeOK
<1> QED
  BY <1>1, <1>2 DEF Undecided, Satisfied, Unsatisfied, Modes

(* Judging an entity marks it as running, once, and decides nothing. *)
LEMMA JudgeCaches ==
    ASSUME CacheInv, Judge
    PROVE  CacheInv'
<1>1. Running /\ Running' /\ Len(stack) \in Nat \ {0} /\ DOMAIN judged_valid' = DOMAIN judged_valid
  <2>1. Running /\ UNCHANGED <<outcome, judged_valid>>
    BY DEF Judge, At, caller
  <2> QED
    BY <2>1, TopFrame DEF CacheInv, Running
<1>2. PICK r \in Top.asks \cap Ids :
         /\ r \in Asked(Top) /\ Undecided(r)
         /\ validating' = validating \cup {r}
         /\ UNCHANGED <<by_id, request, outcome, calls, verdicts, judged_valid>>
         /\ stack' \in Seq(Frame) /\ Len(stack') = Len(stack) + 1
         /\ DOMAIN stack' = 1 .. Len(stack) + 1
         /\ \A k \in 1 .. Len(stack) :
               stack'[k] = IF k = Len(stack) THEN [Top EXCEPT !.asking = r] ELSE stack[k]
         /\ stack'[Len(stack) + 1] = Opened(OpOf(r), r, Len(judged_valid))
  BY JudgeStack DEF CacheInv
<1>3. request.mode = "any-valid" /\ verdicts[r] = "unknown" /\ r \notin validating
  BY <1>2, JudgedUndecided DEF CacheInv, TypeInv
<1>4. \A k \in 1 .. Len(stack) : stack'[k].id = stack[k].id
  <2>1. Top \in Frame
    BY <1>1, TopFrame DEF CacheInv
  <2>2. [Top EXCEPT !.asking = r].id = Top.id
    BY <2>1 DEF Frame
  <2> QED
    BY <1>2, <2>2 DEF Top
<1>5. stack'[Len(stack) + 1].id = r
  BY <1>2 DEF Opened
<1>6. \A k \in 2 .. Len(stack) + 1 : k = Len(stack) + 1 \/ k \in 2 .. Len(stack)
  BY <1>1
<1>7. /\ validating = {stack[k].id : k \in 2 .. Len(stack)}
      /\ \A j, k \in 2 .. Len(stack) : stack[j].id = stack[k].id => j = k
  BY <1>1 DEF CacheInv, NoReentry
<1>8. NoReentry'
  <2>1. \A k \in 2 .. Len(stack) : k \in 1 .. Len(stack) /\ k \in 2 .. Len(stack) + 1
    BY <1>1
  <2>2. Len(stack) + 1 \in 2 .. Len(stack) + 1
    BY <1>1
  <2>3. \A k \in 2 .. Len(stack) : stack'[k].id = stack[k].id /\ stack'[k].id \in validating
    BY <1>4, <1>7, <2>1
  <2>4. validating' = {stack'[k].id : k \in 2 .. Len(stack) + 1}
    BY <1>2, <1>5, <1>6, <1>7, <2>1, <2>2, <2>3
  <2>5. \A j, k \in 2 .. Len(stack) + 1 : stack'[j].id = stack'[k].id => j = k
    BY <1>3, <1>5, <1>6, <1>7, <2>3
  <2> QED
    BY <1>2, <2>4, <2>5 DEF NoReentry
<1>9. CachesAgree'
  BY <1>1, <1>2, <1>3 DEF CacheInv, CachesAgree, JudgedValid
<1>10. CachesUnused'
  BY <1>2, <1>3 DEF CachesUnused
<1> QED
  BY <1>8, <1>9, <1>10, JudgeTyped DEF CacheInv

(* Deciding an entity ends its run, and the log and the map move together. *)
LEMMA LeaveCaches ==
    ASSUME CacheInv, LeaveValid \/ LeaveInvalid
    PROVE  CacheInv'
<1>1. /\ Running /\ Running' /\ Top \in Frame /\ Top = stack[Len(stack)]
      /\ Len(stack) \in Nat /\ Len(stack) > 1
      /\ validating' = validating \ {Top.id}
      /\ UNCHANGED <<by_id, request, outcome, calls>>
      /\ Len(stack') = Len(stack) - 1
      /\ \A k \in 1 .. Len(stack) - 1 : stack'[k] = stack[k]
  BY LeaveStack DEF CacheInv, Running, Top
<1>2. /\ validating = {stack[k].id : k \in 2 .. Len(stack)}
      /\ \A j, k \in 2 .. Len(stack) : stack[j].id = stack[k].id => j = k
  BY <1>1 DEF CacheInv, NoReentry
<1>3. NoReentry'
  <2>1. /\ \A k \in 2 .. Len(stack) - 1 : k \in 2 .. Len(stack) /\ k # Len(stack)
                                          /\ stack'[k] = stack[k]
        /\ Len(stack) \in 2 .. Len(stack)
        /\ \A k \in 2 .. Len(stack) : k = Len(stack) \/ k \in 2 .. Len(stack) - 1
    BY <1>1
  <2>2. \A k \in 2 .. Len(stack) - 1 : stack[k].id # Top.id
    BY <1>1, <1>2, <2>1
  <2>3. validating' = {stack'[k].id : k \in 2 .. Len(stack) - 1}
    BY <1>1, <1>2, <2>1, <2>2
  <2>4. \A j, k \in 2 .. Len(stack) - 1 : stack'[j].id = stack'[k].id => j = k
    BY <1>2, <2>1
  <2> QED
    BY <1>1, <2>3, <2>4 DEF NoReentry
<1>4. /\ Top.id \in Ids /\ Top.id \in validating
      /\ verdicts \in [Ids -> {"unknown", "valid", "invalid"}]
  <2>1. Len(stack) \in 2 .. Len(stack)
    BY <1>1
  <2> QED
    BY <1>1, <1>2, <2>1 DEF Frame, CacheInv, TypeInv, TypeOK
<1>5. /\ \A id \in Ids : verdicts[id] = "valid" <=> id \in JudgedValid
      /\ \A j, k \in DOMAIN judged_valid : judged_valid[j] = judged_valid[k] => j = k
      /\ \A id \in validating : verdicts[id] = "unknown"
      /\ validating \subseteq Ids
  BY <1>1 DEF CacheInv, CachesAgree, TypeInv, TypeOK
<1>6. /\ DOMAIN judged_valid = 1 .. Len(judged_valid)
      /\ DOMAIN judged_valid' = 1 .. Len(judged_valid')
      /\ Len(judged_valid) \in Nat /\ Top.mark \in Nat /\ Top.mark <= Len(judged_valid)
  BY LeaveLog, LenProperties DEF CacheInv, TypeInv, TypeOK
<1>7. CachesAgree'
  <2>1. CASE LeaveValid
    <3>1. /\ Len(judged_valid') = Len(judged_valid) + 1
          /\ judged_valid'[Len(judged_valid) + 1] = Top.id
          /\ \A k \in 1 .. Len(judged_valid) : judged_valid'[k] = judged_valid[k]
      BY <2>1, LeaveLog DEF CacheInv
    <3>2. \A id \in Ids : verdicts'[id] = IF id = Top.id THEN "valid" ELSE verdicts[id]
      BY <1>4, <2>1 DEF LeaveValid
    <3>3. \A k \in DOMAIN judged_valid' : k = Len(judged_valid) + 1 \/ k \in DOMAIN judged_valid
      BY <1>6, <3>1
    <3>4. /\ Len(judged_valid) + 1 \in DOMAIN judged_valid'
          /\ \A k \in DOMAIN judged_valid : k \in DOMAIN judged_valid'
      BY <1>6, <3>1
    <3>5. Top.id \notin JudgedValid
      BY <1>4, <1>5
    <3>6. \A id : id \in JudgedValid' <=> id = Top.id \/ id \in JudgedValid
      BY <1>6, <3>1, <3>3, <3>4 DEF JudgedValid
    <3>7. \A j, k \in DOMAIN judged_valid' : judged_valid'[j] = judged_valid'[k] => j = k
      BY <1>5, <1>6, <3>1, <3>3, <3>5 DEF JudgedValid
    <3>8. \A id \in validating' : verdicts'[id] = "unknown"
      BY <1>1, <1>5, <3>2
    <3> QED
      BY <1>5, <3>2, <3>6, <3>7, <3>8 DEF CachesAgree
  <2>2. CASE LeaveInvalid
    <3>1. /\ Len(judged_valid') = Top.mark
          /\ \A k \in 1 .. Top.mark : judged_valid'[k] = judged_valid[k]
      BY <2>2, LeaveLog DEF CacheInv
    <3>2. \A id \in Ids : verdicts'[id] = IF id = Top.id THEN "invalid"
                                          ELSE IF id \in Withdrawn(Top.mark) THEN "unknown"
                                          ELSE verdicts[id]
      BY <2>2 DEF LeaveInvalid
    <3>3. /\ \A k \in DOMAIN judged_valid : k \in DOMAIN judged_valid' \/ k \in Top.mark + 1 .. Len(judged_valid)
          /\ \A k \in DOMAIN judged_valid' : k \in DOMAIN judged_valid /\ k \in 1 .. Top.mark
          /\ \A k \in Top.mark + 1 .. Len(judged_valid) : k \in DOMAIN judged_valid
          /\ \A k \in Top.mark + 1 .. Len(judged_valid) : k \notin DOMAIN judged_valid'
      BY <1>6, <3>1
    <3>4. \A id : id \in JudgedValid' <=> id \in JudgedValid /\ id \notin Withdrawn(Top.mark)
      BY <1>5, <3>1, <3>3 DEF JudgedValid, Withdrawn
    <3>5. Top.id \notin JudgedValid
      BY <1>4, <1>5
    <3>6. \A id \in Ids : verdicts'[id] = "valid" <=> id \in JudgedValid'
      BY <1>5, <3>2, <3>4, <3>5
    <3>7. \A j, k \in DOMAIN judged_valid' : judged_valid'[j] = judged_valid'[k] => j = k
      BY <1>5, <3>1, <3>3
    <3>8. \A id \in validating' : verdicts'[id] = "unknown"
      BY <1>1, <1>5, <3>2
    <3> QED
      BY <3>6, <3>7, <3>8 DEF CachesAgree
  <2> QED
    BY <2>1, <2>2
<1>8. CachesUnused'
  <2>1. request.mode = "any-valid"
    BY <1>4, <1>1 DEF CacheInv, CachesUnused
  <2> QED
    BY <1>1, <2>1 DEF CachesUnused
<1> QED
  BY <1>3, <1>7, <1>8, LeaveTyped DEF CacheInv

(* The other steps of a call decide nothing and judge nothing new. *)
LEMMA ChecksKeepCaches ==
    ASSUME CacheInv,
           \/ CheckInstance \/ CheckPayloadType \/ CheckHead
           \/ OperandMet \/ OperandMissed \/ OperandUnmet
           \/ CheckBody \/ Collect \/ CheckTraits \/ VisitRelated \/ SchemaDone
           \/ CheckPayload
    PROVE  CacheInv'
<1>1. Running /\ UNCHANGED <<caller, caches>> /\ TypeInv'
  BY ChecksTyped
     DEF CheckInstance, CheckPayloadType, CheckHead, OperandMet, OperandMissed, OperandUnmet,
         CheckBody, Collect, CheckTraits, VisitRelated, SchemaDone, CheckPayload, At, Go,
         Continue, CacheInv
<1>2. PICK f : stack' = [stack EXCEPT ![Len(stack)] = f] /\ f.id = Top.id
  <2> DEFINE Moved == \E f : Continue(f) /\ f.id = Top.id
  <2>1. Top \in Frame
    BY <1>1, TopFrame DEF CacheInv
  <2>0. ASSUME NEW f, f.id = Top.id PROVE Continue(f) => Moved
    BY <2>0, Zenon
  <2> HIDE DEF Moved
  <2>2. ASSUME NEW stage PROVE Go(stage) => Moved
    <3>1. [Top EXCEPT !.at = stage].id = Top.id
      BY <2>1 DEF Frame
    <3> QED
      BY <2>0, <3>1 DEF Go
  <2>3. ASSUME NEW t PROVE Continue(Visiting(Top, t)) => Moved
    <3>1. Visiting(Top, t).id = Top.id
      BY <2>1 DEF Visiting, Frame
    <3> QED
      BY <2>0, <3>1
  <2>4. ASSUME NEW ops PROVE Continue(Facing(Top, ops)) => Moved
    <3>1. Facing(Top, ops).id = Top.id
      BY <2>1 DEF Facing, Frame
    <3> QED
      BY <2>0, <3>1
  <2>5. ASSUME NEW stage, NEW values PROVE Continue(Collecting(Top, stage, values)) => Moved
    <3>1. Collecting(Top, stage, values).id = Top.id
      BY <2>1 DEF Collecting, Frame
    <3> QED
      BY <2>0, <3>1
  <2>6. ASSUME NEW r
        PROVE  /\ Continue(Settled(Top, r)) => Moved
               /\ Continue([Settled(Top, r) EXCEPT !.unsat = @ \cup {r}]) => Moved
    <3>1. /\ Settled(Top, r).id = Top.id
          /\ [Settled(Top, r) EXCEPT !.unsat = @ \cup {r}].id = Top.id
      BY <2>1 DEF Settled, Frame
    <3> QED
      BY <2>0, <3>1
  <2>7. ASSUME NEW todo PROVE Continue([Top EXCEPT !.at = "related", !.todo = todo]) => Moved
    <3>1. [Top EXCEPT !.at = "related", !.todo = todo].id = Top.id
      BY <2>1 DEF Frame
    <3> QED
      BY <2>0, <3>1
  <2>8. Moved => \E f : stack' = [stack EXCEPT ![Len(stack)] = f] /\ f.id = Top.id
    BY DEF Continue, Moved
  <2>9. CASE CheckInstance \/ OperandUnmet \/ CheckPayloadType \/ CheckBody
    BY <2>2, <2>3, <2>5, <2>8, <2>9 DEF CheckInstance, OperandUnmet, CheckPayloadType, CheckBody
  <2>10. CASE CheckHead \/ OperandMet \/ OperandMissed
    BY <2>2, <2>4, <2>6, <2>8, <2>10 DEF CheckHead, OperandMet, OperandMissed
  <2>11. CASE Collect
    BY <2>6, <2>8, <2>11 DEF Collect
  <2>12. CASE CheckTraits
    <3>1. \/ Go("reject")
          \/ Continue([Top EXCEPT !.at = "related",
                                  !.todo = @ \cup (RelatedTypes(by_id, Top.cur) \ Top.seen)])
      BY <2>12 DEF CheckTraits
    <3>2. Continue([Top EXCEPT !.at = "related",
                               !.todo = Top.todo \cup (RelatedTypes(by_id, Top.cur) \ Top.seen)])
             => Moved
      BY <2>7
    <3> QED
      BY <2>2, <2>8, <3>1, <3>2
  <2>13. CASE VisitRelated \/ SchemaDone \/ CheckPayload
    BY <2>2, <2>3, <2>5, <2>8, <2>13 DEF VisitRelated, SchemaDone, CheckPayload
  <2> QED
    BY <2>9, <2>10, <2>11, <2>12, <2>13
<1>3. /\ Len(stack') = Len(stack) /\ Len(stack) \in Nat
      /\ \A k \in 2 .. Len(stack) : stack'[k].id = stack[k].id
  <2>1. stack \in Seq(Frame) /\ Len(stack) \in Nat \ {0} /\ DOMAIN stack = 1 .. Len(stack)
    BY <1>1, TopFrame DEF CacheInv, TypeInv, TypeOK
  <2>2. DOMAIN stack' = DOMAIN stack
    BY <1>2
  <2>3. Len(stack') = Len(stack)
    <3>1. stack' \in Seq(Frame)
      BY <1>1 DEF TypeInv, TypeOK
    <3>2. DOMAIN stack' = 1 .. Len(stack') /\ Len(stack') \in Nat
      BY <3>1, LenProperties
    <3> QED
      BY <2>1, <2>2, <3>2
  <2>4. ASSUME NEW k \in 2 .. Len(stack) PROVE stack'[k].id = stack[k].id
    <3>1. k \in DOMAIN stack
      BY <2>1
    <3>2. stack'[k] = IF k = Len(stack) THEN stack'[Len(stack)] ELSE stack[k]
      BY <1>2, <3>1
    <3>3. stack'[Len(stack)].id = Top.id
      BY <1>2, <2>1
    <3> QED
      BY <3>2, <3>3 DEF Top
  <2> QED
    BY <2>1, <2>3, <2>4
<1>4. NoReentry'
  BY <1>1, <1>3 DEF CacheInv, NoReentry, caller, caches, Running
<1>5. CachesAgree' /\ CachesUnused'
  BY <1>1, <1>3 DEF CacheInv, CachesAgree, CachesUnused, JudgedValid, caller, caches, Running
<1> QED
  BY <1>1, <1>4, <1>5 DEF CacheInv

LEMMA NextCaches ==
    ASSUME CacheInv, [Next]_vars
    PROVE  CacheInv'
<1>1. TypeInv'
  BY NextTyped DEF CacheInv
<1>2. CASE UNCHANGED vars
  BY <1>1, <1>2 DEF CacheInv, NoReentry, CachesAgree, CachesUnused, JudgedValid, Running, vars
<1>3. ASSUME NEW req \in Requests, Begin(req) PROVE CacheInv'
  <2>1. /\ Len(stack') = 1 /\ judged_valid' = <<>> /\ validating' = {}
        /\ \A id \in Ids : verdicts'[id] = "unknown"
    BY <1>3 DEF Begin
  <2>2. NoReentry'
    <3>1. 2 .. Len(stack') = {}
      BY <2>1
    <3> QED
      BY <2>1, <3>1 DEF NoReentry
  <2>3. CachesAgree' /\ CachesUnused'
    BY <2>1 DEF CachesAgree, CachesUnused, JudgedValid
  <2> QED
    BY <1>1, <2>2, <2>3 DEF CacheInv
<1>4. CASE Answer \/ Panic \/ Change
  <2>1. ~Running'
    BY <1>4 DEF Answer, Panic, Change, Running
  <2> QED
    BY <1>1, <2>1 DEF CacheInv, NoReentry, CachesAgree, CachesUnused
<1> QED
  BY <1>2, <1>3, <1>4, JudgeCaches, LeaveCaches, ChecksKeepCaches DEF Next, Step, Rest

LEMMA InitCaches ==
    ASSUME Init
    PROVE  CacheInv
<1>1. ~Running
  BY DEF Init, Running
<1> QED
  BY <1>1, InitTyped DEF CacheInv, NoReentry, CachesAgree, CachesUnused

(***************************************************************************)
(* Whatever documents refer to, negated or not, the log of valid verdicts  *)
(* and the map of verdicts agree at every step of every validation, and    *)
(* what is being judged has no verdict: rejecting an entity withdraws the  *)
(* verdicts reached since its judgement began and no other (CachesAgree).  *)
(***************************************************************************)
THEOREM CachesConsistent == Spec => []CachesAgree
<1>1. Init => CacheInv
  BY InitCaches
<1>2. CacheInv /\ [Next]_vars => CacheInv'
  BY NextCaches
<1>3. CacheInv => CachesAgree
  BY DEF CacheInv
<1> QED
  BY <1>1, <1>2, <1>3, PTL DEF Spec

(* No entity is judged inside its own judgement, on any cyclic registry:   *)
(* entity_is_valid recurses no deeper than there are entities (NoReentry). *)
THEOREM NeverReentered == Spec => []NoReentry
<1>1. Init => CacheInv
  BY InitCaches
<1>2. CacheInv /\ [Next]_vars => CacheInv'
  BY NextCaches
<1>3. CacheInv => NoReentry
  BY DEF CacheInv
<1> QED
  BY <1>1, <1>2, <1>3, PTL DEF Spec
=============================================================================
