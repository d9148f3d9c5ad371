-------------------------- MODULE GtsSearchProofs --------------------------
(***************************************************************************)
(* The depth-first search of the validator answers what the definition of  *)
(* validity prescribes, for registries in which no document negates an     *)
(* entity reference.                                                       *)
(*                                                                         *)
(* The argument: every frame rests only on the log of valid verdicts and   *)
(* the entities assumed valid below it (Earned), and rules out only what   *)
(* is not valid (Refuted); the log supports itself (LogSupported).  So the *)
(* log is part of the greatest self-supporting set when the search ends.   *)
(***************************************************************************)
EXTENDS GtsValidationProofs

(* No document negates an entity reference. *)
PositiveDocuments ==
    /\ \A R \in Registries : PositiveRegistry(R)
    /\ \A req \in Requests : req.op = "payload" => PositiveDocument(req.doc)

Justified ==
    Running => /\ StackShape
               /\ CachesFaithful
               /\ LogSupported
               /\ FramesJustified

(* SearchInv, with what stays constant. *)
AnswerInv ==
    /\ PositiveDocuments
    /\ TypeInv
    /\ Justified
    /\ AnswerCorrect

---------------------------------------------------------------------------
(* What trusting more does to a frame.                                     *)

LEMMA ClaimedMonotone ==
    ASSUME NEW R, PositiveRegistry(R), NEW req, NEW f,
           f.op \in {"schema", "instance", "payload"},
           f.op = "payload" => PositiveDocument(req.doc),
           NEW X, NEW Y, X \subseteq Y, Claimed(R, req, f, X)
    PROVE  Claimed(R, req, f, Y)
<1>1. CASE f.op = "schema"
  BY <1>1, SchemaSoundMonotone DEF Claimed
<1>2. CASE f.op # "schema"
  <2>1. PositiveDocument(PayloadDoc(R, req, f))
    BY <1>2 DEF Claimed, InstanceStored, PayloadDoc, PositiveRegistry,
                PositiveDocument, IsRegistry
  <2>2. TypeBacked(R, req, PayloadType(R, f), Y)
    BY <1>2, SchemaSoundMonotone DEF Claimed, TypeBacked
  <2>3. PayloadConforms(R, PayloadType(R, f), PayloadDoc(R, req, f), Y)
    BY <1>2, <2>1, PayloadConformsMonotone DEF Claimed
  <2> QED
    BY <1>2, <2>2, <2>3 DEF Claimed
<1> QED
  BY <1>1, <1>2

LEMMA EarnedMonotone ==
    ASSUME NEW R, PositiveRegistry(R), NEW req, NEW f \in Frame,
           f.op = "payload" => PositiveDocument(req.doc),
           NEW X, NEW Y, X \subseteq Y, Earned(R, req, f, X)
    PROVE  Earned(R, req, f, Y)
<1>1. Exploring(f) => \A u \in Examined(f) :
          LocallySound(R, u, Y) /\ RelatedTypes(R, u) \subseteq f.seen \cup f.todo
  BY LocallySoundMonotone DEF Earned
<1>2. f.at = "operands" =>
          \A k \in DOMAIN R[f.cur].operands :
              \/ R[f.cur].operands[k] \cap Y # {}
              \/ \E j \in DOMAIN f.operands : f.operands[j] = R[f.cur].operands[k]
  BY DEF Earned
<1>3. f.at \in {"body", "values"} => OperandsOK(R, f.cur, Y)
  BY DEF Earned, OperandsOK
<1>4. f.at = "values" =>
          BodyOK(R, f.cur) /\ R[f.cur].candidates \ (f.asks \cup f.unsat) \subseteq Y
  BY DEF Earned
<1>5. f.at = "payload" =>
          /\ TypeBacked(R, req, PayloadType(R, f), Y)
          /\ PayloadDoc(R, req, f).candidates \ (f.asks \cup f.unsat) \subseteq Y
  BY SchemaSoundMonotone DEF Earned, TypeBacked
<1>6. f.at = "accept" => Claimed(R, req, f, Y)
  BY ClaimedMonotone DEF Earned, Frame
<1> QED
  BY <1>1, <1>2, <1>3, <1>4, <1>5, <1>6 DEF Earned

(* A log that claims itself supports itself: trusting a type on the stack  *)
(* is as good as having validated it.                                      *)
LEMMA ClaimsSupport ==
    ASSUME NEW R, NEW req, NEW X \in SUBSET Ids,
           \A id \in X : Claimed(R, req, Opened(OpOf(id), id, 0), X)
    PROVE  SelfSupporting(R, X)
<1> SUFFICES ASSUME NEW id \in X
             PROVE  Sound(R, id, X)
  BY DEF SelfSupporting
<1>1. \A t \in TypeIds \cap X : SchemaSound(R, t, X)
  BY DEF Claimed, Opened, OpOf
<1>2. CASE id \in TypeIds
  BY <1>1, <1>2 DEF Sound
<1>3. CASE id \notin TypeIds
  <2>1. /\ InstanceStored(R, id)
        /\ TypeBacked(R, req, R[id].type, X)
        /\ PayloadConforms(R, R[id].type, R[id], X)
    BY <1>3 DEF Claimed, Opened, OpOf, PayloadType, PayloadDoc
  <2>2. SchemaSound(R, R[id].type, X)
    BY <1>1, <2>1 DEF TypeBacked
  <2> QED
    BY <1>3, <2>1, <2>2 DEF Sound, InstanceSound, PayloadSound, InstanceStored
<1> QED
  BY <1>2, <1>3

---------------------------------------------------------------------------
(* What the running frame may rely on and rule out.                        *)

Trusting == Trust(Len(stack))
Truth == Trusted(by_id, request.mode)

LEMMA TopJustified ==
    ASSUME AnswerInv, Running
    PROVE  /\ PositiveRegistry(by_id)
           /\ Top.op = "payload" => PositiveDocument(request.doc)
           /\ request.mode \in Modes
           /\ Earned(by_id, request, Top, Trusting)
           /\ Refuted(by_id, request, Top, Truth)
<1>1. PositiveRegistry(by_id)
  BY DEF AnswerInv, TypeInv, PositiveDocuments
<1>2. request \in Requests /\ request \in Request
  BY CallAssumption DEF AnswerInv, TypeInv, TypeOK
<1>3. request.mode \in Modes
  BY <1>2 DEF Request
<1>4. Len(stack) \in DOMAIN stack /\ FrameShape(by_id, request, Top)
  BY TopFrame DEF AnswerInv
<1>5. Top.op = "payload" => PositiveDocument(request.doc)
  BY <1>2, <1>4 DEF AnswerInv, PositiveDocuments, FrameShape
<1>6. /\ Earned(by_id, request, Top, Trusting)
      /\ Refuted(by_id, request, Top, Truth)
  BY <1>4 DEF AnswerInv, Justified, FramesJustified, Top, Trusting, Truth
<1> QED
  BY <1>1, <1>3, <1>5, <1>6

LEMMA TrustingIs ==
    ASSUME AnswerInv, Running
    PROVE  Trusting = IF request.mode = "any-valid"
                      THEN JudgedValid \cup {stack[k].id : k \in 2 .. Len(stack)}
                      ELSE Truth
<1>1. DOMAIN judged_valid = 1 .. Len(judged_valid)
  BY LenProperties DEF AnswerInv, TypeInv, TypeOK
<1> QED
  BY <1>1 DEF Trusting, Truth, Trust, Limit, JudgedValid

(* A reference found satisfied is one the frame may rely on... *)
LEMMA SatisfiedTrusted ==
    ASSUME AnswerInv, Running, NEW r \in Ids, Satisfied(r)
    PROVE  r \in Trusting
<1>1. request.mode \in Modes
  BY TopJustified
<1>2. CASE request.mode = "any-valid"
  <2>1. verdicts[r] = "valid" \/ r \in validating
    BY <1>2 DEF Satisfied
  <2>2. r \in JudgedValid \/ r \in {stack[k].id : k \in 2 .. Len(stack)}
    BY <2>1 DEF AnswerInv, Justified, CachesFaithful
  <2> QED
    BY <1>2, <2>2, TrustingIs
<1>3. CASE request.mode = "none"
  BY <1>3, TrustingIs DEF Truth, Trusted
<1>4. CASE request.mode = "any-present"
  BY <1>4, TrustingIs DEF Truth, Trusted, Satisfied
<1> QED
  BY <1>1, <1>2, <1>3, <1>4 DEF Modes

(* ... and one found unsatisfied is ruled out. *)
LEMMA UnsatisfiedUntrue ==
    ASSUME AnswerInv, Running, NEW r \in Ids, Unsatisfied(r)
    PROVE  r \notin Truth
<1>1. request.mode \in Modes \ {"none"}
  BY TopJustified DEF Unsatisfied
<1>2. CASE r \notin DOMAIN by_id
  BY <1>1, <1>2, ValidRegistered DEF Truth, Trusted, Modes
<1>3. CASE request.mode = "any-valid" /\ verdicts[r] = "invalid"
  BY <1>3 DEF Truth, Trusted, AnswerInv, Justified, CachesFaithful
<1> QED
  BY <1>2, <1>3 DEF Unsatisfied

(* Only any-valid looks into entities. *)
LEMMA UndecidedMode ==
    ASSUME AnswerInv, Running, NEW r \in Ids, Undecided(r)
    PROVE  /\ request.mode = "any-valid"
           /\ r \in DOMAIN by_id
           /\ verdicts[r] = "unknown"
           /\ r \notin validating
<1>1. request.mode \in Modes /\ verdicts[r] \in {"unknown", "valid", "invalid"}
  BY TopJustified DEF AnswerInv, TypeInv, TypeOK
<1> QED
  BY <1>1 DEF Undecided, Satisfied, Unsatisfied, Modes

(* The running frame moves on; every other frame rests on what it did. *)
LEMMA ContinueJustified ==
    ASSUME AnswerInv, Running, TypeInv', NEW f, Resumes(f, Top), Continue(f),
           Earned(by_id, request, f, Trusting), Refuted(by_id, request, f, Truth)
    PROVE  AnswerInv'
<1>1. /\ stack \in Seq(Frame) /\ Len(stack) \in Nat /\ Len(stack) \in 1 .. Len(stack)
      /\ DOMAIN stack = 1 .. Len(stack)
  BY TopFrame DEF AnswerInv, TypeInv, TypeOK
<1>2. stack' = [stack EXCEPT ![Len(stack)] = f]
  BY DEF Continue
<1>3. /\ UNCHANGED <<by_id, request, outcome, calls>>
      /\ UNCHANGED <<validating, verdicts, judged_valid>>
  BY DEF Continue, caller, caches
<1>4. /\ Len(stack') = Len(stack) /\ DOMAIN stack' = 1 .. Len(stack)
      /\ \A j \in 1 .. Len(stack) : stack'[j] = IF j = Len(stack) THEN f ELSE stack[j]
  BY <1>1, <1>2, ExceptSeq, LenProperties DEF Resumes
<1>5. \A j \in 1 .. Len(stack) : /\ stack'[j].op = stack[j].op
                                /\ stack'[j].id = stack[j].id
                                /\ stack'[j].mark = stack[j].mark
  BY <1>4 DEF Resumes, Top
<1>6. \A k \in 1 .. Len(stack) : Limit(k)' = Limit(k)
  <2> SUFFICES ASSUME NEW k \in 1 .. Len(stack)
               PROVE  Limit(k)' = Limit(k)
    OBVIOUS
  <2>1. CASE k = Len(stack)
    BY <1>3, <1>4, <2>1 DEF Limit
  <2>2. CASE k # Len(stack)
    <3>1. k + 1 \in 1 .. Len(stack)
      <4>1. Len(stack) \in Nat
        BY <1>1
      <4> QED
        BY <2>2, <4>1
    <3>2. stack'[k + 1].mark = stack[k + 1].mark
      BY <1>5, <3>1
    <3> QED
      BY <1>4, <2>2, <3>2 DEF Limit
  <2> QED
    BY <2>1, <2>2
<1>7. \A k \in 1 .. Len(stack) :
         {stack'[j].id : j \in 2 .. k} = {stack[j].id : j \in 2 .. k}
  <2> SUFFICES ASSUME NEW k \in 1 .. Len(stack)
               PROVE  \A j \in 2 .. k : stack'[j].id = stack[j].id
    OBVIOUS
  <2> QED
    BY <1>1, <1>5
<1>8. \A k \in 1 .. Len(stack) : Trust(k)' = Trust(k)
  BY <1>3, <1>6, <1>7 DEF Trust
<1>9. StackShape /\ CachesFaithful /\ LogSupported /\ FramesJustified
  BY DEF AnswerInv, Justified
<1>10. StackShape'
  <2>1. /\ stack'[1].op = stack[1].op /\ stack'[1].id = stack[1].id
        /\ \A k \in 2 .. Len(stack) : stack'[k].op = stack[k].op /\ stack'[k].id = stack[k].id
    BY <1>1, <1>5
  <2> QED
    BY <1>3, <1>4, <1>9, <2>1 DEF StackShape
<1>11. CachesFaithful'
  <2>1. JudgedValid' = JudgedValid
    BY <1>3 DEF JudgedValid
  <2>2. {stack'[k].id : k \in 2 .. Len(stack')} = {stack[k].id : k \in 2 .. Len(stack)}
    BY <1>1, <1>4, <1>7
  <2> QED
    BY <1>3, <1>9, <2>1, <2>2 DEF CachesFaithful
<1>12. LogSupported'
  <2> SUFFICES ASSUME NEW k \in 1 .. Len(stack), NEW j \in 1 .. Limit(k)
               PROVE  Claimed(by_id, request,
                              Opened(OpOf(judged_valid[j]), judged_valid[j], 0), Trust(k))
    BY <1>3, <1>4, <1>6, <1>8 DEF LogSupported
  <2> QED
    BY <1>1, <1>9 DEF LogSupported
<1>13. FramesJustified'
  <2> SUFFICES ASSUME NEW k \in 1 .. Len(stack)
               PROVE  /\ Earned(by_id, request, stack'[k], Trust(k))
                      /\ Refuted(by_id, request, stack'[k], Truth)
    BY <1>3, <1>4, <1>8 DEF FramesJustified, Truth
  <2> QED
    BY <1>1, <1>4, <1>9 DEF FramesJustified, Trusting, Truth
<1> QED
  BY <1>3, <1>10, <1>11, <1>12, <1>13 DEF AnswerInv, Justified, AnswerCorrect, Running, PositiveDocuments

---------------------------------------------------------------------------
(* One check at a time.                                                    *)

(* A type that fails locally fails everything that builds on it. *)
LEMMA TypeRejected ==
    ASSUME AnswerInv, Running, InType(Top), ~LocallySound(by_id, Top.cur, Truth)
    PROVE  Denied(by_id, request, Top, Truth)
<1>1. Top \in Frame /\ FrameShape(by_id, request, Top)
  BY TopFrame DEF AnswerInv
<1>2. Top.cur \in Top.seen
  BY <1>1 DEF FrameShape
<1>3. ~SchemaSound(by_id, RootType(by_id, Top), Truth)
  <2> SUFFICES ASSUME NEW C \in SUBSET TypeIds,
                      RootType(by_id, Top) \in C,
                      \A u \in C : /\ LocallySound(by_id, u, Truth)
                                  /\ RelatedTypes(by_id, u) \subseteq C
               PROVE  FALSE
    BY DEF SchemaSound
  <2>1. Top.cur \in C
    BY <1>2, TopJustified DEF Refuted, Exploring
  <2> QED
    BY <2>1
<1>4. CASE Top.op = "schema"
  BY <1>3, <1>4 DEF Denied, RootType
<1>5. CASE Top.op = "instance"
  BY <1>3, <1>5 DEF Denied, RootType, PayloadType, InstanceSound, PayloadSound
<1>6. CASE Top.op = "payload"
  BY <1>3, <1>6 DEF Denied, RootType, PayloadType, PayloadSound
<1> QED
  BY <1>1, <1>4, <1>5, <1>6 DEF Frame

LEMMA RejectJustified ==
    ASSUME AnswerInv, Running, TypeInv', Go("reject"), Denied(by_id, request, Top, Truth)
    PROVE  AnswerInv'
<1> DEFINE f == [Top EXCEPT !.at = "reject"]
<1>1. Top \in Frame /\ FrameShape(by_id, request, Top)
  BY TopFrame DEF AnswerInv
<1>2. Resumes(f, Top)
  BY <1>1, EndedFrame DEF AnswerInv
<1>3. f.at = "reject" /\ f.op = Top.op /\ f.id = Top.id /\ f.unsat = Top.unsat
  BY <1>1 DEF Frame
<1>4. Continue(f)
  BY DEF Go
<1> HIDE DEF f
<1>5. Earned(by_id, request, f, Trusting)
  BY <1>3 DEF Earned, Exploring, InType
<1>6. Refuted(by_id, request, f, Truth)
  BY <1>3, TopJustified DEF Refuted, Exploring, InType, Denied
<1> QED
  BY <1>2, <1>4, <1>5, <1>6, ContinueJustified

LEMMA AcceptJustified ==
    ASSUME AnswerInv, Running, TypeInv', Top.at \notin {"instance", "reject"},
           Go("accept"), Claimed(by_id, request, Top, Trusting)
    PROVE  AnswerInv'
<1> DEFINE f == [Top EXCEPT !.at = "accept"]
<1>1. Top \in Frame /\ FrameShape(by_id, request, Top)
  BY TopFrame DEF AnswerInv
<1>2. Resumes(f, Top)
  BY <1>1, EndedFrame DEF AnswerInv
<1>3. f.at = "accept" /\ f.op = Top.op /\ f.id = Top.id /\ f.unsat = Top.unsat
  BY <1>1 DEF Frame
<1>4. Continue(f)
  BY DEF Go
<1> HIDE DEF f
<1>5. Earned(by_id, request, f, Trusting)
  BY <1>3 DEF Earned, Exploring, InType, Claimed, PayloadType, PayloadDoc
<1>6. Refuted(by_id, request, f, Truth)
  BY <1>3, TopJustified DEF Refuted, Exploring, InType
<1> QED
  BY <1>2, <1>4, <1>5, <1>6, ContinueJustified

LEMMA CheckInstanceJustified ==
    ASSUME AnswerInv, CheckInstance
    PROVE  AnswerInv'
<1>1. Running /\ Top.at = "instance"
  BY DEF CheckInstance, At
<1>2. Top \in Frame /\ FrameShape(by_id, request, Top) /\ Top.op = "instance"
  BY <1>1, TopFrame DEF AnswerInv, FrameShape
<1>3. TypeInv'
  BY ChecksTyped DEF AnswerInv
<1>4. CASE InstanceStored(by_id, Top.id) /\ Go("type")
  <2> DEFINE f == [Top EXCEPT !.at = "type"]
  <2>1. f \in Frame /\ f.at = "type" /\ f.op = Top.op /\ f.id = Top.id /\ f.unsat = Top.unsat
        /\ f.seen = Top.seen /\ f.todo = Top.todo /\ f.asks = Top.asks
        /\ f.asking = Top.asking /\ f.mark = Top.mark
    BY <1>2 DEF Frame
  <2>2. Continue(f)
    BY <1>4 DEF Go
  <2> HIDE DEF f
  <2>3. Resumes(f, Top)
    BY <1>1, <1>2, <1>4, <2>1 DEF Resumes, FrameShape, InType, InstanceStored
  <2>4. Earned(by_id, request, f, Trusting)
    BY <2>1 DEF Earned, Exploring, InType
  <2>5. Refuted(by_id, request, f, Truth)
    BY <1>1, <2>1, TopJustified DEF Refuted, Exploring, InType
  <2> QED
    BY <1>1, <1>3, <2>2, <2>3, <2>4, <2>5, ContinueJustified
<1>5. CASE ~InstanceStored(by_id, Top.id) /\ Go("reject")
  BY <1>1, <1>2, <1>3, <1>5, RejectJustified DEF Denied, InstanceSound, InstanceStored
<1> QED
  BY <1>4, <1>5 DEF CheckInstance, InstanceStored

(* Going on to a type the judgement builds on. *)
LEMMA VisitJustified ==
    ASSUME AnswerInv, Running, TypeInv', NEW t \in Ids, Continue(Visiting(Top, t)),
           \/ Top.at = "type" /\ t = PayloadType(by_id, Top)
           \/ Top.at = "related" /\ t \in Top.todo
    PROVE  AnswerInv'
<1> DEFINE f == Visiting(Top, t)
<1>1. Top \in Frame /\ FrameShape(by_id, request, Top)
  BY TopFrame DEF AnswerInv
<1>2. Resumes(f, Top)
  BY <1>1, VisitingFrame DEF AnswerInv
<1>3. /\ f.at = "local" /\ f.cur = t /\ f.seen = Top.seen \cup {t} /\ f.todo = Top.todo \ {t}
      /\ f.op = Top.op /\ f.id = Top.id /\ f.unsat = Top.unsat
  BY <1>1 DEF Visiting, Frame
<1>4. RootType(by_id, f) = RootType(by_id, Top)
  BY <1>3 DEF RootType, PayloadType
<1>5. Continue(f)
  OBVIOUS
<1> HIDE DEF f
<1>6. Earned(by_id, request, Top, Trusting) /\ Refuted(by_id, request, Top, Truth)
  BY TopJustified
<1>7. CASE Top.at = "type" /\ t = PayloadType(by_id, Top)
  <2>1. Top.seen = {} /\ Top.todo = {} /\ t = RootType(by_id, Top)
    BY <1>1, <1>7 DEF FrameShape, RootType
  <2>2. Earned(by_id, request, f, Trusting)
    BY <1>3, <1>4, <2>1 DEF Earned, Exploring, InType, Examined
  <2>3. Refuted(by_id, request, f, Truth)
    BY <1>3, <1>4, <1>6, <2>1 DEF Refuted
  <2> QED
    BY <1>2, <1>5, <2>2, <2>3, ContinueJustified
<1>8. CASE Top.at = "related" /\ t \in Top.todo
  <2>1. Examined(f) \subseteq Examined(Top) /\ f.seen \cup f.todo = Top.seen \cup Top.todo
    BY <1>3, <1>8 DEF Examined, InType
  <2>2. Earned(by_id, request, f, Trusting)
    BY <1>3, <1>4, <1>6, <1>8, <2>1 DEF Earned, Exploring, InType
  <2>3. Refuted(by_id, request, f, Truth)
    BY <1>3, <1>4, <1>6, <1>8, <2>1 DEF Refuted, Exploring
  <2> QED
    BY <1>2, <1>5, <2>2, <2>3, ContinueJustified
<1> QED
  BY <1>7, <1>8

(* Going on to the payload, once its type is known to be sound. *)
LEMMA PayloadJustified ==
    ASSUME AnswerInv, Running, TypeInv', Top.op # "schema",
           Top.at \notin {"instance", "reject"},
           TypeBacked(by_id, request, PayloadType(by_id, Top), Trusting),
           Continue(Collecting(Top, "payload", PayloadDoc(by_id, request, Top).candidates))
    PROVE  AnswerInv'
<1> DEFINE doc == PayloadDoc(by_id, request, Top)
           f == Collecting(Top, "payload", doc.candidates)
<1>1. Top \in Frame /\ FrameShape(by_id, request, Top)
  BY TopFrame DEF AnswerInv
<1>2. doc.candidates \in SUBSET Ids
  BY <1>1, PayloadDocument DEF AnswerInv, IsDocument, Document
<1> HIDE DEF doc
<1>3. Resumes(f, Top)
  BY <1>1, <1>2, CollectingFrame DEF AnswerInv
<1>4. /\ f.at = "payload" /\ f.asks = doc.candidates /\ f.unsat = {}
      /\ f.op = Top.op /\ f.id = Top.id
  BY <1>1 DEF Collecting, Frame
<1>5. PayloadType(by_id, f) = PayloadType(by_id, Top) /\ PayloadDoc(by_id, request, f) = doc
  BY <1>4 DEF PayloadType, PayloadDoc, doc
<1>6. Continue(f)
  BY DEF doc
<1> HIDE DEF f
<1>7. Earned(by_id, request, f, Trusting)
  BY <1>4, <1>5 DEF Earned, Exploring, InType
<1>8. Refuted(by_id, request, f, Truth)
  BY <1>4 DEF Refuted, Exploring, InType
<1> QED
  BY <1>3, <1>6, <1>7, <1>8, ContinueJustified

LEMMA CheckPayloadTypeJustified ==
    ASSUME AnswerInv, CheckPayloadType
    PROVE  AnswerInv'
<1> DEFINE t == PayloadType(by_id, Top)
<1>1. Running /\ Top.at = "type"
  BY DEF CheckPayloadType, At
<1>2. Top \in Frame /\ FrameShape(by_id, request, Top) /\ Top.op # "schema"
  BY <1>1, TopFrame DEF AnswerInv, FrameShape
<1>3. TypeInv'
  BY ChecksTyped DEF AnswerInv
<1>4. CASE (~IsSchema(by_id, t) \/ by_id[t].is_abstract) /\ Go("reject")
  <2>1. \A doc : ~PayloadConforms(by_id, t, doc, Truth)
    BY <1>4 DEF PayloadConforms
  <2>2. Denied(by_id, request, Top, Truth)
    BY <1>2, <2>1 DEF Denied, PayloadType, InstanceSound, PayloadSound, Frame
  <2> QED
    BY <1>1, <1>3, <1>4, <2>2, RejectJustified
<1>5. CASE /\ t \in validating
           /\ Continue(Collecting(Top, "payload", PayloadDoc(by_id, request, Top).candidates))
           /\ IsSchema(by_id, t)
  <2>1. t \in {stack[k].id : k \in 2 .. Len(stack)} /\ t \in TypeIds
    BY <1>1, <1>5 DEF AnswerInv, Justified, CachesFaithful, IsSchema
  <2>2. Len(stack) > 1
    BY <1>1, <2>1, TopFrame DEF AnswerInv
  <2>3. request.mode = "any-valid"
    BY <1>1, <2>2 DEF AnswerInv, Justified, StackShape
  <2>4. TypeBacked(by_id, request, t, Trusting)
    BY <1>1, <2>1, <2>3, TrustingIs DEF TypeBacked
  <2> QED
    BY <1>1, <1>2, <1>3, <1>5, <2>4, PayloadJustified
<1>6. CASE Continue(Visiting(Top, t)) /\ IsSchema(by_id, t)
  <2>1. t \in Ids
    BY <1>6 DEF IsSchema, Ids
  <2> QED
    BY <1>1, <1>3, <1>6, <2>1, VisitJustified
<1> QED
  BY <1>4, <1>5, <1>6 DEF CheckPayloadType

LEMMA VisitRelatedJustified ==
    ASSUME AnswerInv, VisitRelated
    PROVE  AnswerInv'
<1>1. Running /\ Top.at = "related"
  BY DEF VisitRelated, At
<1>2. Top \in Frame
  BY <1>1, TopFrame DEF AnswerInv
<1>3. TypeInv'
  BY ChecksTyped DEF AnswerInv
<1> QED
  BY <1>1, <1>2, <1>3, VisitJustified DEF VisitRelated, Frame

LEMMA SchemaDoneJustified ==
    ASSUME AnswerInv, SchemaDone
    PROVE  AnswerInv'
<1>1. Running /\ Top.at = "related" /\ Top.todo = {}
  BY DEF SchemaDone, At
<1>2. TypeInv'
  BY ChecksTyped DEF AnswerInv
<1>3. SchemaSound(by_id, RootType(by_id, Top), Trusting)
  <2>1. /\ RootType(by_id, Top) \in Top.seen
        /\ \A u \in Top.seen : /\ LocallySound(by_id, u, Trusting)
                               /\ RelatedTypes(by_id, u) \subseteq Top.seen
    BY <1>1, TopJustified DEF Earned, Exploring, Examined, InType
  <2>2. Top.seen \in SUBSET TypeIds
    BY <2>1 DEF LocallySound, IsSchema
  <2> QED
    BY <2>1, <2>2 DEF SchemaSound
<1>4. CASE Top.op = "schema" /\ Go("accept")
  <2>1. Claimed(by_id, request, Top, Trusting)
    BY <1>3, <1>4 DEF Claimed, RootType
  <2> QED
    BY <1>1, <1>2, <1>4, <2>1, AcceptJustified
<1>5. CASE /\ Top.op # "schema"
           /\ Continue(Collecting(Top, "payload", PayloadDoc(by_id, request, Top).candidates))
  <2>1. TypeBacked(by_id, request, PayloadType(by_id, Top), Trusting)
    BY <1>3, <1>5 DEF TypeBacked, RootType
  <2> QED
    BY <1>1, <1>2, <1>5, <2>1, PayloadJustified
<1> QED
  BY <1>4, <1>5 DEF SchemaDone

---------------------------------------------------------------------------
(* The operands of a type.                                                 *)

(* The operands still to be met are operands of the type, and those of the *)
(* type not among them have been met by something the frame may rely on.   *)
LEMMA FacingJustified ==
    ASSUME AnswerInv, Running, TypeInv', InType(Top),
           IsSchema(by_id, Top.cur), HeadOK(by_id, Top.cur),
           NEW ops \in Seq(SUBSET Ids),
           request.mode = "none" => ops = <<>>,
           Continue(Facing(Top, ops)),
           \A j \in DOMAIN ops : \E k \in DOMAIN by_id[Top.cur].operands :
               ops[j] = by_id[Top.cur].operands[k],
           \A k \in DOMAIN by_id[Top.cur].operands :
               \/ by_id[Top.cur].operands[k] \cap Trusting # {}
               \/ \E j \in DOMAIN ops : ops[j] = by_id[Top.cur].operands[k]
    PROVE  AnswerInv'
<1> DEFINE f == Facing(Top, ops)
<1>1. Top \in Frame /\ FrameShape(by_id, request, Top)
  BY TopFrame DEF AnswerInv
<1>2. Resumes(f, Top)
  BY <1>1, FacingFrame DEF AnswerInv
<1>3. /\ f.at = IF ops = <<>> THEN "body" ELSE "operands"
      /\ f.operands = ops
      /\ f.asks = IF ops = <<>> THEN {} ELSE Head(ops) \cap DOMAIN by_id
      /\ f.cur = Top.cur /\ f.seen = Top.seen /\ f.todo = Top.todo
      /\ f.op = Top.op /\ f.id = Top.id /\ f.unsat = Top.unsat
  BY <1>1 DEF Facing, Frame
<1>4. RootType(by_id, f) = RootType(by_id, Top)
  BY <1>3 DEF RootType, PayloadType
<1>5. Continue(f)
  OBVIOUS
<1> HIDE DEF f
<1>6. Earned(by_id, request, Top, Trusting) /\ Refuted(by_id, request, Top, Truth)
  BY TopJustified
<1>7. InType(f) /\ Exploring(f) /\ Exploring(Top) /\ Examined(f) = Examined(Top)
  BY <1>3 DEF InType, Exploring, Examined
<1>8. CASE ops = <<>>
  <2>1. DOMAIN ops = {}
    BY <1>8
  <2>2. OperandsOK(by_id, Top.cur, Trusting)
    BY <2>1 DEF OperandsOK
  <2>3. Earned(by_id, request, f, Trusting)
    BY <1>3, <1>4, <1>6, <1>7, <1>8, <2>2 DEF Earned
  <2>4. Refuted(by_id, request, f, Truth)
    BY <1>3, <1>4, <1>6, <1>7, <1>8 DEF Refuted
  <2> QED
    BY <1>2, <1>5, <2>3, <2>4, ContinueJustified
<1>9. CASE ops # <<>>
  <2>1. Earned(by_id, request, f, Trusting)
    BY <1>3, <1>4, <1>6, <1>7, <1>9 DEF Earned
  <2>2. Truth \subseteq DOMAIN by_id
    BY <1>9, ValidRegistered DEF Truth, Trusted
  <2>3. Refuted(by_id, request, f, Truth)
    BY <1>3, <1>4, <1>6, <1>7, <1>9, <2>2 DEF Refuted
  <2> QED
    BY <1>2, <1>5, <2>1, <2>3, ContinueJustified
<1> QED
  BY <1>8, <1>9

LEMMA CheckHeadJustified ==
    ASSUME AnswerInv, CheckHead
    PROVE  AnswerInv'
<1>1. Running /\ InType(Top)
  BY DEF CheckHead, At, InType
<1>2. TypeInv'
  BY ChecksTyped DEF AnswerInv
<1>3. CASE ~(IsSchema(by_id, Top.cur) /\ HeadOK(by_id, Top.cur)) /\ Go("reject")
  <2>1. Denied(by_id, request, Top, Truth)
    BY <1>1, <1>3, TypeRejected DEF LocallySound
  <2> QED
    BY <1>1, <1>2, <1>3, <2>1, RejectJustified
<1> DEFINE ops == IF request.mode = "none" THEN <<>> ELSE by_id[Top.cur].operands
<1>4. CASE /\ IsSchema(by_id, Top.cur) /\ HeadOK(by_id, Top.cur)
           /\ Continue(Facing(Top, ops))
  <2>1. /\ by_id[Top.cur].operands \in Seq(SUBSET Ids)
        /\ \A k \in DOMAIN by_id[Top.cur].operands : /\ by_id[Top.cur].operands[k] # {}
                                                    /\ by_id[Top.cur].operands[k] \subseteq Ids
    <3>1. IsDocument(by_id[Top.cur])
      BY <1>4 DEF AnswerInv, TypeInv, TypeOK, IsRegistry, IsSchema
    <3>2. by_id[Top.cur].operands \in Seq(SUBSET Ids)
      BY <3>1 DEF IsDocument, Document
    <3>3. \A k \in DOMAIN by_id[Top.cur].operands : by_id[Top.cur].operands[k] \in SUBSET Ids
      BY <3>2, LenProperties, ElementOfSeq
    <3> QED
      BY <3>1, <3>2, <3>3 DEF IsDocument
  <2>2. ops \in Seq(SUBSET Ids)
    BY <2>1, EmptySeq
  <2>3. CASE request.mode = "none"
    <3>1. Trusting = Ids /\ ops = <<>> /\ DOMAIN ops = {}
      BY <1>1, <2>3, TrustingIs DEF Truth, Trusted
    <3>2. \A k \in DOMAIN by_id[Top.cur].operands : by_id[Top.cur].operands[k] \cap Trusting # {}
      BY <2>1, <3>1
    <3> HIDE DEF ops
    <3> QED
      BY <1>1, <1>2, <1>4, <2>2, <3>1, <3>2, FacingJustified
  <2>4. CASE request.mode # "none"
    <3>1. ops = by_id[Top.cur].operands
      BY <2>4
    <3> HIDE DEF ops
    <3> QED
      BY <1>1, <1>2, <1>4, <2>2, <2>4, <3>1, FacingJustified
  <2> QED
    BY <2>3, <2>4
<1> QED
  BY <1>3, <1>4 DEF CheckHead

(* A reference the running loop asks about is one it has not settled yet. *)
LEMMA AskedIs ==
    ASSUME AnswerInv, Running
    PROVE  /\ Asked(Top) \subseteq Top.asks
           /\ Asked(Top) \subseteq Ids
           /\ Asked(Top) = {} => Top.asks = {}
BY TopFrame, NoTypeIsNoId DEF AnswerInv, Asked, FrameShape, Frame

LEMMA OperandMetJustified ==
    ASSUME AnswerInv, OperandMet
    PROVE  AnswerInv'
<1>1. Running /\ Top.at = "operands" /\ InType(Top)
  BY DEF OperandMet, At, InType
<1>2. TypeInv'
  BY ChecksTyped DEF AnswerInv
<1>3. PICK r \in Asked(Top) : Satisfied(r) /\ Continue(Facing(Top, Tail(Top.operands)))
  BY DEF OperandMet
<1> DEFINE ops == Top.operands
           all == by_id[Top.cur].operands
<1>4. /\ Top \in Frame /\ IsSchema(by_id, Top.cur)
      /\ request.mode # "none" /\ ops # <<>> /\ ops \in Seq(SUBSET Ids)
  BY <1>1, TopFrame DEF AnswerInv, FrameShape, Frame
<1>5. /\ HeadOK(by_id, Top.cur)
      /\ Top.asks \subseteq Head(ops)
      /\ \A j \in DOMAIN ops : \E k \in DOMAIN all : ops[j] = all[k]
      /\ \A k \in DOMAIN all : \/ all[k] \cap Trusting # {}
                             \/ \E j \in DOMAIN ops : ops[j] = all[k]
  BY <1>1, TopJustified DEF Earned, Refuted
<1>6. r \in Head(ops) \cap Trusting
  BY <1>1, <1>3, <1>5, AskedIs, SatisfiedTrusted
<1>7. /\ Tail(ops) \in Seq(SUBSET Ids)
      /\ DOMAIN ops = 1 .. Len(ops) /\ DOMAIN Tail(ops) = 1 .. Len(ops) - 1
      /\ Len(ops) \in Nat \ {0} /\ ops[1] = Head(ops)
      /\ \A i \in 1 .. Len(ops) - 1 : Tail(ops)[i] = ops[i + 1]
  <2>1. Tail(ops) \in Seq(SUBSET Ids) /\ Len(Tail(ops)) = Len(ops) - 1
        /\ \A i \in 1 .. Len(Tail(ops)) : Tail(ops)[i] = ops[i + 1]
    BY <1>4, HeadTailProperties
  <2>2. Len(ops) \in Nat \ {0}
    BY <1>4, EmptySeq
  <2> QED
    BY <1>4, <2>1, <2>2, LenProperties
<1> HIDE DEF ops, all
<1>8. \A j \in DOMAIN Tail(ops) : \E k \in DOMAIN all : Tail(ops)[j] = all[k]
  BY <1>5, <1>7
<1>9. \A k \in DOMAIN all : \/ all[k] \cap Trusting # {}
                          \/ \E j \in DOMAIN Tail(ops) : Tail(ops)[j] = all[k]
  <2> SUFFICES ASSUME NEW k \in DOMAIN all, NEW j \in DOMAIN ops, ops[j] = all[k]
               PROVE  \/ all[k] \cap Trusting # {}
                      \/ \E i \in DOMAIN Tail(ops) : Tail(ops)[i] = all[k]
    BY <1>5
  <2>1. CASE j = 1
    BY <1>6, <1>7, <2>1
  <2>2. CASE j # 1
    <3>1. j - 1 \in 1 .. Len(ops) - 1 /\ (j - 1) + 1 = j
      BY <1>7, <2>2
    <3> QED
      BY <1>7, <3>1
  <2> QED
    BY <2>1, <2>2
<1> QED
  BY <1>1, <1>2, <1>3, <1>4, <1>5, <1>7, <1>8, <1>9, FacingJustified DEF ops, all

(* Settling a reference: it is trusted, or ruled out, or one match less.   *)
LEMMA SettledJustified ==
    ASSUME AnswerInv, Running, TypeInv', Top.at \in {"operands", "values", "payload"},
           NEW r, NEW unsat \in SUBSET Ids,
           NEW f, f = [Settled(Top, r) EXCEPT !.unsat = unsat],
           Resumes(f, Top), Continue(f),
           Top.unsat \subseteq unsat, unsat \cap Truth = {},
           Top.at = "operands" => r \notin Truth,
           r \in unsat \/ r \in Trusting \/ Top.at = "operands"
    PROVE  AnswerInv'
<1>1. Top \in Frame
  BY TopFrame DEF AnswerInv
<1>2. /\ f.at = Top.at /\ f.operands = Top.operands
      /\ f.asks = Top.asks \ {r} /\ f.unsat = unsat
      /\ f.cur = Top.cur /\ f.seen = Top.seen /\ f.todo = Top.todo
      /\ f.op = Top.op /\ f.id = Top.id
  BY <1>1 DEF Settled, Frame
<1>3. /\ RootType(by_id, f) = RootType(by_id, Top)
      /\ PayloadType(by_id, f) = PayloadType(by_id, Top)
      /\ PayloadDoc(by_id, request, f) = PayloadDoc(by_id, request, Top)
  BY <1>2 DEF RootType, PayloadType, PayloadDoc
<1>4. /\ InType(f) <=> InType(Top)
      /\ Exploring(f) <=> Exploring(Top)
      /\ Examined(f) = Examined(Top)
  BY <1>2 DEF InType, Exploring, Examined
<1>5. Earned(by_id, request, Top, Trusting) /\ Refuted(by_id, request, Top, Truth)
  BY TopJustified
<1>6. Earned(by_id, request, f, Trusting)
  BY <1>2, <1>3, <1>4, <1>5 DEF Earned
<1>7. Refuted(by_id, request, f, Truth)
  BY <1>2, <1>3, <1>4, <1>5 DEF Refuted
<1> QED
  BY <1>6, <1>7, ContinueJustified

LEMMA OperandMissedJustified ==
    ASSUME AnswerInv, OperandMissed
    PROVE  AnswerInv'
<1>1. Running /\ Top.at = "operands"
  BY DEF OperandMissed, At
<1>2. TypeInv'
  BY ChecksTyped DEF AnswerInv
<1>3. PICK r \in Asked(Top) : Unsatisfied(r) /\ Continue(Settled(Top, r))
  BY DEF OperandMissed
<1>4. r \notin Truth
  BY <1>1, <1>3, AskedIs, UnsatisfiedUntrue
<1>5. Top \in Frame /\ FrameShape(by_id, request, Top)
  BY <1>1, TopFrame DEF AnswerInv
<1>6. /\ Settled(Top, r) = [Settled(Top, r) EXCEPT !.unsat = Top.unsat]
      /\ Top.unsat \in SUBSET Ids
  BY <1>5 DEF Settled, Frame
<1>7. Resumes(Settled(Top, r), Top)
  BY <1>5, SettledFrame DEF AnswerInv
<1>8. Top.unsat \cap Truth = {}
  BY <1>1, TopJustified DEF Refuted
<1> QED
  BY <1>1, <1>2, <1>3, <1>4, <1>6, <1>7, <1>8, SettledJustified

LEMMA CollectJustified ==
    ASSUME AnswerInv, Collect
    PROVE  AnswerInv'
<1>1. Running /\ Top.at \in {"values", "payload"}
  BY DEF Collect, At
<1>2. TypeInv'
  BY ChecksTyped DEF AnswerInv
<1>3. PICK r \in Asked(Top) :
          \/ Satisfied(r) /\ Continue(Settled(Top, r))
          \/ Unsatisfied(r) /\ Continue([Settled(Top, r) EXCEPT !.unsat = @ \cup {r}])
  BY DEF Collect
<1>4. r \in Ids
  BY <1>1, AskedIs
<1>5. Top \in Frame /\ FrameShape(by_id, request, Top)
  BY <1>1, TopFrame DEF AnswerInv
<1>6. Top.unsat \cap Truth = {} /\ Top.unsat \in SUBSET Ids
  BY <1>1, <1>5, TopJustified DEF Refuted, Frame
<1>7. CASE Satisfied(r) /\ Continue(Settled(Top, r))
  <2>1. Settled(Top, r) = [Settled(Top, r) EXCEPT !.unsat = Top.unsat]
    BY <1>5 DEF Settled, Frame
  <2>2. Resumes(Settled(Top, r), Top)
    BY <1>5, SettledFrame DEF AnswerInv
  <2>3. r \in Trusting
    BY <1>1, <1>4, <1>7, SatisfiedTrusted
  <2> QED
    BY <1>1, <1>2, <1>6, <1>7, <2>1, <2>2, <2>3, SettledJustified
<1>8. CASE Unsatisfied(r) /\ Continue([Settled(Top, r) EXCEPT !.unsat = @ \cup {r}])
  <2> DEFINE f == [Settled(Top, r) EXCEPT !.unsat = @ \cup {r}]
  <2>1. f = [Settled(Top, r) EXCEPT !.unsat = Top.unsat \cup {r}]
    BY <1>5 DEF Settled, Frame
  <2>2. Resumes(f, Top)
    <3>1. f \in Frame
      BY <1>4, <1>5 DEF Settled, Frame
    <3> QED
      BY <1>5, <3>1 DEF Resumes, Settled, Frame, FrameShape, InType, InstanceStored
  <2>3. r \notin Truth
    BY <1>1, <1>4, <1>8, UnsatisfiedUntrue
  <2>4. Continue(f)
    BY <1>8
  <2> HIDE DEF f
  <2> DEFINE unsat == Top.unsat \cup {r}
  <2>5. /\ unsat \in SUBSET Ids /\ unsat \cap Truth = {}
        /\ Top.unsat \subseteq unsat /\ r \in unsat
    BY <1>4, <1>6, <2>3
  <2>6. f = [Settled(Top, r) EXCEPT !.unsat = unsat]
    BY <2>1
  <2> HIDE DEF unsat
  <2> QED
    BY <1>1, <1>2, <2>2, <2>3, <2>4, <2>5, <2>6, SettledJustified
<1> QED
  BY <1>3, <1>7, <1>8

LEMMA OperandUnmetJustified ==
    ASSUME AnswerInv, OperandUnmet
    PROVE  AnswerInv'
<1>1. Running /\ Top.at = "operands" /\ InType(Top) /\ Top.asks = {}
  BY AskedIs DEF OperandUnmet, At, InType
<1>2. TypeInv'
  BY ChecksTyped DEF AnswerInv
<1>3. Top.operands \in Seq(SUBSET Ids) /\ Top.operands # <<>>
  BY <1>1, TopFrame DEF AnswerInv, FrameShape, Frame
<1>4. Head(Top.operands) = Top.operands[1] /\ 1 \in DOMAIN Top.operands
  BY <1>3, EmptySeq, LenProperties
<1>5. PICK k \in DOMAIN by_id[Top.cur].operands :
         by_id[Top.cur].operands[k] \cap Truth = {}
  BY <1>1, <1>4, TopJustified DEF Refuted
<1>6. ~LocallySound(by_id, Top.cur, Truth)
  BY <1>5 DEF LocallySound, OperandsOK
<1> QED
  BY <1>1, <1>2, <1>6, TypeRejected, RejectJustified DEF OperandUnmet

---------------------------------------------------------------------------
(* The body and the trait values of a type, and a payload.                 *)

LEMMA CheckBodyJustified ==
    ASSUME AnswerInv, CheckBody
    PROVE  AnswerInv'
<1>1. Running /\ Top.at = "body" /\ InType(Top)
  BY DEF CheckBody, At, InType
<1>2. TypeInv'
  BY ChecksTyped DEF AnswerInv
<1>3. CASE ~BodyOK(by_id, Top.cur) /\ Go("reject")
  <2>1. ~LocallySound(by_id, Top.cur, Truth)
    BY <1>3 DEF LocallySound
  <2> QED
    BY <1>1, <1>2, <1>3, <2>1, TypeRejected, RejectJustified
<1> DEFINE values == by_id[Top.cur].candidates
           f == Collecting(Top, "values", values)
<1>4. CASE BodyOK(by_id, Top.cur) /\ Continue(f)
  <2>1. Top \in Frame /\ FrameShape(by_id, request, Top) /\ IsSchema(by_id, Top.cur)
    BY <1>1, TopFrame DEF AnswerInv, FrameShape
  <2>2. values \in SUBSET Ids
    BY <2>1 DEF AnswerInv, TypeInv, TypeOK, IsRegistry, IsSchema, IsDocument, Document
  <2> HIDE DEF values
  <2>3. Resumes(f, Top)
    BY <1>1, <2>1, <2>2, CollectingFrame DEF AnswerInv
  <2>4. /\ f.at = "values" /\ f.asks = values /\ f.unsat = {}
        /\ f.cur = Top.cur /\ f.seen = Top.seen /\ f.todo = Top.todo
        /\ f.op = Top.op /\ f.id = Top.id
    BY <2>1 DEF Collecting, Frame
  <2>5. /\ RootType(by_id, f) = RootType(by_id, Top)
        /\ InType(f) /\ Exploring(f) /\ Exploring(Top) /\ Examined(f) = Examined(Top)
    BY <1>1, <2>4 DEF RootType, PayloadType, InType, Exploring, Examined
  <2>6. Continue(f)
    BY <1>4
  <2> HIDE DEF f
  <2>7. Earned(by_id, request, Top, Trusting) /\ Refuted(by_id, request, Top, Truth)
    BY <1>1, TopJustified
  <2>8. Earned(by_id, request, f, Trusting)
    BY <1>1, <1>4, <2>4, <2>5, <2>7 DEF Earned, values
  <2>9. Refuted(by_id, request, f, Truth)
    BY <1>1, <2>4, <2>5, <2>7 DEF Refuted
  <2> QED
    BY <1>1, <1>2, <2>3, <2>6, <2>8, <2>9, ContinueJustified
<1> QED
  BY <1>3, <1>4 DEF CheckBody

(* Once every value has been asked about, the references the validator     *)
(* takes as satisfied are trusted and those it does not are ruled out.     *)
LEMMA RefsDecided ==
    ASSUME NEW doc, PositiveDocument(doc), NEW X, NEW V, NEW unsat,
           doc.candidates \ unsat \subseteq X, unsat \cap V = {}
    PROVE  /\ RefsOK(doc, doc.candidates \ unsat) => RefsOK(doc, X)
           /\ RefsOK(doc, V) => RefsOK(doc, doc.candidates \ unsat)
BY DEF PositiveDocument, IsPositive, IsDocument, RefsOK

LEMMA CheckTraitsJustified ==
    ASSUME AnswerInv, CheckTraits
    PROVE  AnswerInv'
<1> DEFINE t == Top.cur
           doc == by_id[t]
<1>1. Running /\ Top.at = "values" /\ InType(Top) /\ Top.asks = {}
  BY AskedIs DEF CheckTraits, At, InType
<1>2. TypeInv'
  BY ChecksTyped DEF AnswerInv
<1>3. /\ Top \in Frame /\ FrameShape(by_id, request, Top)
      /\ IsSchema(by_id, t) /\ t \in Top.seen
  BY <1>1, TopFrame DEF AnswerInv, FrameShape
<1>4. Earned(by_id, request, Top, Trusting) /\ Refuted(by_id, request, Top, Truth)
  BY <1>1, TopJustified
<1>5. doc.candidates \ Top.unsat \subseteq Trusting /\ Top.unsat \cap Truth = {}
  BY <1>1, <1>4 DEF Earned, Refuted
<1>6. PositiveDocument(doc)
  BY <1>1, <1>3, TopJustified DEF IsSchema, PositiveRegistry, PositiveDocument, IsRegistry
<1>7. CASE /\ ~(TraitsOK(by_id, t) /\ RefsOK(doc, doc.candidates \ Top.unsat))
           /\ Go("reject")
  <2>1. ~LocallySound(by_id, t, Truth)
    BY <1>5, <1>6, <1>7, RefsDecided DEF LocallySound
  <2> QED
    BY <1>1, <1>2, <1>7, <2>1, TypeRejected, RejectJustified
<1> DEFINE f == [Top EXCEPT !.at = "related",
                            !.todo = @ \cup (RelatedTypes(by_id, t) \ Top.seen)]
<1>8. CASE /\ TraitsOK(by_id, t) /\ RefsOK(doc, doc.candidates \ Top.unsat)
           /\ Continue(f)
  <2>1. RelatedTypes(by_id, t) \subseteq Ids
    BY <1>3, RelatedAreTypes DEF AnswerInv, TypeInv, TypeOK, Ids, IsSchema
  <2>2. Resumes(f, Top)
    <3>1. f \in Frame
      BY <1>3, <2>1 DEF Frame
    <3> QED
      BY <1>1, <1>3, <3>1 DEF Resumes, Frame, FrameShape, InType, InstanceStored
  <2>3. /\ f.at = "related" /\ f.seen = Top.seen
        /\ f.todo = Top.todo \cup (RelatedTypes(by_id, t) \ Top.seen)
        /\ f.op = Top.op /\ f.id = Top.id /\ f.unsat = Top.unsat
    BY <1>3 DEF Frame
  <2>4. RootType(by_id, f) = RootType(by_id, Top)
    BY <2>3 DEF RootType, PayloadType
  <2>5. LocallySound(by_id, t, Trusting)
    <3>1. RefsOK(doc, Trusting)
      BY <1>5, <1>6, <1>8, RefsDecided
    <3> QED
      BY <1>1, <1>3, <1>4, <1>8, <3>1 DEF LocallySound, Earned
  <2>6. Continue(f)
    BY <1>8
  <2> HIDE DEF f
  <2>7. Earned(by_id, request, f, Trusting)
    <3>1. \A u \in Top.seen \ {t} : /\ LocallySound(by_id, u, Trusting)
                                   /\ RelatedTypes(by_id, u) \subseteq Top.seen \cup Top.todo
      BY <1>1, <1>4 DEF Earned, Exploring, Examined
    <3>2. \A u \in f.seen : /\ LocallySound(by_id, u, Trusting)
                           /\ RelatedTypes(by_id, u) \subseteq f.seen \cup f.todo
      BY <2>3, <2>5, <3>1
    <3>3. RootType(by_id, f) \in f.seen
      BY <1>1, <1>4, <2>3, <2>4 DEF Earned, Exploring
    <3> QED
      BY <2>3, <3>2, <3>3 DEF Earned, Exploring, Examined, InType
  <2>8. Refuted(by_id, request, f, Truth)
    <3> SUFFICES ASSUME NEW C \in SUBSET TypeIds, RootType(by_id, f) \in C,
                        \A u \in C : RelatedTypes(by_id, u) \subseteq C
                 PROVE  f.seen \cup f.todo \subseteq C
      BY <1>5, <2>3 DEF Refuted
    <3>1. Top.seen \cup Top.todo \subseteq C
      BY <1>1, <1>4, <2>4 DEF Refuted, Exploring
    <3> QED
      BY <1>3, <2>3, <3>1
  <2> QED
    BY <1>1, <1>2, <2>2, <2>6, <2>7, <2>8, ContinueJustified
<1> QED
  BY <1>7, <1>8 DEF CheckTraits

LEMMA CheckPayloadJustified ==
    ASSUME AnswerInv, CheckPayload
    PROVE  AnswerInv'
<1> DEFINE t == PayloadType(by_id, Top)
           doc == PayloadDoc(by_id, request, Top)
<1>1. Running /\ Top.at = "payload" /\ Top.asks = {}
  BY AskedIs DEF CheckPayload, At
<1>2. TypeInv'
  BY ChecksTyped DEF AnswerInv
<1>3. /\ Top \in Frame /\ FrameShape(by_id, request, Top) /\ Top.op # "schema"
      /\ Top.op = "instance" => InstanceStored(by_id, Top.id)
  BY <1>1, TopFrame DEF AnswerInv, FrameShape
<1>4. /\ TypeBacked(by_id, request, t, Trusting)
      /\ doc.candidates \ Top.unsat \subseteq Trusting
      /\ Top.unsat \cap Truth = {}
  BY <1>1, TopJustified DEF Earned, Refuted
<1>5. PositiveDocument(doc)
  BY <1>1, <1>3, TopJustified DEF PayloadDoc, InstanceStored, PositiveRegistry,
                                  PositiveDocument, IsRegistry, Frame
<1>6. CASE /\ PayloadConforms(by_id, t, doc, doc.candidates \ Top.unsat)
           /\ Go("accept")
  <2>1. PayloadConforms(by_id, t, doc, Trusting)
    BY <1>4, <1>5, <1>6, RefsDecided DEF PayloadConforms
  <2>2. Claimed(by_id, request, Top, Trusting)
    BY <1>3, <1>4, <2>1 DEF Claimed
  <2> QED
    BY <1>1, <1>2, <1>6, <2>2, AcceptJustified
<1>7. CASE /\ ~PayloadConforms(by_id, t, doc, doc.candidates \ Top.unsat)
           /\ Go("reject")
  <2>1. ~PayloadConforms(by_id, t, doc, Truth)
    BY <1>4, <1>5, <1>7, RefsDecided DEF PayloadConforms
  <2>2. ASSUME Top.op = "instance"
        PROVE  Denied(by_id, request, Top, Truth)
    BY <2>1, <2>2 DEF Denied, PayloadType, PayloadDoc, InstanceSound, PayloadSound
  <2>3. ASSUME Top.op = "payload"
        PROVE  Denied(by_id, request, Top, Truth)
    BY <2>1, <2>3 DEF Denied, PayloadType, PayloadDoc, PayloadSound
  <2>4. Denied(by_id, request, Top, Truth)
    BY <1>3, <2>2, <2>3 DEF Frame
  <2> QED
    BY <1>1, <1>2, <1>7, <2>4, RejectJustified
<1> QED
  BY <1>6, <1>7 DEF CheckPayload

---------------------------------------------------------------------------
(* Nested judgements.                                                      *)

(* A frame that only waits claims and denies what it did. *)
LEMMA WaitingJustified ==
    ASSUME NEW R, NEW req, NEW f \in Frame, NEW r, NEW X, NEW V,
           Earned(R, req, f, X), Refuted(R, req, f, V)
    PROVE  /\ Earned(R, req, [f EXCEPT !.asking = r], X)
           /\ Refuted(R, req, [f EXCEPT !.asking = r], V)
<1> DEFINE g == [f EXCEPT !.asking = r]
<1>1. /\ g.at = f.at /\ g.op = f.op /\ g.id = f.id /\ g.cur = f.cur
      /\ g.seen = f.seen /\ g.todo = f.todo /\ g.operands = f.operands
      /\ g.asks = f.asks /\ g.unsat = f.unsat
  BY DEF Frame
<1> HIDE DEF g
<1>2. /\ RootType(R, g) = RootType(R, f) /\ PayloadType(R, g) = PayloadType(R, f)
      /\ PayloadDoc(R, req, g) = PayloadDoc(R, req, f)
      /\ InType(g) <=> InType(f)
      /\ Exploring(g) <=> Exploring(f)
      /\ Examined(g) = Examined(f)
  BY <1>1 DEF RootType, PayloadType, PayloadDoc, InType, Exploring, Examined
<1>3. Claimed(R, req, f, X) => Claimed(R, req, g, X)
  BY <1>1, <1>2 DEF Claimed
<1>4. Earned(R, req, g, X)
  BY <1>1, <1>2, <1>3 DEF Earned
<1>5. Denied(R, req, f, V) => Denied(R, req, g, V)
  BY <1>1 DEF Denied
<1>6. Refuted(R, req, g, V)
  BY <1>1, <1>2, <1>5 DEF Refuted
<1> QED
  BY <1>4, <1>6 DEF g

(* A judgement that has just begun has established and ruled out nothing. *)
LEMMA OpenedJustified ==
    ASSUME NEW R, NEW req, NEW op \in {"schema", "instance", "payload"}, NEW id, NEW mark,
           NEW X, NEW V
    PROVE  /\ Earned(R, req, Opened(op, id, mark), X)
           /\ Refuted(R, req, Opened(op, id, mark), V)
<1> DEFINE f == Opened(op, id, mark)
<1>1. /\ f.op = op /\ f.id = id /\ f.cur = id /\ f.todo = {} /\ f.unsat = {}
      /\ op = "schema" => f.at = "local" /\ f.seen = {id}
      /\ op # "schema" => f.at \in {"instance", "type"}
  BY DEF Opened
<1> HIDE DEF f
<1>2. CASE op = "schema"
  BY <1>1, <1>2 DEF Earned, Refuted, Exploring, InType, Examined, RootType, f
<1>3. CASE op # "schema"
  BY <1>1, <1>3 DEF Earned, Refuted, Exploring, InType, f
<1> QED
  BY <1>2, <1>3

LEMMA JudgeJustified ==
    ASSUME AnswerInv, Judge
    PROVE  AnswerInv'
<1>1. Running
  BY DEF Judge, At
<1>0. PICK n \in Nat : n = Len(stack)
  BY <1>1, TopFrame DEF AnswerInv
<1>2. /\ n \in Nat /\ n \in 1 .. n /\ DOMAIN stack = 1 .. n /\ Top \in Frame
      /\ Top = stack[n] /\ Len(judged_valid) \in Nat
  BY <1>0, <1>1, TopFrame, Marks DEF AnswerInv, Top
<1>3. PICK r \in Top.asks \cap Ids :
         /\ r \in Asked(Top) /\ Undecided(r)
         /\ validating' = validating \cup {r}
         /\ UNCHANGED <<by_id, request, outcome, calls, verdicts, judged_valid>>
         /\ stack' \in Seq(Frame) /\ Len(stack') = n + 1
         /\ DOMAIN stack' = 1 .. n + 1
         /\ \A k \in 1 .. n :
               stack'[k] = IF k = n THEN [Top EXCEPT !.asking = r] ELSE stack[k]
         /\ stack'[n + 1] = Opened(OpOf(r), r, Len(judged_valid))
  BY <1>0, JudgeStack DEF AnswerInv
<1>4. request.mode = "any-valid" /\ r \in DOMAIN by_id
  BY <1>1, <1>3, UndecidedMode
<1>5. StackShape /\ CachesFaithful /\ LogSupported /\ FramesJustified
  BY <1>1 DEF AnswerInv, Justified
<1>6. \A k \in 1 .. n : /\ stack'[k].op = stack[k].op
                       /\ stack'[k].id = stack[k].id
                       /\ stack'[k].mark = stack[k].mark
  BY <1>2, <1>3, SMTT(30) DEF Frame
<1>7. /\ stack'[n + 1].op = OpOf(r) /\ stack'[n + 1].id = r
      /\ stack'[n + 1].mark = Len(judged_valid)
  BY <1>3 DEF Opened
<1>8. /\ \A k \in 1 .. n : Limit(k)' = Limit(k)
      /\ Limit(n + 1)' = Len(judged_valid)
      /\ Limit(n) = Len(judged_valid)
  <2>1. Limit(n + 1)' = Len(judged_valid) /\ Limit(n) = Len(judged_valid)
    BY <1>0, <1>3 DEF Limit
  <2>2. Limit(n)' = Len(judged_valid)
    BY <1>2, <1>3, <1>7 DEF Limit
  <2>3. ASSUME NEW k \in 1 .. n, k # n
        PROVE  Limit(k)' = Limit(k)
    <3>1. k + 1 \in 1 .. n /\ k # n + 1
      BY <1>2, <2>3
    <3> QED
      BY <1>0, <1>3, <1>6, <2>3, <3>1 DEF Limit
  <2> QED
    BY <2>1, <2>2, <2>3
<1>9. \A k \in 1 .. n : {stack'[j].id : j \in 2 .. k} = {stack[j].id : j \in 2 .. k}
  <2> SUFFICES ASSUME NEW k \in 1 .. n
               PROVE  \A j \in 2 .. k : stack'[j].id = stack[j].id
    OBVIOUS
  <2> QED
    BY <1>2, <1>6
<1>10. {stack'[j].id : j \in 2 .. n + 1} = {stack[j].id : j \in 2 .. n} \cup {r}
  <2>1. 2 .. n + 1 = (2 .. n) \cup {n + 1}
    BY <1>2
  <2>2. {stack'[j].id : j \in 2 .. n + 1} = {stack'[j].id : j \in 2 .. n} \cup {stack'[n + 1].id}
    BY <2>1
  <2> QED
    BY <1>2, <1>7, <1>9, <2>2
<1>11. /\ \A k \in 1 .. n : Trust(k)' = Trust(k)
       /\ Trust(n) \subseteq Trust(n + 1)'
  <2>1. \A k \in 1 .. n : Trust(k)' = Trust(k)
    BY <1>3, <1>8, <1>9, ZenonT(40) DEF Trust
  <2>2. Trust(n + 1)' = {judged_valid[j] : j \in 1 .. Len(judged_valid)}
                           \cup {stack[j].id : j \in 2 .. n} \cup {r}
    BY <1>3, <1>4, <1>8, <1>10 DEF Trust
  <2>3. Trust(n) = {judged_valid[j] : j \in 1 .. Len(judged_valid)}
                      \cup {stack[j].id : j \in 2 .. n}
    BY <1>4, <1>8 DEF Trust
  <2> QED
    BY <2>1, <2>2, <2>3
<1>12. StackShape'
  <2>1. /\ stack'[1].op = stack[1].op /\ stack'[1].id = stack[1].id
        /\ \A k \in 2 .. n : stack'[k].op = stack[k].op /\ stack'[k].id = stack[k].id
    BY <1>2, <1>6
  <2>2. \A k \in 2 .. n + 1 : k \in 2 .. n \/ k = n + 1
    BY <1>2
  <2> QED
    BY <1>0, <1>3, <1>4, <1>5, <1>7, <2>1, <2>2 DEF StackShape
<1>13. CachesFaithful'
  BY <1>0, <1>3, <1>5, <1>10 DEF CachesFaithful, JudgedValid
<1>14. LogSupported'
  <2> SUFFICES ASSUME NEW k \in 1 .. n + 1, NEW j \in 1 .. Limit(k)'
               PROVE  Claimed(by_id, request,
                              Opened(OpOf(judged_valid[j]), judged_valid[j], 0), Trust(k)')
    BY <1>3 DEF LogSupported
  <2>1. CASE k \in 1 .. n
    BY <1>2, <1>5, <1>8, <1>11, <2>1 DEF LogSupported
  <2>2. CASE k = n + 1
    <3> DEFINE f == Opened(OpOf(judged_valid[j]), judged_valid[j], 0)
    <3>1. Claimed(by_id, request, f, Trust(n))
      BY <1>2, <1>5, <1>8, <2>2 DEF LogSupported
    <3>2. f.op \in {"schema", "instance"}
      BY DEF Opened, OpOf
    <3> HIDE DEF f
    <3>3. Claimed(by_id, request, f, Trust(n + 1)')
      BY <1>1, <1>11, <3>1, <3>2, ClaimedMonotone, TopJustified
    <3> QED
      BY <2>2, <3>3 DEF f
  <2> QED
    BY <1>2, <2>1, <2>2
<1>15. FramesJustified'
  <2> SUFFICES ASSUME NEW k \in 1 .. n + 1
               PROVE  /\ Earned(by_id, request, stack'[k], Trust(k)')
                      /\ Refuted(by_id, request, stack'[k], Truth)
    BY <1>3 DEF FramesJustified, Truth
  <2>1. CASE k \in 1 .. n /\ k # n
    BY <1>2, <1>3, <1>5, <1>11, <2>1 DEF FramesJustified, Truth
  <2>2. CASE k = n
    <3>1. Earned(by_id, request, Top, Trust(n)) /\ Refuted(by_id, request, Top, Truth)
      BY <1>2, <1>5 DEF FramesJustified, Truth
    <3>2. stack'[n] = [Top EXCEPT !.asking = r] /\ Trust(n)' = Trust(n)
      BY <1>2, <1>3, <1>11
    <3> DEFINE f == [Top EXCEPT !.asking = r]
    <3>3. Earned(by_id, request, f, Trust(n)) /\ Refuted(by_id, request, f, Truth)
      BY <1>2, <3>1, WaitingJustified
    <3>4. stack'[n] = f
      BY <3>2
    <3> HIDE DEF f
    <3> QED
      BY <2>2, <3>2, <3>3, <3>4
  <2>3. CASE k = n + 1
    BY <1>3, <2>3, OpenedJustified DEF OpOf
  <2> QED
    BY <1>2, <2>1, <2>2, <2>3
<1>16. TypeInv'
  BY JudgeTyped DEF AnswerInv
<1> QED
  BY <1>3, <1>12, <1>13, <1>14, <1>15, <1>16
     DEF AnswerInv, Justified, AnswerCorrect, Running, PositiveDocuments

(* Ending a judgement drops its frame; what the frames below rest on stays *)
(* for all but the one that asked, and for it grows.                       *)
LEMMA LeaveTrust ==
    ASSUME AnswerInv, LeaveValid \/ LeaveInvalid, NEW n \in Nat, n = Len(stack)
    PROVE  /\ n > 1 /\ request.mode = "any-valid"
           /\ \A k \in 1 .. n - 1 : LeaveInvalid => Limit(k)' = Limit(k)
           /\ \A k \in 1 .. n - 2 : Limit(k)' = Limit(k)
           /\ LeaveValid => Limit(n - 1)' = Len(judged_valid) + 1
           /\ \A k \in 1 .. n - 1 : Limit(k) \in Nat /\ Limit(k) <= Top.mark
           /\ \A k \in 1 .. n - 1 : LeaveInvalid => Trust(k)' = Trust(k)
           /\ \A k \in 1 .. n - 2 : Trust(k)' = Trust(k)
           /\ LeaveValid => Trust(n - 1)' = Trust(n)
           /\ Trust(n - 1) \subseteq Trust(n)
<1>1. /\ Running /\ Top \in Frame /\ n > 1
      /\ UNCHANGED <<by_id, request, outcome, calls>>
      /\ Len(stack') = n - 1
      /\ \A k \in 1 .. n - 1 : stack'[k] = stack[k]
  BY LeaveStack DEF AnswerInv
<1>2. /\ Len(judged_valid) \in Nat /\ Top.mark \in Nat /\ Top.mark <= Len(judged_valid)
      /\ LeaveValid => /\ Len(judged_valid') = Len(judged_valid) + 1
                       /\ judged_valid'[Len(judged_valid) + 1] = Top.id
      /\ LeaveInvalid => Len(judged_valid') = Top.mark
      /\ \A k \in 1 .. Top.mark : judged_valid'[k] = judged_valid[k]
      /\ LeaveValid => \A k \in 1 .. Len(judged_valid) : judged_valid'[k] = judged_valid[k]
  BY LeaveLog DEF AnswerInv
<1>3. request.mode = "any-valid"
  BY <1>1 DEF AnswerInv, Justified, StackShape
<1>4. Top = stack[n] /\ Limit(n - 1) = Top.mark /\ Limit(n) = Len(judged_valid)
  BY <1>1 DEF Top, Limit
<1>5. \A k \in 1 .. n - 2 : Limit(k)' = Limit(k)
  <2> SUFFICES ASSUME NEW k \in 1 .. n - 2
               PROVE  Limit(k)' = Limit(k)
    OBVIOUS
  <2>1. k # n /\ k # n - 1 /\ k + 1 \in 1 .. n - 1
    OBVIOUS
  <2> QED
    BY <1>1, <2>1 DEF Limit
<1>6. /\ LeaveValid => Limit(n - 1)' = Len(judged_valid) + 1
      /\ LeaveInvalid => Limit(n - 1)' = Limit(n - 1)
  BY <1>1, <1>2, <1>4 DEF Limit
<1>7. \A k \in 1 .. n - 1 : Limit(k) \in Nat /\ Limit(k) <= Top.mark
  <2> SUFFICES ASSUME NEW k \in 1 .. n - 1
               PROVE  Limit(k) \in Nat /\ Limit(k) <= Top.mark
    OBVIOUS
  <2>1. Limit(k) = stack[k + 1].mark /\ k + 1 \in 1 .. n /\ n \in 1 .. n
    BY <1>1 DEF Limit
  <2>2. /\ stack[k + 1].mark \in Nat
        /\ \A j \in 1 .. n : stack[j].mark <= stack[n].mark
    BY <1>1, <2>1, Marks DEF AnswerInv
  <2> QED
    BY <1>4, <2>1, <2>2
<1>8. \A k \in 1 .. n - 1 : LeaveInvalid => Limit(k)' = Limit(k)
  <2> SUFFICES ASSUME NEW k \in 1 .. n - 1, LeaveInvalid
               PROVE  Limit(k)' = Limit(k)
    OBVIOUS
  <2>1. k = n - 1 \/ k \in 1 .. n - 2
    OBVIOUS
  <2> QED
    BY <1>5, <1>6, <2>1
<1>9. \A k \in 1 .. n - 1 : Limit(k)' = Limit(k) => Trust(k)' = Trust(k)
  <2> SUFFICES ASSUME NEW k \in 1 .. n - 1, Limit(k)' = Limit(k)
               PROVE  Trust(k)' = Trust(k)
    OBVIOUS
  <2>1. \A j \in 2 .. k : stack'[j].id = stack[j].id
    BY <1>1
  <2>2. \A j \in 1 .. Limit(k) : judged_valid'[j] = judged_valid[j]
    BY <1>2, <1>7
  <2>3. Trust(k)' = {judged_valid'[j] : j \in 1 .. Limit(k)} \cup {stack'[j].id : j \in 2 .. k}
    BY <1>1, <1>3 DEF Trust
  <2>4. Trust(k) = {judged_valid[j] : j \in 1 .. Limit(k)} \cup {stack[j].id : j \in 2 .. k}
    BY <1>3 DEF Trust
  <2>5. {judged_valid'[j] : j \in 1 .. Limit(k)} = {judged_valid[j] : j \in 1 .. Limit(k)}
    BY <2>2
  <2>6. {stack'[j].id : j \in 2 .. k} = {stack[j].id : j \in 2 .. k}
    BY <2>1
  <2> QED
    BY <2>3, <2>4, <2>5, <2>6
<1>10. Trust(n) = {judged_valid[j] : j \in 1 .. Len(judged_valid)}
                     \cup {stack[j].id : j \in 2 .. n - 1} \cup {Top.id}
  <2>1. 2 .. n = (2 .. n - 1) \cup {n}
    BY <1>1
  <2>2. {stack[j].id : j \in 2 .. n} = {stack[j].id : j \in 2 .. n - 1} \cup {stack[n].id}
    BY <2>1
  <2>3. Trust(n) = {judged_valid[j] : j \in 1 .. Limit(n)} \cup {stack[j].id : j \in 2 .. n}
    BY <1>3 DEF Trust
  <2> QED
    BY <1>4, <2>2, <2>3
<1>11. Trust(n - 1) \subseteq Trust(n)
  <2>1. Trust(n - 1) = {judged_valid[j] : j \in 1 .. Top.mark} \cup {stack[j].id : j \in 2 .. n - 1}
    BY <1>3, <1>4 DEF Trust
  <2> QED
    BY <1>2, <1>10, <2>1
<1>12. ASSUME LeaveValid
       PROVE  Trust(n - 1)' = Trust(n)
  <2>1. Trust(n - 1)' = {judged_valid'[j] : j \in 1 .. Len(judged_valid) + 1}
                           \cup {stack'[j].id : j \in 2 .. n - 1}
    BY <1>1, <1>3, <1>6, <1>12 DEF Trust
  <2>2. {stack'[j].id : j \in 2 .. n - 1} = {stack[j].id : j \in 2 .. n - 1}
    <3>1. \A j \in 2 .. n - 1 : stack'[j].id = stack[j].id
      BY <1>1
    <3> QED
      BY <3>1
  <2>3. {judged_valid'[j] : j \in 1 .. Len(judged_valid) + 1}
           = {judged_valid[j] : j \in 1 .. Len(judged_valid)} \cup {Top.id}
    <3>1. 1 .. Len(judged_valid) + 1 = (1 .. Len(judged_valid)) \cup {Len(judged_valid) + 1}
      BY <1>2
    <3>2. {judged_valid'[j] : j \in 1 .. Len(judged_valid) + 1}
             = {judged_valid'[j] : j \in 1 .. Len(judged_valid)}
                  \cup {judged_valid'[Len(judged_valid) + 1]}
      BY <3>1
    <3>3. {judged_valid'[j] : j \in 1 .. Len(judged_valid)}
             = {judged_valid[j] : j \in 1 .. Len(judged_valid)}
      BY <1>2, <1>12
    <3> QED
      BY <1>2, <1>12, <3>2, <3>3
  <2> QED
    BY <1>10, <2>1, <2>2, <2>3
<1> QED
  BY <1>1, <1>3, <1>5, <1>6, <1>7, <1>8, <1>9, <1>11, <1>12

(* What ending a judgement either way keeps of the shape of the stack. *)
LEMMA LeaveShape ==
    ASSUME AnswerInv, LeaveValid \/ LeaveInvalid
    PROVE  /\ StackShape'
           /\ validating' \subseteq {stack'[k].id : k \in 2 .. Len(stack')}
<1>1. PICK n \in Nat : n = Len(stack)
  BY LeaveStack DEF AnswerInv
<1>2. /\ Running /\ Top = stack[n] /\ n > 1
      /\ validating' = validating \ {Top.id}
      /\ UNCHANGED <<by_id, request, outcome, calls>>
      /\ Len(stack') = n - 1
      /\ \A k \in 1 .. n - 1 : stack'[k] = stack[k]
  BY <1>1, LeaveStack DEF AnswerInv, Top
<1>3. StackShape /\ CachesFaithful /\ request.mode = "any-valid"
  BY <1>1, <1>2 DEF AnswerInv, Justified, StackShape
<1>4. StackShape'
  <2>1. stack'[1] = stack[1] /\ \A k \in 2 .. n - 1 : stack'[k] = stack[k] /\ k \in 2 .. n
    BY <1>2
  <2> QED
    BY <1>1, <1>2, <1>3, <2>1 DEF StackShape
<1>5. validating' \subseteq {stack'[k].id : k \in 2 .. Len(stack')}
  <2> SUFFICES ASSUME NEW id \in validating, id # Top.id
               PROVE  \E k \in 2 .. n - 1 : stack'[k].id = id
    BY <1>2
  <2>1. PICK k \in 2 .. n : stack[k].id = id
    BY <1>1, <1>3 DEF CachesFaithful
  <2>2. k \in 2 .. n - 1
    BY <1>2, <2>1
  <2> QED
    BY <1>2, <2>1, <2>2
<1> QED
  BY <1>4, <1>5

LEMMA LeaveValidJustified ==
    ASSUME AnswerInv, LeaveValid
    PROVE  AnswerInv'
<1>1. PICK n \in Nat : n = Len(stack)
  BY LeaveStack DEF AnswerInv
<1>2. /\ Running /\ Top = stack[n] /\ Top \in Frame /\ n > 1
      /\ DOMAIN stack = 1 .. n /\ DOMAIN stack' = 1 .. n - 1
      /\ UNCHANGED <<by_id, request, outcome, calls>>
      /\ \A k \in 1 .. n - 1 : stack'[k] = stack[k]
  BY <1>1, LeaveStack DEF AnswerInv, Top
<1>3. /\ Len(judged_valid) \in Nat /\ Top.mark <= Len(judged_valid) /\ Top.mark \in Nat
      /\ judged_valid' \in Seq(Ids) /\ judged_valid \in Seq(Ids)
      /\ Len(judged_valid') = Len(judged_valid) + 1
      /\ judged_valid'[Len(judged_valid) + 1] = Top.id
      /\ \A k \in 1 .. Len(judged_valid) : judged_valid'[k] = judged_valid[k]
  BY LeaveLog DEF AnswerInv, TypeInv, TypeOK
<1>4. /\ StackShape /\ CachesFaithful /\ LogSupported /\ FramesJustified
      /\ PositiveRegistry(by_id) /\ StackShape'
      /\ validating' \subseteq {stack'[k].id : k \in 2 .. Len(stack')}
  BY <1>2, TopJustified, LeaveShape DEF AnswerInv, Justified
<1>5. /\ Top.op = OpOf(Top.id) /\ Top.id \in DOMAIN by_id /\ Top.id \in Ids
  BY <1>1, <1>2, <1>4 DEF StackShape, Frame
<1>6. /\ \A k \in 1 .. n - 2 : Limit(k)' = Limit(k) /\ Trust(k)' = Trust(k)
      /\ \A k \in 1 .. n - 1 : Limit(k) \in Nat /\ Limit(k) <= Top.mark
      /\ Limit(n - 1)' = Len(judged_valid) + 1
      /\ Trust(n - 1)' = Trust(n)
      /\ Trust(n - 1) \subseteq Trust(n)
      /\ Limit(n) = Len(judged_valid)
  BY <1>1, LeaveTrust DEF Limit
<1>7. \A k \in 1 .. n - 1 : k = n - 1 \/ k \in 1 .. n - 2
  BY <1>2
<1>8. DOMAIN judged_valid = 1 .. Len(judged_valid)
      /\ DOMAIN judged_valid' = 1 .. Len(judged_valid) + 1
  BY <1>3, LenProperties
<1>9. CachesFaithful'
  <2>1. \A k \in DOMAIN judged_valid' : judged_valid'[k] \in DOMAIN by_id
    <3> SUFFICES ASSUME NEW k \in 1 .. Len(judged_valid) + 1
                 PROVE  judged_valid'[k] \in DOMAIN by_id
      BY <1>8
    <3>1. CASE k = Len(judged_valid) + 1
      BY <1>3, <1>5, <3>1
    <3>2. CASE k \in 1 .. Len(judged_valid)
      BY <1>3, <1>4, <1>8, <3>2 DEF CachesFaithful
    <3> QED
      BY <1>3, <3>1, <3>2
  <2>2. JudgedValid \cup {Top.id} \subseteq JudgedValid'
    <3>1. /\ Len(judged_valid) + 1 \in 1 .. Len(judged_valid) + 1
          /\ 1 .. Len(judged_valid) \subseteq 1 .. Len(judged_valid) + 1
      BY <1>3
    <3>2. JudgedValid' = {judged_valid'[k] : k \in 1 .. Len(judged_valid) + 1}
      BY <1>8 DEF JudgedValid
    <3>3. \A k \in 1 .. Len(judged_valid) : judged_valid[k] \in JudgedValid'
      BY <1>3, <3>1, <3>2
    <3>4. Top.id \in JudgedValid'
      BY <1>3, <3>1, <3>2
    <3> QED
      BY <1>8, <3>3, <3>4 DEF JudgedValid
  <2>3. verdicts' = [verdicts EXCEPT ![Top.id] = "valid"]
    BY DEF LeaveValid
  <2>4. verdicts \in [Ids -> {"unknown", "valid", "invalid"}]
    BY DEF AnswerInv, TypeInv, TypeOK
  <2>5. \A id \in Ids : verdicts'[id] = IF id = Top.id THEN "valid" ELSE verdicts[id]
    BY <2>3, <2>4
  <2>6. \A id \in Ids : verdicts'[id] = "valid" => id \in JudgedValid'
    BY <1>4, <2>2, <2>5 DEF CachesFaithful
  <2>7. \A id \in Ids : verdicts'[id] = "invalid" => id \notin Valid(by_id)
    BY <1>4, <2>5 DEF CachesFaithful
  <2> QED
    BY <1>2, <1>4, <2>1, <2>6, <2>7 DEF CachesFaithful
<1>10. LogSupported'
  <2> SUFFICES ASSUME NEW k \in 1 .. n - 1, NEW j \in 1 .. Limit(k)'
               PROVE  Claimed(by_id, request,
                              Opened(OpOf(judged_valid'[j]), judged_valid'[j], 0), Trust(k)')
    BY <1>2 DEF LogSupported
  <2>1. CASE k \in 1 .. n - 2
    <3>1. j \in 1 .. Limit(k) /\ judged_valid'[j] = judged_valid[j] /\ k \in 1 .. n
      BY <1>3, <1>6, <2>1
    <3> QED
      BY <1>2, <1>4, <1>6, <2>1, <3>1 DEF LogSupported
  <2>2. CASE k = n - 1 /\ j \in 1 .. Len(judged_valid)
    <3>1. judged_valid'[j] = judged_valid[j] /\ n \in 1 .. n /\ j \in 1 .. Limit(n)
      BY <1>2, <1>3, <1>6, <2>2
    <3>2. Claimed(by_id, request,
                  Opened(OpOf(judged_valid[j]), judged_valid[j], 0), Trust(n))
      BY <1>2, <1>4, <3>1 DEF LogSupported
    <3>3. Trust(k)' = Trust(n)
      BY <1>6, <2>2
    <3> QED
      BY <3>1, <3>2, <3>3
  <2>3. CASE k = n - 1 /\ j = Len(judged_valid) + 1
    <3>1. Claimed(by_id, request, Top, Trust(n))
      BY <1>1, <1>2, TopJustified DEF LeaveValid, Earned, Trusting
    <3>2. Claimed(by_id, request, Opened(OpOf(Top.id), Top.id, 0), Trust(n))
      <4> DEFINE f == Opened(OpOf(Top.id), Top.id, 0)
      <4>1. f.op = Top.op /\ f.id = Top.id
        BY <1>5 DEF Opened
      <4> HIDE DEF f
      <4>2. PayloadType(by_id, f) = PayloadType(by_id, Top)
            /\ PayloadDoc(by_id, request, f) = PayloadDoc(by_id, request, Top)
        BY <4>1 DEF PayloadType, PayloadDoc
      <4>3. Claimed(by_id, request, f, Trust(n))
        BY <3>1, <4>1, <4>2 DEF Claimed
      <4> QED
        BY <4>3 DEF f
    <3>3. Trust(k)' = Trust(n) /\ judged_valid'[j] = Top.id
      BY <1>3, <1>6, <2>3
    <3> QED
      BY <3>2, <3>3
  <2>4. j \in 1 .. Len(judged_valid) \/ j = Len(judged_valid) + 1 \/ k \in 1 .. n - 2
    BY <1>3, <1>6, <1>7
  <2> QED
    BY <1>7, <2>1, <2>2, <2>3, <2>4
<1>11. FramesJustified'
  <2> SUFFICES ASSUME NEW k \in 1 .. n - 1
               PROVE  /\ Earned(by_id, request, stack[k], Trust(k)')
                      /\ Refuted(by_id, request, stack[k], Truth)
    BY <1>2 DEF FramesJustified, Truth
  <2>1. Earned(by_id, request, stack[k], Trust(k)) /\ Refuted(by_id, request, stack[k], Truth)
    BY <1>2, <1>4 DEF FramesJustified, Truth
  <2>2. CASE k \in 1 .. n - 2
    BY <1>6, <2>1, <2>2
  <2>3. CASE k = n - 1
    <3>1. stack[k] \in Frame /\ FrameShape(by_id, request, stack[k])
      BY <1>1, <1>2, Marks DEF AnswerInv, TypeInv, FramesShaped
    <3>2. stack[k].op = "payload" => PositiveDocument(request.doc)
      BY <3>1 DEF FrameShape, AnswerInv, PositiveDocuments, TypeInv, TypeOK
    <3>3. Earned(by_id, request, stack[k], Trust(n))
      <4>1. Earned(by_id, request, stack[k], Trust(n - 1))
        BY <2>1, <2>3
      <4> QED
        BY <1>4, <1>6, <3>1, <3>2, <4>1, EarnedMonotone
    <3> QED
      BY <1>6, <2>1, <2>3, <3>3
  <2> QED
    BY <1>7, <2>2, <2>3
<1>12. TypeInv'
  BY LeaveTyped DEF AnswerInv
<1> QED
  BY <1>2, <1>4, <1>9, <1>10, <1>11, <1>12
     DEF AnswerInv, Justified, AnswerCorrect, Running, PositiveDocuments

(* A rejected entity is not valid, and what was logged since its judgement *)
(* began, which may rest on it, leaves the log with it.                    *)
LEMMA LeaveInvalidJustified ==
    ASSUME AnswerInv, LeaveInvalid
    PROVE  AnswerInv'
<1>1. PICK n \in Nat : n = Len(stack)
  BY LeaveStack DEF AnswerInv
<1>2. /\ Running /\ Top = stack[n] /\ Top \in Frame /\ n > 1
      /\ DOMAIN stack = 1 .. n /\ DOMAIN stack' = 1 .. n - 1
      /\ UNCHANGED <<by_id, request, outcome, calls>>
      /\ \A k \in 1 .. n - 1 : stack'[k] = stack[k]
  BY <1>1, LeaveStack DEF AnswerInv, Top
<1>3. /\ Len(judged_valid) \in Nat /\ Top.mark <= Len(judged_valid) /\ Top.mark \in Nat
      /\ judged_valid' \in Seq(Ids) /\ judged_valid \in Seq(Ids)
      /\ Len(judged_valid') = Top.mark
      /\ \A k \in 1 .. Top.mark : judged_valid'[k] = judged_valid[k]
  BY LeaveLog DEF AnswerInv, TypeInv, TypeOK
<1>4. /\ StackShape /\ CachesFaithful /\ LogSupported /\ FramesJustified
      /\ PositiveRegistry(by_id) /\ StackShape'
      /\ validating' \subseteq {stack'[k].id : k \in 2 .. Len(stack')}
  BY <1>2, TopJustified, LeaveShape DEF AnswerInv, Justified
<1>5. /\ Top.op = OpOf(Top.id) /\ Top.id \in DOMAIN by_id /\ Top.id \in Ids
      /\ request.mode = "any-valid"
  BY <1>1, <1>2, <1>4 DEF StackShape, Frame
<1>6. \A k \in 1 .. n - 1 : /\ Limit(k)' = Limit(k) /\ Trust(k)' = Trust(k)
                            /\ Limit(k) \in Nat /\ Limit(k) <= Top.mark
  BY <1>1, LeaveTrust
<1>7. DOMAIN judged_valid = 1 .. Len(judged_valid) /\ DOMAIN judged_valid' = 1 .. Top.mark
  BY <1>3, LenProperties
<1>8. Top.id \notin Valid(by_id)
  <2>1. Denied(by_id, request, Top, Valid(by_id))
    BY <1>2, <1>5, TopJustified DEF LeaveInvalid, Refuted, Truth, Trusted
  <2>2. ~Sound(by_id, Top.id, Valid(by_id))
    BY <1>5, <2>1 DEF Denied, OpOf, Sound
  <2> QED
    BY <1>4, <2>2, ValidSelfSupporting DEF SelfSupporting
<1>9. CachesFaithful'
  <2>1. \A k \in DOMAIN judged_valid' : judged_valid'[k] \in DOMAIN by_id
    <3> SUFFICES ASSUME NEW k \in 1 .. Top.mark
                 PROVE  judged_valid'[k] \in DOMAIN by_id
      BY <1>7
    <3>1. k \in 1 .. Len(judged_valid)
      BY <1>3
    <3> QED
      BY <1>3, <1>4, <1>7, <3>1 DEF CachesFaithful
  <2>2. \A id \in Ids : verdicts'[id] = IF id = Top.id THEN "invalid"
                                        ELSE IF id \in Withdrawn(Top.mark) THEN "unknown"
                                        ELSE verdicts[id]
    BY DEF LeaveInvalid
  <2>3. \A id \in Ids : verdicts'[id] = "valid" => id \in JudgedValid'
    <3> SUFFICES ASSUME NEW id \in Ids, verdicts'[id] = "valid"
                 PROVE  id \in JudgedValid'
      OBVIOUS
    <3>1. id \notin Withdrawn(Top.mark) /\ verdicts[id] = "valid"
      BY <2>2
    <3>2. PICK k \in 1 .. Len(judged_valid) : judged_valid[k] = id
      BY <1>4, <1>7, <3>1 DEF CachesFaithful, JudgedValid
    <3>3. k \notin Top.mark + 1 .. Len(judged_valid)
      BY <3>1, <3>2 DEF Withdrawn
    <3>4. k \in 1 .. Top.mark
      BY <1>3, <3>3
    <3>5. judged_valid'[k] = id
      BY <1>3, <3>2, <3>4
    <3> QED
      BY <1>7, <3>4, <3>5 DEF JudgedValid
  <2>4. \A id \in Ids : verdicts'[id] = "invalid" => id \notin Valid(by_id)
    BY <1>4, <1>8, <2>2 DEF CachesFaithful
  <2> QED
    BY <1>2, <1>4, <2>1, <2>3, <2>4 DEF CachesFaithful
<1>10. LogSupported'
  <2> SUFFICES ASSUME NEW k \in 1 .. n - 1, NEW j \in 1 .. Limit(k)
               PROVE  Claimed(by_id, request,
                              Opened(OpOf(judged_valid'[j]), judged_valid'[j], 0), Trust(k))
    BY <1>2, <1>6 DEF LogSupported
  <2>1. k \in 1 .. n /\ j \in 1 .. Top.mark
    BY <1>2, <1>3, <1>6
  <2>2. judged_valid'[j] = judged_valid[j]
    BY <1>3, <2>1
  <2> QED
    BY <1>2, <1>4, <2>1, <2>2 DEF LogSupported
<1>11. FramesJustified'
  <2> SUFFICES ASSUME NEW k \in 1 .. n - 1
               PROVE  /\ Earned(by_id, request, stack[k], Trust(k))
                      /\ Refuted(by_id, request, stack[k], Truth)
    BY <1>2, <1>6 DEF FramesJustified, Truth
  <2> QED
    BY <1>2, <1>4 DEF FramesJustified, Truth
<1>12. TypeInv'
  BY LeaveTyped DEF AnswerInv
<1> QED
  BY <1>2, <1>4, <1>9, <1>10, <1>11, <1>12
     DEF AnswerInv, Justified, AnswerCorrect, Running, PositiveDocuments

---------------------------------------------------------------------------
(* The top-level call.                                                     *)

LEMMA BeginJustified ==
    ASSUME AnswerInv, NEW req \in Requests, Begin(req)
    PROVE  AnswerInv'
<1> DEFINE opened == Opened(req.op, req.id, 0)
<1>1. /\ stack' = <<opened>> /\ request' = req /\ by_id' = by_id
      /\ outcome' = "running" /\ judged_valid' = <<>> /\ validating' = {}
      /\ verdicts' = [id \in Ids |-> "unknown"]
  BY DEF Begin
<1>2. req.op \in {"schema", "instance", "payload"}
  BY CallAssumption DEF Request
<1>3. opened.op = req.op /\ opened.id = req.id
  BY DEF Opened
<1>4. \A X, V : Earned(by_id, req, opened, X) /\ Refuted(by_id, req, opened, V)
  BY <1>2, OpenedJustified
<1> HIDE DEF opened
<1>5. /\ DOMAIN stack' = 1 .. 1 /\ Len(stack') = 1 /\ stack'[1] = opened
      /\ Len(judged_valid') = 0 /\ DOMAIN judged_valid' = {}
  BY <1>1
<1>6. StackShape'
  BY <1>1, <1>3, <1>5 DEF StackShape
<1>7. CachesFaithful'
  BY <1>1, <1>5 DEF CachesFaithful
<1>8. LogSupported'
  <2>1. Limit(1)' = 0
    BY <1>5 DEF Limit
  <2> QED
    BY <1>5, <2>1 DEF LogSupported
<1>9. FramesJustified'
  BY <1>1, <1>4, <1>5 DEF FramesJustified
<1>10. TypeInv'
  BY BeginTyped DEF AnswerInv
<1> QED
  BY <1>1, <1>6, <1>7, <1>8, <1>9, <1>10
     DEF AnswerInv, Justified, AnswerCorrect, PositiveDocuments

(* Once nothing is being judged, the log is a set of valid entities. *)
LEMMA LogValid ==
    ASSUME AnswerInv, Running, Len(stack) = 1
    PROVE  Trusting \subseteq Truth
<1>1. CASE request.mode # "any-valid"
  BY <1>1, TrustingIs
<1>2. CASE request.mode = "any-valid"
  <2>1. DOMAIN judged_valid = 1 .. Len(judged_valid)
    BY LenProperties DEF AnswerInv, TypeInv, TypeOK
  <2>2. Trusting = JudgedValid /\ Trust(1) = JudgedValid /\ Limit(1) = Len(judged_valid)
    <3>1. {stack[k].id : k \in 2 .. 1} = {}
      OBVIOUS
    <3> QED
      BY <1>2, <3>1, TrustingIs DEF Trusting, Limit
  <2>3. JudgedValid \subseteq DOMAIN by_id
    BY DEF AnswerInv, Justified, CachesFaithful, JudgedValid
  <2>4. JudgedValid \in SUBSET Ids
    BY <2>3 DEF AnswerInv, TypeInv, TypeOK, IsRegistry
  <2>5. 1 \in DOMAIN stack
    BY LenProperties DEF AnswerInv, TypeInv, TypeOK
  <2>6. \A id \in JudgedValid : Claimed(by_id, request, Opened(OpOf(id), id, 0), JudgedValid)
    BY <2>1, <2>2, <2>5 DEF AnswerInv, Justified, LogSupported, JudgedValid
  <2>7. SelfSupporting(by_id, JudgedValid)
    BY <2>4, <2>6, ClaimsSupport
  <2> QED
    BY <1>2, <2>2, <2>3, <2>7, ValidGreatest DEF Truth, Trusted
<1> QED
  BY <1>1, <1>2

LEMMA AnswerJustified ==
    ASSUME AnswerInv, Answer
    PROVE  AnswerInv'
<1>1. /\ Running /\ Len(stack) = 1 /\ Top = stack[1] /\ Top.at \in {"accept", "reject"}
      /\ outcome' = IF Top.at = "accept" THEN "accepted" ELSE "rejected"
      /\ by_id' = by_id /\ request' = request
  BY DEF Answer, Top
<1>2. /\ Top.op = request.op /\ Top.id = request.id
      /\ request.op \in {"schema", "instance", "payload"}
  <2>1. Top \in Frame
    BY <1>1, TopFrame DEF AnswerInv
  <2> QED
    BY <1>1, <2>1 DEF AnswerInv, Justified, StackShape, Frame
<1>3. ASSUME Top.at = "accept"
      PROVE  Holds(by_id, request)
  <2>1. Claimed(by_id, request, Top, Trusting)
    BY <1>1, <1>3, TopJustified DEF Earned
  <2>2. Claimed(by_id, request, Top, Truth)
    BY <1>1, <1>2, <2>1, LogValid, TopJustified, ClaimedMonotone
  <2>3. \A t : TypeBacked(by_id, request, t, Truth) => SchemaSound(by_id, t, Truth)
    <3> SUFFICES ASSUME NEW t \in TypeIds \cap Truth, request.mode = "any-valid"
                 PROVE  SchemaSound(by_id, t, Truth)
      BY DEF TypeBacked
    <3>1. Truth = Valid(by_id)
      BY DEF Truth, Trusted
    <3> QED
      BY <1>1, <3>1, ValidSelfSupporting, TopJustified DEF SelfSupporting, Sound
  <2>4. CASE request.op = "schema"
    BY <1>2, <2>2, <2>4 DEF Claimed, Holds, Truth
  <2>5. CASE request.op = "instance"
    <3>1. /\ InstanceStored(by_id, request.id)
          /\ SchemaSound(by_id, by_id[request.id].type, Truth)
          /\ PayloadConforms(by_id, by_id[request.id].type, by_id[request.id], Truth)
      BY <1>2, <2>2, <2>3, <2>5 DEF Claimed, PayloadType, PayloadDoc
    <3> QED
      BY <2>5, <3>1 DEF Holds, InstanceSound, PayloadSound, InstanceStored, Truth
  <2>6. CASE request.op = "payload"
    <3>1. /\ SchemaSound(by_id, request.id, Truth)
          /\ PayloadConforms(by_id, request.id, request.doc, Truth)
      BY <1>2, <2>2, <2>3, <2>6 DEF Claimed, PayloadType, PayloadDoc
    <3> QED
      BY <2>6, <3>1 DEF Holds, PayloadSound, Truth
  <2> QED
    BY <1>2, <2>4, <2>5, <2>6
<1>4. ASSUME Top.at = "reject"
      PROVE  ~Holds(by_id, request)
  <2>1. Denied(by_id, request, Top, Truth)
    BY <1>1, <1>4, TopJustified DEF Refuted
  <2> QED
    BY <1>2, <2>1 DEF Denied, Holds, Truth
<1>5. AnswerCorrect'
  BY <1>1, <1>3, <1>4 DEF AnswerCorrect
<1>6. ~Running'
  BY <1>1 DEF Running
<1>7. TypeInv'
  BY EndTyped DEF AnswerInv
<1> QED
  BY <1>5, <1>6, <1>7 DEF AnswerInv, Justified, PositiveDocuments

---------------------------------------------------------------------------

LEMMA ChecksJustified ==
    ASSUME AnswerInv,
           \/ CheckInstance \/ CheckPayloadType \/ CheckHead
           \/ OperandMet \/ OperandMissed \/ OperandUnmet
           \/ CheckBody \/ Collect \/ CheckTraits \/ VisitRelated \/ SchemaDone
           \/ CheckPayload
    PROVE  AnswerInv'
BY CheckInstanceJustified, CheckPayloadTypeJustified, CheckHeadJustified,
   OperandMetJustified, OperandMissedJustified, OperandUnmetJustified,
   CheckBodyJustified, CollectJustified, CheckTraitsJustified,
   VisitRelatedJustified, SchemaDoneJustified, CheckPayloadJustified

LEMMA NextJustified ==
    ASSUME AnswerInv, [Next]_vars
    PROVE  AnswerInv'
<1>1. TypeInv'
  BY NextTyped DEF AnswerInv
<1>2. CASE UNCHANGED vars
  <2>1. UNCHANGED <<by_id, request, outcome, stack, validating, verdicts, judged_valid>>
    BY <1>2 DEF vars
  <2>2. Justified'
    <3>1. (Running' <=> Running) /\ (StackShape' <=> StackShape)
      BY <2>1 DEF Running, StackShape
    <3>2. CachesFaithful' <=> CachesFaithful
      BY <2>1 DEF CachesFaithful, JudgedValid
    <3>3. \A k : Trust(k)' = Trust(k) /\ Limit(k)' = Limit(k)
      BY <2>1 DEF Trust, Limit
    <3>4. (LogSupported' <=> LogSupported) /\ (FramesJustified' <=> FramesJustified)
      BY <2>1, <3>3 DEF LogSupported, FramesJustified
    <3> QED
      BY <3>1, <3>2, <3>4 DEF AnswerInv, Justified
  <2> QED
    BY <1>1, <2>1, <2>2 DEF AnswerInv, AnswerCorrect, PositiveDocuments
<1>3. CASE \E req \in Requests : Begin(req)
  BY <1>3, BeginJustified
<1>4. CASE Panic \/ Change
  <2>1. outcome' = "idle"
    BY <1>4 DEF Panic, Change
  <2> QED
    BY <1>1, <2>1 DEF AnswerInv, Justified, AnswerCorrect, Running, PositiveDocuments
<1>5. CASE Answer
  BY <1>5, AnswerJustified
<1>6. CASE Judge \/ LeaveValid \/ LeaveInvalid
  BY <1>6, JudgeJustified, LeaveValidJustified, LeaveInvalidJustified
<1> QED
  BY <1>1, <1>2, <1>3, <1>4, <1>5, <1>6, ChecksJustified DEF Next, Step, Rest

(***************************************************************************)
(* Whatever the documents refer to, in whatever order references are       *)
(* visited, and whatever an earlier or panicked call left in the caches, a *)
(* validation that returns answers what the definition of validity         *)
(* prescribes, provided no document negates an entity reference.           *)
(***************************************************************************)
THEOREM AnswersCorrect ==
    ASSUME PositiveDocuments
    PROVE  Spec => []AnswerCorrect
<1>1. Init => AnswerInv
  BY InitTyped DEF AnswerInv, Init, Justified, Running, AnswerCorrect
<1>2. AnswerInv /\ [Next]_vars => AnswerInv'
  BY NextJustified
<1>3. AnswerInv => AnswerCorrect
  BY DEF AnswerInv
<1> QED
  BY <1>1, <1>2, <1>3, PTL DEF Spec

(* The inductive invariant TLC checks is the one the proof rests on. *)
THEOREM SearchInvariant ==
    ASSUME PositiveDocuments
    PROVE  Spec => []SearchInv
<1>1. Init => AnswerInv
  BY InitTyped DEF AnswerInv, Init, Justified, Running, AnswerCorrect
<1>2. AnswerInv /\ [Next]_vars => AnswerInv'
  BY NextJustified
<1>3. AnswerInv => SearchInv
  BY DEF AnswerInv, SearchInv, TypeInv, Justified
<1> QED
  BY <1>1, <1>2, <1>3, PTL DEF Spec

(* The service reads the registry by the same definition of validity. *)
LEMMA ServiceHolds ==
    ASSUME NEW R, NEW req
    PROVE  Service!Holds(R, req) <=> Holds(R, req)
BY DEF Service!Holds, Service!Trusted, Service!Valid, Service!SelfSupporting,
       Service!Sound, Service!InstanceSound, Service!PayloadSound,
       Service!PayloadConforms, Service!SchemaSound, Service!LocallySound,
       Service!OperandsOK, Service!RefsOK, Service!TraitsOK, Service!BodyOK,
       Service!ChainOK, Service!HeadOK, Service!DialectOK, Service!RelatedTypes,
       Service!Circular, Service!Resolves, Service!Reach, Service!RefsOf,
       Service!IsSchema, Service!Ids,
       Holds, Trusted, Valid, SelfSupporting, Sound, InstanceSound, PayloadSound,
       PayloadConforms, SchemaSound, LocallySound, OperandsOK, RefsOK, TraitsOK,
       BodyOK, ChainOK, HeadOK, DialectOK, RelatedTypes, Circular, Resolves,
       Reach, RefsOf, IsSchema, Ids

(***************************************************************************)
(* The search implements its promise: every step a caller can see is a     *)
(* step of GtsValidationService, the answer included, and all the others   *)
(* leave what the caller sees alone (the safety part of ServiceSpec).      *)
(***************************************************************************)
THEOREM SearchImplementsService ==
    ASSUME PositiveDocuments
    PROVE  Spec => Service!Spec
<1>1. Init => AnswerInv
  BY InitTyped DEF AnswerInv, Init, Justified, Running, AnswerCorrect
<1>2. AnswerInv /\ [Next]_vars => AnswerInv'
  BY NextJustified
<1>3. Init => Service!Init
  BY CallAssumption DEF Init, Service!Init
<1>4. ASSUME AnswerInv, AnswerInv', [Next]_vars
      PROVE  [Service!Next]_(Service!vars)
  <2>1. CASE \E req \in Requests : Begin(req)
    <3>1. PICK req \in Requests : Begin(req)
      BY <2>1
    <3>2. Service!Begin(req)
      BY <3>1 DEF Begin, Running, Service!Begin
    <3> QED
      BY <3>2 DEF Service!Next
  <2>2. CASE Answer
    <3>1. /\ outcome = "running" /\ UNCHANGED <<by_id, request, calls>>
          /\ outcome' \in {"accepted", "rejected"}
      BY <2>2 DEF Answer, Running
    <3>2. outcome' = "accepted" <=> Holds(by_id, request)
      BY <1>4, <3>1 DEF AnswerInv, AnswerCorrect
    <3>3. Service!Answer
      BY <3>1, <3>2, ServiceHolds DEF Service!Answer
    <3> QED
      BY <3>3 DEF Service!Next
  <2>3. CASE Panic
    BY <2>3 DEF Panic, Running, Service!Next, Service!Panic
  <2>4. CASE Change
    BY <2>4 DEF Change, Running, Service!Next, Service!Change
  <2>5. CASE UNCHANGED caller
    BY <2>5 DEF caller, Service!vars
  <2>6. Judge \/ LeaveValid \/ LeaveInvalid => UNCHANGED caller
    BY DEF Judge, LeaveValid, LeaveInvalid
  <2>7. /\ CheckInstance \/ CheckPayloadType \/ CheckHead => UNCHANGED caller
        /\ OperandMet \/ OperandMissed \/ OperandUnmet => UNCHANGED caller
        /\ CheckBody \/ Collect \/ CheckTraits => UNCHANGED caller
        /\ VisitRelated \/ SchemaDone \/ CheckPayload => UNCHANGED caller
    BY DEF CheckInstance, CheckPayloadType, CheckHead, OperandMet, OperandMissed,
           OperandUnmet, CheckBody, Collect, CheckTraits, VisitRelated, SchemaDone,
           CheckPayload, Go, Continue
  <2>8. UNCHANGED vars => UNCHANGED caller
    BY DEF vars, caller
  <2> QED
    BY <1>4, <2>1, <2>2, <2>3, <2>4, <2>5, <2>6, <2>7, <2>8 DEF Next, Step, Rest
<1> QED
  BY <1>1, <1>2, <1>3, <1>4, PTL DEF Spec, Service!Spec

---------------------------------------------------------------------------
(* What the verdicts of a search that is back at its first frame rest on.  *)

LEMMA LogStands ==
    ASSUME AnswerInv, CacheInv, Running, Len(stack) = 1
    PROVE  /\ SelfSupporting(by_id, JudgedValid)
           /\ JudgedValid \subseteq Valid(by_id) /\ JudgedValid \in SUBSET Ids
<1>1. JudgedValid \subseteq DOMAIN by_id
  BY DEF AnswerInv, Justified, CachesFaithful, JudgedValid
<1>2. JudgedValid \in SUBSET Ids
  BY <1>1 DEF AnswerInv, TypeInv, TypeOK, IsRegistry
<1>3. SelfSupporting(by_id, JudgedValid)
  <2>1. CASE request.mode # "any-valid"
    <3>1. JudgedValid = {}
      BY <2>1 DEF CacheInv, CachesUnused, JudgedValid
    <3> QED
      BY <3>1 DEF SelfSupporting
  <2>2. CASE request.mode = "any-valid"
    <3>1. /\ DOMAIN judged_valid = 1 .. Len(judged_valid) /\ 1 \in DOMAIN stack
          /\ stack \in Seq(Frame)
      BY LenProperties DEF AnswerInv, TypeInv, TypeOK
    <3>2. Trust(1) = JudgedValid /\ Limit(1) = Len(judged_valid)
      <4>1. {stack[k].id : k \in 2 .. 1} = {}
        OBVIOUS
      <4> QED
        BY <2>2, <3>1, <4>1 DEF Trust, Limit, JudgedValid
    <3>3. \A id \in JudgedValid : Claimed(by_id, request, Opened(OpOf(id), id, 0), JudgedValid)
      BY <3>1, <3>2 DEF AnswerInv, Justified, LogSupported, JudgedValid
    <3> QED
      BY <1>2, <3>3, ClaimsSupport
  <2> QED
    BY <2>1, <2>2
<1> QED
  BY <1>1, <1>2, <1>3, ValidGreatest

LEMMA VerdictsOnLog ==
    ASSUME AnswerInv, CacheInv
    PROVE  VerdictsJustified
<1> SUFFICES ASSUME Running, Len(stack) = 1, NEW id \in Ids, verdicts[id] # "unknown"
             PROVE  verdicts[id] = "valid" <=> Sound(by_id, id, JudgedValid)
  BY DEF VerdictsJustified
<1>1. /\ SelfSupporting(by_id, JudgedValid)
      /\ JudgedValid \subseteq Valid(by_id) /\ JudgedValid \in SUBSET Ids
  BY LogStands
<1>2. CASE verdicts[id] = "valid"
  <2>1. id \in JudgedValid
    BY <1>2 DEF CacheInv, CachesAgree
  <2> QED
    BY <1>1, <1>2, <2>1 DEF SelfSupporting
<1>3. CASE verdicts[id] # "valid"
  <2>1. verdicts[id] = "invalid"
    BY <1>3 DEF AnswerInv, TypeInv, TypeOK
  <2>2. id \notin Valid(by_id)
    BY <2>1 DEF AnswerInv, Justified, CachesFaithful
  <2>3. ASSUME Sound(by_id, id, JudgedValid)
        PROVE  FALSE
    <3>1. PositiveRegistry(by_id)
      BY DEF AnswerInv, TypeInv, PositiveDocuments
    <3>2. Sound(by_id, id, Valid(by_id))
      BY <1>1, <2>3, <3>1, SoundMonotone
    <3>3. id \in DOMAIN by_id
      BY <3>2 DEF Sound, SchemaSound, LocallySound, IsSchema, InstanceSound
    <3>4. id \in Valid(by_id)
      BY <3>1, <3>2, <3>3, SoundIsValid
    <3> QED
      BY <2>2, <3>4
  <2> QED
    BY <1>3, <2>3
<1> QED
  BY <1>2, <1>3

(* Once no judgement is on the stack, no cached verdict rests on an entity *)
(* that was only assumed valid to cut a cycle: each is what its document   *)
(* deserves by the other verdicts, as entity_is_valid promises, provided   *)
(* no document negates a reference (VerdictsJustified).                    *)
THEOREM VerdictsStand ==
    ASSUME PositiveDocuments
    PROVE  Spec => []VerdictsJustified
<1>1. Init => AnswerInv /\ CacheInv
  BY InitTyped, InitCaches DEF AnswerInv, Init, Justified, Running, AnswerCorrect
<1>2. AnswerInv /\ CacheInv /\ [Next]_vars => AnswerInv' /\ CacheInv'
  BY NextJustified, NextCaches
<1>3. AnswerInv /\ CacheInv => VerdictsJustified
  BY VerdictsOnLog
<1> QED
  BY <1>1, <1>2, <1>3, PTL DEF Spec

(* An entity is refused only if it is not valid, under no assumption at    *)
(* all: a cycle that is cut, and its withdrawal, leave no entity invalid   *)
(* that is valid, provided no document negates a reference                 *)
(* (InvalidDeserved).                                                      *)
THEOREM InvalidVerdictsDeserved ==
    ASSUME PositiveDocuments
    PROVE  Spec => []InvalidDeserved
<1>1. Init => AnswerInv
  BY InitTyped DEF AnswerInv, Init, Justified, Running, AnswerCorrect
<1>2. AnswerInv /\ [Next]_vars => AnswerInv'
  BY NextJustified
<1>3. AnswerInv => InvalidDeserved
  BY DEF AnswerInv, Justified, CachesFaithful, InvalidDeserved
<1> QED
  BY <1>1, <1>2, <1>3, PTL DEF Spec
=============================================================================
