--------------------------- MODULE GtsValidation ---------------------------
(***************************************************************************)
(* The validator of GtsStore (store.rs): a depth-first search over entity  *)
(* references with a cache of verdicts.                                    *)
(*                                                                         *)
(* Judging one entity may require judging another, and reference cycles    *)
(* are legal.  The code recurses; here the call stack is explicit, one     *)
(* frame per running entity_is_valid call below the frame of the top-level *)
(* call, so that every state between two registry reads is visible.        *)
(*                                                                         *)
(*   validating    ids whose judgement is on the stack; meeting one again  *)
(*                 counts as valid                                         *)
(*   verdicts      what was decided during this top-level validation       *)
(*   judged_valid  the ids cached as valid, in the order they were decided *)
(*                                                                         *)
(* The order in which related types, wildcard matches and candidate values *)
(* are visited (BTreeSet order of the ids, HashMap order for wildcards) is *)
(* left open.  The store has no lazy reader here (FileReader has none).    *)
(***************************************************************************)
EXTENDS GtsValidity

CONSTANTS
    Registries,   \* the registries a validation may run against
    Requests,     \* the top-level validations a caller may ask for
    MaxCalls      \* bound: top-level validations in one behaviour

Request ==
    [op : {"schema", "instance"}, id : Ids, mode : Modes]
        \cup [op : {"payload"}, id : Ids, mode : Modes, doc : Document]

ASSUME CallAssumption ==
    /\ \A R \in Registries : IsRegistry(R)
    /\ Requests \subseteq Request
    /\ Requests # {}
    /\ \A req \in Requests : req.op = "payload" => IsDocument(req.doc)
    /\ MaxCalls \in Nat

VARIABLES
    by_id,        \* the registered entities
    request,      \* the top-level call being served, or the last one served
    outcome,      \* "idle", "running", "accepted" or "rejected"
    calls,        \* top-level calls made so far
    stack,        \* call stack, the top-level frame first
    validating,
    verdicts,
    judged_valid

vars == <<by_id, request, outcome, calls, stack, validating, verdicts, judged_valid>>
caches == <<validating, verdicts, judged_valid>>
caller == <<by_id, request, outcome, calls>>

---------------------------------------------------------------------------
(***************************************************************************)
(* Frames.                                                                 *)
(*   op, id    what is judged: a type, an instance, or the payload of the  *)
(*             request against type id                                     *)
(*   mark      length of judged_valid when the judgement began             *)
(*   at        next thing to do                                            *)
(*   cur       the type validate_schema_locally works on                   *)
(*   seen      types already visited; todo: related types still to visit   *)
(*   operands  operands of cur still to satisfy, the current one first     *)
(*   asks      references of the running loop not asked about yet          *)
(*   asking    the reference being judged by the frame above, or NoType    *)
(*   unsat     references of the running loop found unsatisfied            *)
(***************************************************************************)
Frame ==
    [op : {"schema", "instance", "payload"}, id : Ids, mark : Nat,
     at : {"instance", "type", "local", "operands", "body", "values",
           "related", "payload", "accept", "reject"},
     cur : Ids, seen : SUBSET Ids, todo : SUBSET Ids,
     operands : Seq(SUBSET Ids), asks : SUBSET Ids,
     asking : Ids \cup {NoType}, unsat : SUBSET Ids]

Opened(op, id, mark) ==
    [op |-> op, id |-> id, mark |-> mark,
     at |-> IF op = "schema" THEN "local"
            ELSE IF op = "instance" THEN "instance" ELSE "type",
     cur |-> id, seen |-> IF op = "schema" THEN {id} ELSE {}, todo |-> {},
     operands |-> <<>>, asks |-> {}, asking |-> NoType, unsat |-> {}]

Top == stack[Len(stack)]
Running == outcome = "running"
At(stage) == Running /\ Top.at = stage

(* The running function continues as frame f and touches nothing else. *)
Continue(f) ==
    /\ stack' = [stack EXCEPT ![Len(stack)] = f]
    /\ UNCHANGED <<caller, caches>>

Go(stage) == Continue([Top EXCEPT !.at = stage])

(* The type and the document an instance or payload frame checks. *)
PayloadType(R, f) == IF f.op = "payload" THEN f.id ELSE R[f.id].type
PayloadDoc(R, req, f) == IF f.op = "payload" THEN req.doc ELSE R[f.id]

(* Frame f about to validate type t locally. *)
Visiting(f, t) ==
    [f EXCEPT !.at = "local", !.cur = t, !.seen = @ \cup {t}, !.todo = @ \ {t}]

(* Frame f about to satisfy the operands ops, or past them. *)
Facing(f, ops) ==
    [f EXCEPT !.at = IF ops = <<>> THEN "body" ELSE "operands",
              !.operands = ops,
              !.asks = IF ops = <<>> THEN {} ELSE Head(ops) \cap DOMAIN by_id,
              !.asking = NoType]

(* Frame f about to collect the unsatisfied references among values. *)
Collecting(f, stage, values) ==
    [f EXCEPT !.at = stage, !.asks = values, !.asking = NoType, !.unsat = {}]

---------------------------------------------------------------------------
(* What a reference comes to: decided either way, or still to be judged.   *)

Satisfied(r) ==
    \/ request.mode = "none"
    \/ /\ r \in DOMAIN by_id
       /\ \/ request.mode = "any-present"
          \/ verdicts[r] = "valid"
          \/ verdicts[r] = "unknown" /\ r \in validating

Unsatisfied(r) ==
    /\ request.mode # "none"
    /\ \/ r \notin DOMAIN by_id
       \/ request.mode = "any-valid" /\ verdicts[r] = "invalid"

Undecided(r) == ~Satisfied(r) /\ ~Unsatisfied(r)

(* The reference the running loop asks about: the one just judged, if any. *)
Asked(f) == IF f.asking = NoType THEN f.asks ELSE {f.asking}

Settled(f, r) == [f EXCEPT !.asks = @ \ {r}, !.asking = NoType]

---------------------------------------------------------------------------
(* Top-level calls. *)

Init ==
    /\ by_id \in Registries
    /\ request = CHOOSE req \in Requests : TRUE
    /\ outcome = "idle"
    /\ calls = 0
    /\ stack = <<>>
    /\ validating = {}
    /\ verdicts = [id \in Ids |-> "unknown"]
    /\ judged_valid = <<>>

(* Slip: verdicts survive into the next call. *)
BeginKeepingVerdicts(req) ==
    /\ ~Running
    /\ calls < MaxCalls
    /\ calls' = calls + 1
    /\ request' = req
    /\ outcome' = "running"
    /\ stack' = <<Opened(req.op, req.id, 0)>>
    /\ validating' = {}
    /\ judged_valid' = <<>>
    /\ UNCHANGED <<by_id, verdicts>>

(* validate_schema_with, validate_instance_with, validate_payload_with. *)
Begin(req) ==
    /\ ~Running
    /\ calls < MaxCalls
    /\ calls' = calls + 1
    /\ request' = req
    /\ outcome' = "running"
    /\ stack' = <<Opened(req.op, req.id, 0)>>
    /\ validating' = {}
    /\ verdicts' = [id \in Ids |-> "unknown"]
    /\ judged_valid' = <<>>
    /\ UNCHANGED by_id

(* The registry changes between two calls; the caches stay as they are.    *)
Change ==
    /\ ~Running
    /\ calls \in 1 .. MaxCalls - 1
    /\ by_id' \in Registries \ {by_id}
    /\ outcome' = "idle"
    /\ UNCHANGED <<request, calls, stack, caches>>

(* A panic inside a validation is caught further out (with_transient_entity *)
(* or the caller); the caches keep what the unwound calls left in them.    *)
Panic ==
    /\ Running
    /\ calls < MaxCalls
    /\ outcome' = "idle"
    /\ stack' = <<>>
    /\ UNCHANGED <<by_id, request, calls, caches>>

(* No further call is made. *)
Rest == ~Running /\ calls = MaxCalls /\ UNCHANGED vars

---------------------------------------------------------------------------
(* check_instance: the id names a stored instance with a type. *)
CheckInstance ==
    /\ At("instance")
    /\ IF /\ Top.id \in DOMAIN by_id
          /\ ~by_id[Top.id].is_schema
          /\ by_id[Top.id].type # NoType
       THEN Go("type")
       ELSE Go("reject")

(* check_payload, up to the type: it is a concrete schema, and validated    *)
(* unless its judgement is already on the stack.                           *)
CheckPayloadType ==
    /\ At("type")
    /\ LET t == PayloadType(by_id, Top) IN
       IF ~IsSchema(by_id, t) \/ by_id[t].is_abstract
       THEN Go("reject")
       ELSE IF t \in validating
            THEN Continue(Collecting(Top, "payload",
                                     PayloadDoc(by_id, request, Top).candidates))
            ELSE Continue(Visiting(Top, t))

(* validate_schema_locally, up to the entity-reference operands.  Operand   *)
(* targets are not looked up when the policy ignores the registry.         *)
CheckHead ==
    /\ At("local")
    /\ IF IsSchema(by_id, Top.cur) /\ HeadOK(by_id, Top.cur)
       THEN Continue(Facing(Top, IF request.mode = "none"
                                 THEN <<>> ELSE by_id[Top.cur].operands))
       ELSE Go("reject")

(* check_constraint_targets: one match of the operand satisfies it... *)
OperandMet ==
    /\ At("operands")
    /\ \E r \in Asked(Top) :
          /\ Satisfied(r)
          /\ Continue(Facing(Top, Tail(Top.operands)))

(* ... a match that is not valid leaves it to the others... *)
OperandMissed ==
    /\ At("operands")
    /\ \E r \in Asked(Top) :
          /\ Unsatisfied(r)
          /\ Continue(Settled(Top, r))

(* ... and without any left the type is invalid. *)
OperandUnmet ==
    /\ At("operands")
    /\ Asked(Top) = {}
    /\ Go("reject")

(* Chain, $ref resolution, meta-schema and compilation. *)
CheckBody ==
    /\ At("body")
    /\ IF BodyOK(by_id, Top.cur)
       THEN Continue(Collecting(Top, "values", by_id[Top.cur].candidates))
       ELSE Go("reject")

(* unsatisfied_references: every candidate is asked about, in both places   *)
(* it is called from; none of them ends the loop early.                    *)
Collect ==
    /\ At("values") \/ At("payload")
    /\ \E r \in Asked(Top) :
          \/ Satisfied(r) /\ Continue(Settled(Top, r))
          \/ Unsatisfied(r) /\ Continue([Settled(Top, r) EXCEPT !.unsat = @ \cup {r}])

(* Slip: a type already visited is visited again. *)
CheckTraitsRevisiting ==
    /\ At("values")
    /\ Asked(Top) = {}
    /\ LET doc == by_id[Top.cur] IN
       IF TraitsOK(by_id, Top.cur) /\ RefsOK(doc, doc.candidates \ Top.unsat)
       THEN Continue([Top EXCEPT !.at = "related",
                                 !.todo = @ \cup RelatedTypes(by_id, Top.cur)])
       ELSE Go("reject")

(* The trait values against the trait schema; then the related types. *)
CheckTraits ==
    /\ At("values")
    /\ Asked(Top) = {}
    /\ LET doc == by_id[Top.cur] IN
       IF TraitsOK(by_id, Top.cur) /\ RefsOK(doc, doc.candidates \ Top.unsat)
       THEN Continue([Top EXCEPT !.at = "related",
                                 !.todo = @ \cup (RelatedTypes(by_id, Top.cur) \ Top.seen)])
       ELSE Go("reject")

(* validate_related_types: the next type not visited yet. *)
VisitRelated ==
    /\ At("related")
    /\ \E u \in Top.todo : Continue(Visiting(Top, u))

(* Slip: the types it builds on are left unvisited. *)
SchemaDoneEarly ==
    /\ At("related")
    /\ IF Top.op = "schema"
       THEN Go("accept")
       ELSE Continue(Collecting(Top, "payload",
                                PayloadDoc(by_id, request, Top).candidates))

(* check_schema returns Ok: the judgement ends, or turns to the payload. *)
SchemaDone ==
    /\ At("related")
    /\ Top.todo = {}
    /\ IF Top.op = "schema"
       THEN Go("accept")
       ELSE Continue(Collecting(Top, "payload",
                                PayloadDoc(by_id, request, Top).candidates))

(* The payload against the compiled type. *)
CheckPayload ==
    /\ At("payload")
    /\ Asked(Top) = {}
    /\ LET doc == PayloadDoc(by_id, request, Top) IN
       IF PayloadConforms(by_id, PayloadType(by_id, Top), doc, doc.candidates \ Top.unsat)
       THEN Go("accept")
       ELSE Go("reject")

---------------------------------------------------------------------------
(* entity_is_valid: entering and leaving one judgement, and the end of the *)
(* top-level call.                                                         *)

OpOf(id) == IF id \in TypeIds THEN "schema" ELSE "instance"

(* Slip: the entity is not marked as being validated. *)
JudgeUnmarked ==
    /\ At("operands") \/ At("values") \/ At("payload")
    /\ \E r \in Asked(Top) :
          /\ Undecided(r)
          /\ stack' = Append([stack EXCEPT ![Len(stack)].asking = r],
                             Opened(OpOf(r), r, Len(judged_valid)))
    /\ UNCHANGED <<caller, validating, verdicts, judged_valid>>

(* Slip: every verdict of the call counts as reached below this judgement. *)
JudgeFromScratch ==
    /\ At("operands") \/ At("values") \/ At("payload")
    /\ \E r \in Asked(Top) :
          /\ Undecided(r)
          /\ validating' = validating \cup {r}
          /\ stack' = Append([stack EXCEPT ![Len(stack)].asking = r],
                             Opened(OpOf(r), r, 0))
    /\ UNCHANGED <<caller, verdicts, judged_valid>>

Judge ==
    /\ At("operands") \/ At("values") \/ At("payload")
    /\ \E r \in Asked(Top) :
          /\ Undecided(r)
          /\ validating' = validating \cup {r}
          /\ stack' = Append([stack EXCEPT ![Len(stack)].asking = r],
                             Opened(OpOf(r), r, Len(judged_valid)))
    /\ UNCHANGED <<caller, verdicts, judged_valid>>

(* A judgement below the top-level call. *)
Nested == Running /\ Len(stack) > 1

LeaveValid ==
    /\ Nested
    /\ Top.at = "accept"
    /\ stack' = SubSeq(stack, 1, Len(stack) - 1)
    /\ validating' = validating \ {Top.id}
    /\ judged_valid' = Append(judged_valid, Top.id)
    /\ verdicts' = [verdicts EXCEPT ![Top.id] = "valid"]
    /\ UNCHANGED caller

(* Verdicts reached since this judgement began may rest on it. *)
Withdrawn(mark) == {judged_valid[k] : k \in mark + 1 .. Len(judged_valid)}

(* Slip: the log is drained, the verdicts stay. *)
LeaveInvalidKeeping ==
    /\ Nested
    /\ Top.at = "reject"
    /\ stack' = SubSeq(stack, 1, Len(stack) - 1)
    /\ validating' = validating \ {Top.id}
    /\ judged_valid' = SubSeq(judged_valid, 1, Top.mark)
    /\ verdicts' = [verdicts EXCEPT ![Top.id] = "invalid"]
    /\ UNCHANGED caller

(* Slip: nothing is withdrawn. *)
LeaveInvalidTrusting ==
    /\ Nested
    /\ Top.at = "reject"
    /\ stack' = SubSeq(stack, 1, Len(stack) - 1)
    /\ validating' = validating \ {Top.id}
    /\ verdicts' = [verdicts EXCEPT ![Top.id] = "invalid"]
    /\ UNCHANGED <<caller, judged_valid>>

(* Slip: what rested on the entity is invalid with it. *)
LeaveInvalidCondemning ==
    /\ Nested
    /\ Top.at = "reject"
    /\ stack' = SubSeq(stack, 1, Len(stack) - 1)
    /\ validating' = validating \ {Top.id}
    /\ judged_valid' = SubSeq(judged_valid, 1, Top.mark)
    /\ verdicts' = [id \in Ids |-> IF id \in {Top.id} \cup Withdrawn(Top.mark)
                                   THEN "invalid" ELSE verdicts[id]]
    /\ UNCHANGED caller

LeaveInvalid ==
    /\ Nested
    /\ Top.at = "reject"
    /\ stack' = SubSeq(stack, 1, Len(stack) - 1)
    /\ validating' = validating \ {Top.id}
    /\ judged_valid' = SubSeq(judged_valid, 1, Top.mark)
    /\ verdicts' = [id \in Ids |-> IF id = Top.id THEN "invalid"
                                   ELSE IF id \in Withdrawn(Top.mark) THEN "unknown"
                                   ELSE verdicts[id]]
    /\ UNCHANGED caller

Answer ==
    /\ Running
    /\ Len(stack) = 1
    /\ Top.at \in {"accept", "reject"}
    /\ outcome' = IF Top.at = "accept" THEN "accepted" ELSE "rejected"
    /\ stack' = <<>>
    /\ UNCHANGED <<by_id, request, calls, caches>>

---------------------------------------------------------------------------
Step ==
    \/ CheckInstance \/ CheckPayloadType \/ CheckHead
    \/ OperandMet \/ OperandMissed \/ OperandUnmet
    \/ CheckBody \/ Collect \/ CheckTraits \/ VisitRelated \/ SchemaDone
    \/ CheckPayload
    \/ Judge \/ LeaveValid \/ LeaveInvalid \/ Answer

Next ==
    \/ \E req \in Requests : Begin(req)
    \/ Change \/ Panic \/ Rest
    \/ Step

Spec == Init /\ [][Next]_vars

(* A validation that runs keeps running: it is one synchronous call. *)
FairSpec == Spec /\ WF_vars(Step)
---------------------------------------------------------------------------
(* Properties. *)

TypeOK ==
    /\ IsRegistry(by_id)
    /\ request \in Requests
    /\ outcome \in {"idle", "running", "accepted", "rejected"}
    /\ calls \in 0 .. MaxCalls
    /\ stack \in Seq(Frame)
    /\ validating \subseteq Ids
    /\ verdicts \in [Ids -> {"unknown", "valid", "invalid"}]
    /\ judged_valid \in Seq(Ids)
    /\ Running <=> stack # <<>>

(* A finished validation answers what the greatest-fixpoint definition of  *)
(* validity prescribes, whatever cycles the search cut, in whatever order  *)
(* it asked, and whatever an earlier call left in the caches (check_schema,*)
(* check_instance, check_payload, entity_is_valid).                        *)
AnswerCorrect ==
    outcome \in {"accepted", "rejected"}
        => (outcome = "accepted" <=> Holds(by_id, request))

JudgedValid == {judged_valid[k] : k \in DOMAIN judged_valid}

(* Once no judgement is on the stack, every cached verdict is the one its  *)
(* document deserves by the other cached verdicts: none rests on an entity *)
(* that was assumed valid to cut a cycle and then failed                   *)
(* (entity_is_valid: "withdrawn if that assumption fails").                *)
VerdictsJustified ==
    (Running /\ Len(stack) = 1) =>
        \A id \in Ids : verdicts[id] # "unknown" =>
            (verdicts[id] = "valid" <=> Sound(by_id, id, JudgedValid))

(* The log of valid verdicts and the verdict map agree at every step, so   *)
(* draining the log withdraws exactly the verdicts it should; an entity    *)
(* whose judgement runs has no verdict yet.                                *)
CachesAgree ==
    Running =>
        /\ \A id \in Ids : verdicts[id] = "valid" <=> id \in JudgedValid
        /\ \A j, k \in DOMAIN judged_valid :
              judged_valid[j] = judged_valid[k] => j = k
        /\ \A id \in validating : verdicts[id] = "unknown"

(* No entity is judged inside its own judgement, so the recursion is never *)
(* deeper than the registry; validating holds exactly the entities judged  *)
(* below the top-level call.                                               *)
NoReentry ==
    Running =>
        /\ validating = {stack[k].id : k \in 2 .. Len(stack)}
        /\ \A j, k \in 2 .. Len(stack) : stack[j].id = stack[k].id => j = k

(* An entity is called invalid only if it is not valid, also while cycles  *)
(* are cut and for what was looked at under an assumption that failed: such *)
(* an entity is undecided again (entity_is_valid).  For documents without  *)
(* a negated reference.                                                    *)
InvalidDeserved ==
    Running => \A id \in Ids : verdicts[id] = "invalid" => id \notin Valid(by_id)

(* Every validation ends, however the documents refer to each other.       *)
Terminates == Running ~> ~Running

(* The search implements the one-step promise. *)
Service == INSTANCE GtsValidationService

ServiceSpec == Service!FairSpec
---------------------------------------------------------------------------
(***************************************************************************)
(* The invariant that makes the search correct.                            *)
(*                                                                         *)
(* Trust(k) is what frame k may rely on: the verdicts logged before the    *)
(* judgement above it began, and the entities being judged from the top of *)
(* the search down to k, assumed valid.  Whatever the log holds up to that *)
(* point is supported by exactly that set, so dropping the assumption and  *)
(* everything logged since leaves a log that still supports itself.        *)
(***************************************************************************)
Limit(k) == IF k = Len(stack) THEN Len(judged_valid) ELSE stack[k + 1].mark

Trust(k) ==
    IF request.mode = "any-valid"
    THEN {judged_valid[j] : j \in 1 .. Limit(k)} \cup {stack[j].id : j \in 2 .. k}
    ELSE Trusted(by_id, request.mode)

(* A type already on the stack is not validated again by check_payload.    *)
TypeBacked(R, req, t, X) ==
    \/ req.mode = "any-valid" /\ t \in TypeIds \cap X
    \/ SchemaSound(R, t, X)

InstanceStored(R, id) == id \in DOMAIN R /\ ~R[id].is_schema /\ R[id].type # NoType

(* What accepting frame f claims, and what rejecting it denies. *)
Claimed(R, req, f, X) ==
    IF f.op = "schema" THEN SchemaSound(R, f.id, X)
    ELSE /\ f.op = "instance" => InstanceStored(R, f.id)
         /\ TypeBacked(R, req, PayloadType(R, f), X)
         /\ PayloadConforms(R, PayloadType(R, f), PayloadDoc(R, req, f), X)

Denied(R, req, f, X) ==
    ~ /\ f.op = "schema" => SchemaSound(R, f.id, X)
      /\ f.op = "instance" => InstanceSound(R, f.id, X)
      /\ f.op = "payload" => PayloadSound(R, f.id, req.doc, X)

RootType(R, f) == IF f.op = "schema" THEN f.id ELSE PayloadType(R, f)

InType(f) == f.at \in {"local", "operands", "body", "values"}

(* What the stage of frame f says about it. *)
FrameShape(R, req, f) ==
    /\ f.op = "payload" => req.op = "payload"
    /\ f.op = "schema" => f.at \notin {"instance", "type", "payload"}
    /\ f.at = "instance" => f.op = "instance"
    /\ f.op = "instance" /\ f.at \notin {"instance", "reject"} => InstanceStored(R, f.id)
    /\ f.at \in {"instance", "type"} => f.seen = {} /\ f.todo = {}
    /\ InType(f) => f.cur \in f.seen
    /\ f.at \in {"operands", "body", "values"} => IsSchema(R, f.cur)
    /\ f.at = "operands" => req.mode # "none" /\ f.operands # <<>>
    /\ f.asking \in f.asks \cup {NoType}

(* Frame f is still walking through the types it builds on... *)
Exploring(f) == InType(f) \/ f.at = "related"

(* ... and is done with these. *)
Examined(f) == IF InType(f) THEN f.seen \ {f.cur} ELSE f.seen

(* What frame f has established, relying on X. *)
Earned(R, req, f, X) ==
    /\ Exploring(f) =>
          /\ RootType(R, f) \in f.seen
          /\ \A u \in Examined(f) :
                LocallySound(R, u, X) /\ RelatedTypes(R, u) \subseteq f.seen \cup f.todo
    /\ f.at \in {"operands", "body", "values"} => HeadOK(R, f.cur)
    /\ f.at = "operands" =>
          \A k \in DOMAIN R[f.cur].operands :
              \/ R[f.cur].operands[k] \cap X # {}
              \/ \E j \in DOMAIN f.operands : f.operands[j] = R[f.cur].operands[k]
    /\ f.at \in {"body", "values"} => OperandsOK(R, f.cur, X)
    /\ f.at = "values" =>
          BodyOK(R, f.cur) /\ R[f.cur].candidates \ (f.asks \cup f.unsat) \subseteq X
    /\ f.at = "payload" =>
          /\ TypeBacked(R, req, PayloadType(R, f), X)
          /\ PayloadDoc(R, req, f).candidates \ (f.asks \cup f.unsat) \subseteq X
    /\ f.at = "accept" => Claimed(R, req, f, X)

(* What frame f has ruled out of the trusted set V. *)
Refuted(R, req, f, V) ==
    /\ f.unsat \cap V = {}
    /\ f.at = "operands" =>
          /\ \A j \in DOMAIN f.operands :
                \E k \in DOMAIN R[f.cur].operands : f.operands[j] = R[f.cur].operands[k]
          /\ f.asks \subseteq Head(f.operands)
          /\ Head(f.operands) \cap V \subseteq f.asks
    /\ Exploring(f) => \A C \in SUBSET TypeIds :
          (RootType(R, f) \in C /\ \A u \in C : RelatedTypes(R, u) \subseteq C)
              => f.seen \cup f.todo \subseteq C
    /\ f.at = "reject" => Denied(R, req, f, V)

FramesShaped == \A k \in DOMAIN stack : FrameShape(by_id, request, stack[k])

FramesJustified ==
    \A k \in DOMAIN stack :
        /\ Earned(by_id, request, stack[k], Trust(k))
        /\ Refuted(by_id, request, stack[k], Trusted(by_id, request.mode))

LogSupported ==
    \A k \in DOMAIN stack : \A j \in 1 .. Limit(k) :
        Claimed(by_id, request, Opened(OpOf(judged_valid[j]), judged_valid[j], 0), Trust(k))

StackShape ==
    /\ stack[1].op = request.op
    /\ stack[1].id = request.id
    /\ Len(stack) > 1 => request.mode = "any-valid"
    /\ \A k \in 2 .. Len(stack) :
          /\ stack[k].op = OpOf(stack[k].id)
          /\ stack[k].id \in DOMAIN by_id

(* The log never shrinks below where a running judgement began. *)
MarksOrdered ==
    \A k \in DOMAIN stack :
        /\ stack[k].mark <= Len(judged_valid)
        /\ \A j \in 1 .. k : stack[j].mark <= stack[k].mark

CachesFaithful ==
    /\ \A k \in DOMAIN judged_valid : judged_valid[k] \in DOMAIN by_id
    /\ \A id \in Ids : verdicts[id] = "valid" => id \in JudgedValid
    /\ \A id \in Ids : verdicts[id] = "invalid" => id \notin Valid(by_id)
    /\ validating \subseteq {stack[k].id : k \in 2 .. Len(stack)}

(* The inductive invariant, for documents without a negated reference. *)
SearchInv ==
    /\ TypeOK
    /\ Running => /\ FramesShaped
                  /\ MarksOrdered
                  /\ StackShape
                  /\ CachesFaithful
                  /\ LogSupported
                  /\ FramesJustified
    /\ AnswerCorrect
============================================================================
