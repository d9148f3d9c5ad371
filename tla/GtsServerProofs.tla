-------------------------- MODULE GtsServerProofs ---------------------------
(***************************************************************************)
(* Proofs about the server: handlers on different threads are atomic to    *)
(* each other, and a client may repeat what was accepted, when no document *)
(* negates a reference.                                                    *)
(***************************************************************************)
EXTENDS GtsServer, GtsStoreProofs

---------------------------------------------------------------------------
(* What the service says of the registry, in the terms of this module.     *)

LEMMA ServiceHolds ==
    ASSUME NEW R, NEW req
    PROVE  Service!Holds(R, req) <=> Holds(R, req)
BY DEF Service!Holds, Service!Trusted, Service!Valid, Service!SelfSupporting,
       Service!Sound, Service!InstanceSound, Service!PayloadSound,
       Service!PayloadConforms, Service!SchemaSound, Service!LocallySound,
       Service!OperandsOK, Service!RefsOK, Service!TraitsOK, Service!BodyOK,
       Service!ChainOK, Service!HeadOK, Service!DialectOK, Service!RelatedTypes,
       Service!Circular, Service!Resolves, Service!Reach, Service!RefsOf,
       Service!IsSchema, Service!Ids,
       Holds, Trusted, Valid, SelfSupporting, Sound, InstanceSound, PayloadSound,
       PayloadConforms, SchemaSound, LocallySound, OperandsOK, RefsOK, TraitsOK,
       BodyOK, ChainOK, HeadOK, DialectOK, RelatedTypes, Circular, Resolves,
       Reach, RefsOf, IsSchema, Ids

LEMMA ServiceRegistryHolds ==
    ASSUME NEW R, NEW req
    PROVE  Service!Registry!Holds(R, req) <=> Holds(R, req)
BY DEF Service!Registry!Holds, Service!Registry!Trusted, Service!Registry!Valid,
       Service!Registry!SelfSupporting,
       Service!Registry!Sound, Service!Registry!InstanceSound, Service!Registry!PayloadSound,
       Service!Registry!PayloadConforms, Service!Registry!SchemaSound, Service!Registry!LocallySound,
       Service!Registry!OperandsOK, Service!Registry!RefsOK, Service!Registry!TraitsOK,
       Service!Registry!BodyOK, Service!Registry!ChainOK, Service!Registry!HeadOK,
       Service!Registry!DialectOK, Service!Registry!RelatedTypes,
       Service!Registry!Circular, Service!Registry!Resolves, Service!Registry!Reach,
       Service!Registry!RefsOf, Service!Registry!IsSchema, Service!Registry!Ids,
       Holds, Trusted, Valid, SelfSupporting, Sound, InstanceSound, PayloadSound,
       PayloadConforms, SchemaSound, LocallySound, OperandsOK, RefsOK, TraitsOK,
       BodyOK, ChainOK, HeadOK, DialectOK, RelatedTypes, Circular, Resolves,
       Reach, RefsOf, IsSchema, Ids

LEMMA ServiceEffect ==
    ASSUME NEW R, NEW c
    PROVE  Service!Registry!Effect(R, c) = Registry!Effect(R, c)
<1>1. \A S : Service!Registry!Standing(R, c, S) <=> Registry!Standing(R, c, S)
  BY ServiceRegistryHolds, RegistryHolds
     DEF Service!Registry!Standing, Service!Registry!Passes, Service!Registry!Subject,
         Service!Registry!Added,
         Registry!Standing, Registry!Passes, Registry!Subject, Registry!Added
<1>2. Service!Registry!Candidates(R, c) = Registry!Candidates(R, c)
  BY DEF Service!Registry!Candidates, Service!Registry!Enters, Service!Registry!Bound,
         Registry!Candidates, Registry!Enters, Registry!Bound
<1>3. \A S : Service!Registry!Added(R, c, S) = Registry!Added(R, c, S)
  BY DEF Service!Registry!Added, Registry!Added
<1>4. UNION {S \in SUBSET Registry!Candidates(R, c) : Service!Registry!Standing(R, c, S)}
        = UNION {S \in SUBSET Registry!Candidates(R, c) : Registry!Standing(R, c, S)}
  BY <1>1
<1> QED
  BY <1>2, <1>3, <1>4 DEF Service!Registry!Effect, Registry!Effect

LEMMA ServiceReading ==
    ASSUME NEW R, NEW r
    PROVE  Service!Reading(R, r) = Reading(R, r)
BY ServiceHolds DEF Service!Reading, Reading

---------------------------------------------------------------------------
(* What is not accepted could not be (Service!Honest).                     *)

Truthful(B, c, answers) ==
    c.kind # "transient" =>
        \A k \in DOMAIN answers :
            LET sub == c.items[k] IN
            /\ answers[k] = "ok" => Registry!Enters(c, sub)
            /\ answers[k] = "rejected" =>
                  \/ ~Registry!Enters(c, sub) \/ ~Stored(B, sub)
                  \/ c.validate /\ ~Passes(B, sub, TRUE, c.mode)

LEMMA OneTruthful ==
    ASSUME NEW B, NEW c, NEW a,
           a = "ok" => Registry!Enters(c, c.items[1]),
           a = "rejected" =>
              \/ ~Registry!Enters(c, c.items[1]) \/ ~Stored(B, c.items[1])
              \/ c.validate /\ ~Passes(B, c.items[1], TRUE, c.mode)
    PROVE  Truthful(B, c, <<a>>)
<1>1. DOMAIN <<a>> = {1} /\ <<a>>[1] = a
  OBVIOUS
<1> QED
  BY <1>1 DEF Truthful

LEMMA EntityTruthful ==
    ASSUME NoNegation, StoreInv, CheckEntity
    PROVE  Truthful(by_id', call, results')
<1> SUFFICES ASSUME NEW id, id = Sub(1).id, NEW doc, doc = Sub(1).doc
             PROVE  Truthful(by_id', call, results')
  OBVIOUS
<1>1. /\ busy /\ call.kind = "entity" /\ staged # <<>> /\ Sub(1) = call.items[1]
  BY DEF CheckEntity, Sub
<1>2. /\ call \in Calls /\ Sub(1).defect \notin {"id", "keywords"}
      /\ staged[1].id = id /\ (staged[1].inserted <=> id \notin DOMAIN before)
      /\ id \in DOMAIN before => by_id = before
      /\ id \notin DOMAIN before => Unbind(by_id, id) = before
  BY <1>1, EntityBound
<1>3. Registry!Enters(call, Sub(1)) <=> call.validate \/ Sub(1).defect # "refs"
  BY <1>1, <1>2 DEF Registry!Enters
<1>4. call.validate \in BOOLEAN /\ (~Sub(1).doc.is_schema => Sub(1).defect # "refs")
  <2>1. DOMAIN call.items = {1}
    BY <1>1, <1>2, CallShape DEF Singles
  <2> QED
    BY <1>1, <1>2, <2>1, CallShape DEF IsSubmission
<1>5. CASE Passes(by_id, Sub(1), call.validate, call.mode)
  <2>1. results' = <<"ok">>
    BY <1>5 DEF CheckEntity, Return
  <2>2. Registry!Enters(call, Sub(1))
    BY <1>3, <1>4, <1>5 DEF Passes
  <2> QED
    BY <1>1, <2>1, <2>2, OneTruthful
<1>6. CASE ~Passes(by_id, Sub(1), call.validate, call.mode)
  <2>1. /\ results' = <<"rejected">>
        /\ by_id' = IF staged[1].inserted THEN Unbind(by_id, staged[1].id) ELSE by_id
    BY <1>6 DEF CheckEntity, Return
  <2>2. \/ ~Registry!Enters(call, Sub(1)) \/ ~Stored(by_id', Sub(1))
        \/ call.validate /\ ~Passes(by_id', Sub(1), TRUE, call.mode)
    <3>1. CASE id \in DOMAIN before
      <4>1. by_id' = by_id
        BY <1>2, <2>1, <3>1
      <4>2. CASE call.validate
        <5>1. ~Passes(by_id, Sub(1), TRUE, call.mode)
          BY <1>6, <4>2 DEF Passes
        <5> QED
          BY <4>1, <4>2, <5>1
      <4>3. CASE ~call.validate
        BY <1>3, <1>6, <4>3 DEF Passes
      <4> QED
        BY <4>2, <4>3
    <3>2. CASE id \notin DOMAIN before
      <4>1. by_id' = before
        BY <1>2, <2>1, <3>2
      <4> QED
        BY <3>2, <4>1 DEF Stored
    <3> QED
      BY <3>1, <3>2
  <2> QED
    BY <1>1, <2>1, <2>2, OneTruthful
<1> QED
  BY <1>5, <1>6

LEMMA ReturningTruthful ==
    ASSUME NoNegation, StoreInv, Returning
    PROVE  Truthful(by_id', call, results')
<1>1. CASE Register
  <2>1. /\ busy /\ call.kind = "register" /\ Sub(1) = call.items[1]
    BY <1>1 DEF Register, Sub
  <2>2. Registry!Enters(call, Sub(1)) <=> Sub(1).defect # "id"
    BY <2>1 DEF Registry!Enters
  <2>3. \/ results' = <<"rejected">> /\ Sub(1).defect = "id"
        \/ results' \in {<<"conflict">>, <<"ok">>} /\ Sub(1).defect # "id"
    BY <1>1 DEF Register, Return
  <2> QED
    BY <2>1, <2>2, <2>3, OneTruthful
<1>2. CASE RefuseEntity
  <2>1. busy /\ call.kind = "entity" /\ Sub(1) = call.items[1]
    BY <1>2 DEF RefuseEntity, Sub
  <2>2. \/ results' = <<"rejected">> /\ ~Registry!Enters(call, Sub(1))
        \/ results' = <<"conflict">>
    BY <1>2, <2>1 DEF RefuseEntity, Return, Registry!Enters
  <2> QED
    BY <2>1, <2>2, OneTruthful
<1>3. CASE CheckEntity
  BY <1>3, EntityTruthful
<1>4. CASE ReturnResults
  <2>1. /\ busy /\ call.kind \in Batches /\ results' = results /\ by_id' = by_id
    BY <1>4 DEF ReturnResults, Return, Batches
  <2>2. AnswersBorneOut(by_id, call, results)
    BY <2>1 DEF StoreInv, Batch
  <2>3. Truthful(by_id, call, results)
    BY <2>2 DEF AnswersBorneOut, Truthful
  <2> QED
    BY <2>1, <2>3
<1>5. CASE RefuseTransient \/ Restore
  BY <1>5 DEF RefuseTransient, Restore, Truthful
<1> QED
  BY <1>1, <1>2, <1>3, <1>4, <1>5 DEF Returning

(* In the words of the service. *)
LEMMA ServiceHonest ==
    ASSUME NEW R, NEW B, NEW c, NEW answers,
           Honest(R, B, c, answers), Truthful(B, c, answers),
           \A k \in DOMAIN answers : answers[k] \in Verdict
    PROVE  Service!Honest(B, c, answers)
<1>1. \A sub : Service!Registry!Enters(c, sub) <=> Registry!Enters(c, sub)
  BY DEF Service!Registry!Enters, Registry!Enters
<1>2. \A sub, mode : Service!Passes(B, sub, TRUE, mode) <=> Passes(B, sub, TRUE, mode)
  BY ServiceHolds DEF Service!Passes, Service!Subject, Passes, Subject
<1>3. \A id : Service!Bound(B, id) <=> id \in DOMAIN B
  BY DEF Service!Bound
<1> SUFFICES ASSUME c.kind # "transient", NEW k \in DOMAIN answers,
                    NEW sub, sub = c.items[k]
             PROVE  /\ answers[k] = "ok" <=>
                          /\ Registry!Enters(c, sub) /\ Stored(B, sub)
                          /\ c.validate => Passes(B, sub, TRUE, c.mode)
                    /\ answers[k] = "conflict" => ~Stored(B, sub)
  BY <1>1, <1>2, <1>3 DEF Service!Honest, Stored
<1>4. /\ answers[k] = "ok" =>
            Stored(B, sub) /\ (c.validate => Passes(B, sub, TRUE, c.mode))
      /\ answers[k] = "conflict" => ~Stored(B, sub)
  BY DEF Honest
<1>5. /\ answers[k] = "ok" => Registry!Enters(c, sub)
      /\ answers[k] = "rejected" =>
            \/ ~Registry!Enters(c, sub) \/ ~Stored(B, sub)
            \/ c.validate /\ ~Passes(B, sub, TRUE, c.mode)
  BY DEF Truthful
<1> QED
  BY <1>4, <1>5 DEF Verdict

---------------------------------------------------------------------------
(* The invariant: the lock is held exactly while a call runs, by a client  *)
(* whose request that call is, and never with the mutex poisoned.          *)

ServerInv ==
    /\ StoreInv
    /\ request \in [Clients -> Requests \cup {None}]
    /\ reply = [c \in Clients |-> reply[c]]
    /\ poisoned \in BOOLEAN
    /\ busy => holder # None
    /\ holder # None =>
          /\ holder \in Clients /\ Waiting(holder) /\ Changes(request[holder])
          /\ busy /\ call = request[holder].call
          /\ ~poisoned

(* Handlers run the steps of the store and no others. *)
LEMMA ServedStep ==
    ASSUME NoNegation, ServerInv, ServerNext
    PROVE  \/ [Next]_vars
           \/ \E c \in Clients : CrashReading(c)
           \/ Restart
<1>1. ASSUME NEW c \in Clients, Acquire(c) PROVE Next
  <2>1. request[c] \in Requests /\ Changes(request[c]) /\ Begin(request[c].call)
    BY <1>1 DEF Acquire, Waiting, ServerInv
  <2>2. request[c].call \in Calls
    BY <2>1, ServerAssumption DEF Request, Changes
  <2> QED
    BY <2>1, <2>2 DEF Next
<1>2. Work => Next
  BY DEF Work, Next
<1>3. Crash => Next
  BY DEF Crash, Next
<1>4. ASSUME NEW c \in Clients,
             Send(c) \/ Disconnect(c) \/ RefuseMode(c) \/ RefuseCorrupted(c) \/ Read(c)
      PROVE  UNCHANGED vars
  BY <1>4 DEF Send, Disconnect, RefuseMode, RefuseCorrupted, Read
<1> QED
  BY <1>1, <1>2, <1>3, <1>4 DEF ServerNext, Serve

LEMMA ServerStoreStep ==
    ASSUME NoNegation, ServerInv, [ServerNext]_allVars
    PROVE  StoreInv'
<1>1. CASE [Next]_vars
  BY <1>1, StoreStep DEF ServerInv
<1>2. ASSUME NEW c \in Clients, CrashReading(c) PROVE StoreInv'
  <2>1. /\ before' = by_id /\ ~busy
        /\ UNCHANGED <<by_id, call, busy, results, staged, scan, shrunk, displaced, vetted>>
    BY <1>2 DEF CrashReading, Free, ServerInv
  <2>2. TypeInv'
    BY <2>1 DEF ServerInv, StoreInv, TypeInv, TypeOK
  <2>3. AnswersHonest'
    <3>1. Honest(by_id, by_id, call, results)
      BY <2>1, HonestAnswers DEF ServerInv, StoreInv, Honest
    <3>2. Honest(before, by_id, call, results)'
      BY <2>1, <3>1 DEF Honest, Stored
    <3>3. (AnswersHonest <=> (~busy => Honest(before, by_id, call, results)))'
      BY DEF AnswersHonest, Honest, Stored, Bound, Sub
    <3> QED
      BY <3>2, <3>3
  <2> QED
    BY <2>1, <2>2, <2>3 DEF ServerInv, StoreInv
<1>3. CASE Restart
  <2>1. /\ before' = by_id' /\ busy' = FALSE /\ results' = <<>> /\ staged' = <<>>
        /\ scan' = 1 /\ shrunk' = FALSE /\ displaced' = <<>> /\ vetted' = {} /\ UNCHANGED call
    BY <1>3 DEF Restart
  <2>2. PICK disk \in Disks : by_id' \in Loads(disk)
    BY <1>3 DEF Restart
  <2>3. IsRegistry(by_id') /\ \A id \in DOMAIN by_id' : [id |-> id, doc |-> by_id'[id]] \in disk
    BY <2>2, LoadedRegistry
  <2>4. PositiveRegistry(by_id')
    BY <2>3 DEF PositiveRegistry, NoNegation
  <2>5. TypeInv'
    <3>1. <<>> \in Seq(Verdict) /\ <<>> \in Seq(Staged) /\ Len(<<>>) = 0
      BY EmptySeq
    <3>2. results' \in Seq({"ok", "conflict", "rejected"}) /\ staged' \in Seq(Staged)
      BY <2>1, <3>1 DEF Verdict
    <3>3. scan' \in 1 .. Len(staged') + 1
      BY <2>1, <3>1
    <3>4. TypeOK'
      BY <2>1, <2>3, <3>2, <3>3, EmptyRegistry DEF ServerInv, StoreInv, TypeInv, TypeOK
    <3> QED
      BY <2>1, <3>4 DEF TypeInv
  <2>6. AnswersHonest'
    BY <2>1, EmptyRegistry DEF AnswersHonest
  <2> QED
    BY <2>1, <2>4, <2>5, <2>6 DEF StoreInv
<1> QED
  BY <1>1, <1>2, <1>3, ServedStep DEF allVars

LEMMA ServerOpened ==
    ASSUME NoNegation, ServerInit
    PROVE  ServerInv
<1>1. PICK disk \in Disks : \E R \in Loads(disk) : Opened(R)
  BY DEF ServerInit
<1>2. PICK R \in Loads(disk) : Opened(R)
  BY <1>1
<1>3. IsRegistry(R) /\ \A id \in DOMAIN R : [id |-> id, doc |-> R[id]] \in disk
  BY LoadedRegistry
<1>4. PositiveRegistry(R)
  BY <1>3 DEF PositiveRegistry, NoNegation
<1>5. StoreInv
  BY <1>2, <1>4, StoreOpened
<1>6. busy = FALSE
  BY <1>2 DEF Opened
<1> QED
  BY <1>5, <1>6 DEF ServerInit, ServerInv

LEMMA ServerStep ==
    ASSUME NoNegation, ServerInv, [ServerNext]_allVars
    PROVE  ServerInv'
<1>0. /\ StoreInv' /\ None \notin Clients
      /\ request \in [Clients -> Requests \cup {None}]
      /\ reply = [c \in Clients |-> reply[c]] /\ DOMAIN reply = Clients
      /\ poisoned \in BOOLEAN
  BY ServerStoreStep, ServerAssumption DEF ServerInv
<1>1. CASE UNCHANGED allVars
  BY <1>0, <1>1 DEF allVars, serverVars, vars, ServerInv, Waiting
<1>2. ASSUME NEW c \in Clients, Send(c) PROVE ServerInv'
  <2>1. PICK r \in Requests : request' = [request EXCEPT ![c] = r]
    BY <1>2 DEF Send
  <2>2. /\ ~Waiting(c) /\ reply' = [reply EXCEPT ![c] = None]
        /\ UNCHANGED <<busy, call, holder, poisoned>>
    BY <1>2 DEF Send, vars
  <2>3. request' \in [Clients -> Requests \cup {None}]
    BY <1>0, <2>1
  <2>4. reply' = [d \in Clients |-> reply'[d]]
    BY <1>0, <2>2
  <2>5. ASSUME holder # None
        PROVE  request'[holder] = request[holder] /\ reply'[holder] = reply[holder]
    BY <1>0, <2>1, <2>2, <2>5 DEF ServerInv
  <2> QED
    BY <1>0, <2>2, <2>3, <2>4, <2>5 DEF ServerInv, Waiting
<1>3. ASSUME NEW c \in Clients, NEW answer,
             reply' = [reply EXCEPT ![c] = answer], holder # c,
             UNCHANGED <<busy, call, request, holder>>, poisoned' \in BOOLEAN,
             holder # None => ~poisoned'
      PROVE  ServerInv'
  <2>1. reply' = [d \in Clients |-> reply'[d]]
    BY <1>0, <1>3
  <2>2. ASSUME holder # None
        PROVE  reply'[holder] = reply[holder]
    BY <1>0, <1>3, <2>2 DEF ServerInv
  <2> QED
    BY <1>0, <1>3, <2>1, <2>2 DEF ServerInv, Waiting
<1>4. ASSUME NEW c \in Clients, Disconnect(c) PROVE ServerInv'
  <2>1. UNCHANGED <<busy, call, request, holder, poisoned>>
    BY <1>4 DEF Disconnect, vars
  <2>2. CASE holder # c /\ reply' = [reply EXCEPT ![c] = Lost]
    BY <1>0, <1>3, <2>1, <2>2 DEF ServerInv
  <2>3. CASE UNCHANGED reply
    BY <1>0, <2>1, <2>3 DEF ServerInv, Waiting
  <2> QED
    BY <1>4, <2>2, <2>3 DEF Disconnect
<1>5. ASSUME NEW c \in Clients, RefuseMode(c) \/ RefuseCorrupted(c) \/ Read(c) PROVE ServerInv'
  <2>1. /\ UNCHANGED <<busy, call, request, holder, poisoned>>
        /\ \E answer : reply' = [reply EXCEPT ![c] = answer]
    BY <1>5 DEF RefuseMode, RefuseCorrupted, Read, Answer, vars
  <2>2. holder # c
    BY <1>0, <1>5 DEF RefuseMode, RefuseCorrupted, Read, Changes, ServerInv, Free
  <2> QED
    BY <1>0, <1>3, <2>1, <2>2 DEF ServerInv
<1>6. ASSUME NEW c \in Clients, Acquire(c) PROVE ServerInv'
  <2>1. /\ Waiting(c) /\ Changes(request[c]) /\ ~poisoned
        /\ holder' = c /\ busy' = TRUE /\ call' = request[c].call
        /\ UNCHANGED <<request, reply, poisoned>>
    BY <1>6 DEF Acquire, Begin, Free
  <2> QED
    BY <1>0, <2>1 DEF ServerInv, Waiting
<1>7. CASE Work
  <2>1. /\ holder # None /\ Step /\ UNCHANGED <<request, poisoned>>
    BY <1>7 DEF Work
  <2>2. call' = call
    BY <2>1
       DEF Step, Register, RefuseEntity, RegisterEntity, CheckEntity, Stage, Validate, NextPass,
           ReturnResults, RefuseTransient, Displace, Restore, Return, Ended
  <2>3. CASE busy'
    BY <1>0, <1>7, <2>1, <2>2, <2>3 DEF Work, ServerInv, Waiting
  <2>4. CASE ~busy'
    <3>1. holder' = None /\ \E answer : reply' = [reply EXCEPT ![holder] = answer]
      BY <1>7, <2>4 DEF Work, Answer
    <3>2. reply' = [d \in Clients |-> reply'[d]]
      BY <1>0, <3>1
    <3> QED
      BY <1>0, <2>1, <2>4, <3>1, <3>2 DEF ServerInv
  <2> QED
    BY <2>3, <2>4
<1>8. CASE Crash
  <2>1. /\ reply' = [reply EXCEPT ![holder] = Lost] /\ holder' = None /\ poisoned' = TRUE
        /\ UNCHANGED request /\ busy' = FALSE
    BY <1>8 DEF Crash, Panic, Ended
  <2>2. reply' = [d \in Clients |-> reply'[d]]
    BY <1>0, <2>1
  <2> QED
    BY <1>0, <2>1, <2>2 DEF ServerInv
<1>9. ASSUME NEW c \in Clients, CrashReading(c) PROVE ServerInv'
  <2>1. /\ holder = None /\ reply' = [reply EXCEPT ![c] = Lost] /\ poisoned' = TRUE
        /\ UNCHANGED <<busy, call, request, holder>>
    BY <1>9 DEF CrashReading, Free
  <2> QED
    BY <1>0, <1>3, <2>1
<1>10. CASE Restart
  <2>1. /\ reply' = [c \in Clients |-> IF Waiting(c) THEN Lost ELSE reply[c]]
        /\ holder' = None /\ poisoned' = FALSE /\ busy' = FALSE /\ UNCHANGED request
    BY <1>10 DEF Restart
  <2>2. reply' = [d \in Clients |-> reply'[d]]
    BY <2>1
  <2> QED
    BY <1>0, <2>1, <2>2 DEF ServerInv
<1> QED
  BY <1>1, <1>2, <1>4, <1>5, <1>6, <1>7, <1>8, <1>9, <1>10 DEF ServerNext, Serve

---------------------------------------------------------------------------
(* Each step is one of the service, or one it does not see.                *)

(* The handler whose call returns answers for the whole of it (Work). *)
LEMMA WorkAnswers ==
    ASSUME NoNegation, ServerInv, Work, ~busy'
    PROVE  Service!Change(holder)
<1>1. /\ holder \in Clients /\ Waiting(holder) /\ Changes(request[holder])
      /\ busy /\ call = request[holder].call /\ ~poisoned /\ StoreInv
      /\ UNCHANGED <<request, poisoned>>
  BY DEF Work, ServerInv
<1>2. Returning
  BY <1>1
     DEF Work, Step, Returning, RegisterEntity, Displace, Stage, Validate, NextPass
<1>3. /\ by_id' = Registry!Effect(before, call) /\ Len(results') = Len(call.items)
      /\ Honest(before, by_id', call, results')
  BY <1>1, <1>2, ReturningDone DEF Done
<1>4. Truthful(by_id', call, results')
  BY <1>1, <1>2, ReturningTruthful
<1>5. /\ results' \in Seq(Verdict) /\ call \in Calls
  BY <1>1, ServerStoreStep DEF Work, ServerNext, Serve, StoreInv, TypeInv, TypeOK, Verdict
<1>6. /\ DOMAIN results' = DOMAIN call.items /\ \A k \in DOMAIN results' : results'[k] \in Verdict
  BY <1>3, <1>5, LenProperties, CallShape
<1>7. results' \in Service!Verdicts(call)
  <2>1. results' = [k \in DOMAIN results' |-> results'[k]]
    BY <1>5
  <2> QED
    BY <1>6, <2>1 DEF Service!Verdicts, Verdict
<1>8. Service!Honest(by_id', call, results')
  BY <1>3, <1>4, <1>6, ServiceHonest
<1>9. by_id' = Service!Registry!Effect(before, call)
  BY <1>3, ServiceEffect
<1>10. \/ reply' = [reply EXCEPT ![holder] = Lost]
       \/ reply' = [reply EXCEPT ![holder] = Response(call, results')]
  <2>1. Answer(holder, Response(call, results'))
    BY DEF Work
  <2> QED
    BY <2>1 DEF Answer
<1>11. Service!Lost = Lost /\ Service!Response(call, results') = Response(call, results')
  BY DEF Service!Lost, Lost, Service!Response, Response, Service!Status, Status
<1>12. (IF busy' \/ poisoned' THEN before' ELSE by_id') = by_id'
       /\ (IF busy \/ poisoned THEN before ELSE by_id) = before
  BY <1>1
<1> QED
  BY <1>1, <1>7, <1>8, <1>9, <1>10, <1>11, <1>12
     DEF Service!Change, Service!Waiting, Waiting, Service!Changes, Changes, Service!Answered

LEMMA ServerRefines ==
    ASSUME NoNegation, ServerInv, [ServerNext]_allVars
    PROVE  [Service!Next]_(Service!vars)
<1>0. /\ Service!Lost = Lost /\ Service!Corrupted = Corrupted
      /\ Service!Unprocessable = Unprocessable
      /\ \A c : Service!Waiting(c) <=> Waiting(c)
      /\ \A r : /\ Service!Changes(r) <=> Changes(r)
                /\ Service!Validates(r) <=> Validates(r)
  BY DEF Service!Lost, Lost, Service!Corrupted, Corrupted, Service!Unprocessable, Unprocessable,
         Service!Waiting, Waiting, Service!Changes, Changes, Service!Validates, Validates
<1>1. CASE UNCHANGED allVars
  BY <1>1 DEF allVars, serverVars, vars, Service!vars
<1>2. ASSUME NEW c \in Clients, Send(c) PROVE Service!Send(c)
  BY <1>0, <1>2 DEF Send, vars, Service!Send
<1>3. ASSUME NEW c \in Clients, Waiting(c), reply' = [reply EXCEPT ![c] = Lost],
             UNCHANGED <<before, by_id, busy, poisoned, request>>
      PROVE  Service!Lose(c)
  BY <1>0, <1>3 DEF Service!Lose, Service!Answered
<1>4. ASSUME NEW c \in Clients, Disconnect(c) PROVE Service!Lose(c) \/ UNCHANGED Service!vars
  BY <1>3, <1>4 DEF Disconnect, vars, Service!vars
<1>5. ASSUME NEW c \in Clients, RefuseMode(c) \/ RefuseCorrupted(c)
      PROVE  Service!Lose(c) \/ Service!Refuse(c)
  <2>1. /\ Waiting(c) /\ UNCHANGED <<before, by_id, busy, poisoned, request>>
        /\ \/ request[c].kind = "malformed" /\ Answer(c, Unprocessable)
           \/ request[c].kind # "malformed" /\ poisoned /\ Answer(c, Corrupted)
    BY <1>5 DEF RefuseMode, RefuseCorrupted, vars
  <2>2. CASE c \in unheard
    BY <1>3, <2>1, <2>2 DEF Answer
  <2>3. CASE c \notin unheard
    BY <1>0, <2>1, <2>3 DEF Answer, Service!Refuse, Service!Answered
  <2> QED
    BY <2>2, <2>3
<1>6. ASSUME NEW c \in Clients, Read(c) PROVE Service!Read(c)
  <2>1. /\ Waiting(c) /\ ~Changes(request[c]) /\ request[c].kind # "malformed"
        /\ ~poisoned /\ ~busy /\ Answer(c, Reading(by_id, request[c]))
        /\ UNCHANGED <<before, by_id, busy, poisoned, request>>
    BY <1>6 DEF Read, Free, ServerInv, vars
  <2>2. \/ reply' = [reply EXCEPT ![c] = Lost]
        \/ reply' = [reply EXCEPT ![c] = Service!Reading(by_id, request[c])]
    BY <2>1, ServiceReading DEF Answer
  <2>3. (IF busy \/ poisoned THEN before ELSE by_id) = by_id
    BY <2>1
  <2> QED
    BY <1>0, <2>1, <2>2, <2>3 DEF Service!Read, Service!Answered
<1>7. ASSUME NEW c \in Clients, Acquire(c) PROVE UNCHANGED Service!vars
  <2>1. /\ ~busy /\ ~poisoned /\ busy' = TRUE /\ before' = by_id
        /\ UNCHANGED <<request, reply, poisoned>>
    BY <1>7 DEF Acquire, Begin, Free
  <2> QED
    BY <2>1 DEF Service!vars
<1>8. CASE Work
  <2>1. holder \in Clients /\ busy /\ Step
    BY <1>8 DEF Work, ServerInv
  <2>2. CASE busy'
    <3>1. UNCHANGED <<before, busy, poisoned, request, reply>>
      BY <1>8, <2>1, <2>2
         DEF Work, Step, Register, RefuseEntity, RegisterEntity, CheckEntity, Stage, Validate,
             NextPass, ReturnResults, RefuseTransient, Displace, Restore, Return, Ended
    <3> QED
      BY <2>1, <2>2, <3>1 DEF Service!vars
  <2>3. CASE ~busy'
    BY <1>8, <2>1, <2>3, WorkAnswers DEF Service!Next
  <2> QED
    BY <2>2, <2>3
<1>9. CASE Crash
  <2>1. /\ holder \in Clients /\ Waiting(holder) /\ Changes(request[holder])
        /\ busy /\ call = request[holder].call /\ ~poisoned
        /\ call.validate /\ reply' = [reply EXCEPT ![holder] = Lost]
        /\ poisoned' = TRUE /\ UNCHANGED <<request, before>>
    BY <1>9 DEF Crash, Panic, Validating, Ended, ServerInv
  <2>2. Validates(request[holder])
    BY <2>1 DEF Validates
  <2>3. Service!Crash(holder)
    BY <1>0, <2>1, <2>2 DEF Service!Crash, Service!Answered, ServerInv
  <2> QED
    BY <2>1, <2>3 DEF Service!Next
<1>10. ASSUME NEW c \in Clients, CrashReading(c) PROVE Service!Crash(c)
  <2>1. /\ Waiting(c) /\ Validates(request[c]) /\ ~poisoned /\ ~busy
        /\ reply' = [reply EXCEPT ![c] = Lost] /\ poisoned' = TRUE
        /\ before' = by_id /\ UNCHANGED request
    BY <1>10 DEF CrashReading, Free, Validates, ServerInv
  <2> QED
    BY <1>0, <2>1 DEF Service!Crash, Service!Answered, ServerInv
<1>11. CASE Restart
  <2>1. /\ \E disk \in Disks : by_id' \in Loads(disk)
        /\ busy' = FALSE /\ poisoned' = FALSE /\ UNCHANGED request
        /\ reply' = [c \in Clients |-> IF Waiting(c) THEN Lost ELSE reply[c]]
    BY <1>11 DEF Restart
  <2>2. Service!Restart
    BY <1>0, <2>1 DEF Service!Restart, Service!Loads, Loads
  <2> QED
    BY <2>2 DEF Service!Next
<1> QED
  BY <1>1, <1>2, <1>4, <1>5, <1>6, <1>7, <1>8, <1>9, <1>10, <1>11
     DEF ServerNext, Serve, Service!Next

LEMMA ServerAlways ==
    ASSUME NoNegation
    PROVE  ServerInit /\ [][ServerNext]_allVars => []ServerInv
<1>1. ServerInit => ServerInv
  BY ServerOpened
<1>2. ServerInv /\ [ServerNext]_allVars => ServerInv'
  BY ServerStep
<1> QED
  BY <1>1, <1>2, PTL

(* Handlers on different threads are atomic to each other: each answer is  *)
(* true of a registry made of whole calls, and what a panic tore is never  *)
(* seen (ServiceSpec; lock_ops).                                           *)
THEOREM ServerImplementsService ==
    ASSUME NoNegation
    PROVE  ServerSpec => ServiceSpec
<1>1. ServerInit => Service!Init
  <2> SUFFICES ASSUME ServerInit PROVE Service!Init
    OBVIOUS
  <2>1. PICK disk \in Disks : \E R \in Loads(disk) : Opened(R)
    BY DEF ServerInit
  <2>2. by_id \in Loads(disk) /\ busy = FALSE
    BY <2>1 DEF Opened
  <2> QED
    BY <2>2 DEF ServerInit, Service!Init, Service!Loads, Loads
<1>2. ServerInv /\ [ServerNext]_allVars => [Service!Next]_(Service!vars)
  BY ServerRefines
<1> QED
  BY <1>1, <1>2, ServerAlways, PTL DEF ServerSpec, ServiceSpec, Service!Spec

---------------------------------------------------------------------------
(* What was accepted is accepted again.                                    *)

(* A registry R in which every item of c is stored and passes, or for a    *)
(* transient entity would pass.                                            *)
Repeatable(R, c) ==
    \A k \in DOMAIN c.items :
        LET sub == c.items[k] IN
        /\ c.kind # "transient" =>
              /\ Registry!Enters(c, sub) /\ Stored(R, sub)
              /\ c.validate => Passes(R, sub, TRUE, c.mode)
        /\ c.kind = "transient" =>
              /\ sub.defect \notin {"id", "keywords"}
              /\ Base[sub.id] # NoType => Base[sub.id] \in DOMAIN R
              /\ Passes(Bind(R, sub.id, sub.doc), sub, TRUE, "any-valid")

(* The running call changes nothing and refuses nothing. *)
Repeating ==
    call.kind \in Batches => by_id = before /\ \A k \in DOMAIN results : results[k] = "ok"

RepeatInv ==
    /\ ServerInv
    /\ accepted \subseteq Calls
    /\ \A c \in accepted : Repeatable(IF busy THEN before ELSE by_id, c)
    /\ busy /\ call \in accepted => Repeating
    /\ busy /\ call.kind = "transient" /\ staged # <<>> =>
          (Base[Sub(1).id] # NoType => Base[Sub(1).id] \in DOMAIN before)

LEMMA GrownBind ==
    ASSUME NEW R, NEW S, Grown(R, S), NEW id \in Ids, NEW doc, IsDocument(doc)
    PROVE  Grown(Bind(R, id, doc), Bind(S, id, doc))
<1>1. /\ IsRegistry(Bind(R, id, doc))
      /\ \A i : i \in DOMAIN Bind(R, id, doc) <=> i \in DOMAIN R \/ i = id
      /\ Bind(R, id, doc)[id] = doc
      /\ \A i \in DOMAIN R : i # id => Bind(R, id, doc)[i] = R[i]
  BY BindRegistry DEF Grown
<1>2. /\ IsRegistry(Bind(S, id, doc))
      /\ \A i : i \in DOMAIN Bind(S, id, doc) <=> i \in DOMAIN S \/ i = id
      /\ Bind(S, id, doc)[id] = doc
      /\ \A i \in DOMAIN S : i # id => Bind(S, id, doc)[i] = S[i]
  BY BindRegistry DEF Grown
<1>3. DOMAIN R \subseteq DOMAIN S /\ \A i \in DOMAIN R : S[i] = R[i]
  BY DEF Grown
<1>4. DOMAIN Bind(R, id, doc) \subseteq DOMAIN Bind(S, id, doc)
  BY <1>1, <1>2, <1>3
<1>5. ASSUME NEW i \in DOMAIN Bind(R, id, doc)
      PROVE  Bind(S, id, doc)[i] = Bind(R, id, doc)[i]
  <2>1. CASE i = id
    BY <1>1, <1>2, <2>1
  <2>2. CASE i # id
    BY <1>1, <1>2, <1>3, <1>5, <2>2
  <2> QED
    BY <2>1, <2>2
<1> QED
  BY <1>1, <1>2, <1>4, <1>5 DEF Grown

LEMMA GrownRepeatable ==
    ASSUME NoNegation, NEW R, NEW S, Grown(R, S), PositiveRegistry(S),
           NEW c \in Calls, Repeatable(R, c)
    PROVE  Repeatable(S, c)
<1> SUFFICES ASSUME NEW k \in DOMAIN c.items, NEW sub, sub = c.items[k],
                    NEW id, id = sub.id, NEW doc, doc = sub.doc
             PROVE  /\ c.kind # "transient" =>
                          /\ Registry!Enters(c, sub) /\ Stored(S, sub)
                          /\ c.validate => Passes(S, sub, TRUE, c.mode)
                    /\ c.kind = "transient" =>
                          /\ sub.defect \notin {"id", "keywords"}
                          /\ Base[id] # NoType => Base[id] \in DOMAIN S
                          /\ Passes(Bind(S, id, doc), sub, TRUE, "any-valid")
  BY DEF Repeatable
<1>1. CASE c.kind # "transient"
  <2>1. /\ Registry!Enters(c, sub) /\ Stored(R, sub)
        /\ c.validate => Passes(R, sub, TRUE, c.mode)
    BY <1>1 DEF Repeatable
  <2>2. Stored(S, sub)
    BY <2>1 DEF Stored, Grown
  <2> QED
    BY <1>1, <2>1, <2>2, GrownPasses
<1>2. CASE c.kind = "transient"
  <2>1. /\ sub.defect \notin {"id", "keywords"}
        /\ Base[id] # NoType => Base[id] \in DOMAIN R
        /\ Passes(Bind(R, id, doc), sub, TRUE, "any-valid")
    BY <1>2 DEF Repeatable
  <2>2. id \in Ids /\ PositiveDocument(doc) /\ IsDocument(doc)
    BY <2>1, CallShape, SubmissionTyped DEF NoNegation, PositiveDocument
  <2>3. Grown(Bind(R, id, doc), Bind(S, id, doc))
    BY <2>2, GrownBind
  <2>4. PositiveRegistry(Bind(S, id, doc))
    BY <2>2, BindPositive
  <2>5. Passes(Bind(S, id, doc), sub, TRUE, "any-valid")
    BY <2>1, <2>3, <2>4, GrownPasses
  <2> QED
    BY <1>2, <2>1, <2>5 DEF Grown
<1> QED
  BY <1>1, <1>2

(* A step of a call that was accepted before: it refuses nothing. *)
LEMMA RepeatStep ==
    ASSUME NoNegation, StoreInv, busy, Repeatable(before, call), Repeating, Step
    PROVE  IF busy' THEN Repeating' ELSE AllOk(results')
<1>0. /\ call \in Calls /\ PositiveRegistry(before) /\ IsRegistry(before)
      /\ results \in Seq(Verdict) /\ DOMAIN results = 1 .. Len(results) /\ Len(results) \in Nat
      /\ call.validate \in BOOLEAN
  BY LenProperties, CallShape DEF StoreInv, TypeInv, TypeOK, Verdict, PositiveRegistry
<1>1. CASE call.kind \in Singles /\ ~busy'
  <2>1. 1 \in DOMAIN call.items /\ Sub(1) = call.items[1] /\ IsSubmission(Sub(1))
    BY <1>0, <1>1, CallShape DEF Sub
  <2>2. call.kind # "transient" =>
           /\ Registry!Enters(call, Sub(1)) /\ Stored(before, Sub(1))
           /\ call.validate => Passes(before, Sub(1), TRUE, call.mode)
    BY <2>1 DEF Repeatable
  <2>3. call.kind = "transient" =>
           /\ Sub(1).defect \notin {"id", "keywords"}
           /\ Base[Sub(1).id] # NoType => Base[Sub(1).id] \in DOMAIN before
           /\ Passes(Bind(before, Sub(1).id, Sub(1).doc), Sub(1), TRUE, "any-valid")
    BY <2>1 DEF Repeatable
  <2>4. ASSUME results' = <<"ok">>
        PROVE  AllOk(results')
    BY <2>4 DEF AllOk
  <2>5. CASE Register
    <3>1. by_id = before /\ call.kind = "register"
      BY <1>1, <2>5, SingleFound DEF Register
    <3>2. Sub(1).defect # "id" /\ ~Conflicts(by_id, Sub(1))
      BY <2>2, <3>1 DEF Registry!Enters, Conflicts, Stored
    <3>3. results' = <<"ok">>
      BY <2>5, <3>2 DEF Register, Return
    <3> QED
      BY <1>1, <2>4, <3>3
  <2>6. CASE RefuseEntity
    <3>1. by_id = before /\ call.kind = "entity"
      BY <1>1, <2>6, SingleFound DEF RefuseEntity
    <3>2. Sub(1).defect \notin {"id", "keywords"} /\ ~Conflicts(by_id, Sub(1))
      BY <2>2, <3>1 DEF Registry!Enters, Conflicts, Stored
    <3> QED
      BY <2>6, <3>2 DEF RefuseEntity
  <2>7. CASE CheckEntity
    <3>1. call.kind = "entity" /\ staged # <<>>
      BY <2>7 DEF CheckEntity
    <3>2. Sub(1).id \in DOMAIN before => by_id = before
      BY <3>1, EntityBound
    <3>3. by_id = before
      BY <2>2, <3>1, <3>2 DEF Stored
    <3>4. Passes(before, Sub(1), call.validate, call.mode)
      <4>1. CASE call.validate
        BY <2>2, <3>1, <4>1 DEF Passes
      <4>2. CASE ~call.validate
        BY <2>2, <3>1, <4>2 DEF Passes, Registry!Enters
      <4> QED
        BY <1>0, <4>1, <4>2
    <3>5. results' = <<"ok">>
      BY <2>7, <3>3, <3>4 DEF CheckEntity, Return
    <3> QED
      BY <1>1, <2>4, <3>5
  <2>8. CASE RefuseTransient
    <3>1. by_id = before /\ call.kind = "transient"
      BY <1>1, <2>8, SingleFound DEF RefuseTransient
    <3> QED
      BY <2>3, <2>8, <3>1 DEF RefuseTransient, Bound
  <2>9. CASE Restore
    <3>1. call.kind = "transient" /\ staged # <<>>
      BY <2>9 DEF Restore
    <3>2. by_id = Bind(before, Sub(1).id, Sub(1).doc)
      BY <1>1, <3>1 DEF StoreInv, TypeInv, Single, Sub
    <3>3. Passes(by_id, Sub(1), TRUE, "any-valid")
      BY <2>3, <3>1, <3>2
    <3>4. results' = <<"ok">>
      BY <2>9, <3>3 DEF Restore, Return
    <3> QED
      BY <1>1, <2>4, <3>4
  <2> QED
    BY <1>1, <2>5, <2>6, <2>7, <2>8, <2>9
       DEF Step, RegisterEntity, Displace, Stage, Validate, NextPass, ReturnResults,
           Schemas, Singles
<1>2. CASE call.kind \in Singles /\ busy'
  <2>1. call' = call
    BY DEF Step, Register, RefuseEntity, RegisterEntity, CheckEntity, Stage, Validate, NextPass,
           ReturnResults, RefuseTransient, Displace, Restore, Return, Ended
  <2> QED
    BY <1>2, <2>1 DEF Repeating, Singles, Batches
<1>3. CASE call.kind \in Batches
  <2>1. by_id = before /\ \A k \in DOMAIN results : results[k] = "ok"
    BY <1>3 DEF Repeating
  <2>2. \A k \in DOMAIN call.items :
           /\ Registry!Enters(call, Sub(k)) /\ Stored(before, Sub(k))
           /\ call.validate => Passes(before, Sub(k), TRUE, call.mode)
    BY <1>3 DEF Repeatable, Batches, Sub
  <2>3. CASE Stage
    <3> SUFFICES ASSUME NEW k, k = Len(results) + 1, NEW id, id = Sub(k).id,
                        NEW doc, doc = Sub(k).doc, NEW a, a = AddUnvalidated(Sub(k))
                 PROVE  busy' /\ Repeating'
      OBVIOUS
    <3>1. /\ results' = Append(results, a) /\ call' = call /\ before' = before /\ busy' = busy
          /\ by_id' = IF a = "ok" THEN Bind(by_id, id, doc) ELSE by_id
          /\ Len(results) < Len(call.items)
      BY <2>3 DEF Stage
    <3>2. k \in DOMAIN call.items
      BY <1>0, <3>1, CallShape
    <3>3. Registry!Enters(call, Sub(k)) /\ id \in DOMAIN by_id /\ by_id[id] = doc
      BY <2>1, <2>2, <3>2 DEF Stored
    <3>4. ~Conflicts(by_id, Sub(k))
      BY <3>3 DEF Conflicts
    <3>5. a = "ok"
      BY <1>0, <1>3, <3>2, <3>3, <3>4, AddAnswer DEF Verdict
    <3>6. Bind(by_id, id, doc) = by_id
      BY <1>0, <2>1, <3>3 DEF Bind, IsRegistry
    <3>7. \A j \in DOMAIN results' : results'[j] = "ok"
      <4>1. a \in Verdict
        BY <3>5 DEF Verdict
      <4>2. /\ Append(results, a) \in Seq(Verdict) /\ Len(Append(results, a)) = Len(results) + 1
            /\ Append(results, a)[Len(results) + 1] = a
            /\ \A j \in 1 .. Len(results) : Append(results, a)[j] = results[j]
        BY <1>0, <4>1, AppendProperties
      <4>3. DOMAIN Append(results, a) = 1 .. Len(results) + 1
        BY <4>2, LenProperties
      <4> QED
        BY <1>0, <2>1, <3>1, <3>5, <4>2, <4>3
    <3> QED
      BY <2>1, <3>1, <3>5, <3>6, <3>7 DEF Repeating
  <2>4. CASE Validate
    <3>1. /\ Schemas /\ AllStaged /\ scan <= Len(staged) /\ call' = call /\ before' = before
          /\ busy' = busy
      BY <2>4 DEF Validate
    <3>2. scan \in DOMAIN staged
      BY <3>1, LenProperties DEF StoreInv, TypeInv, TypeOK
    <3>3. staged[scan].index \in DOMAIN results /\ call.validate
      BY <1>3, <3>2 DEF StoreInv, Batch, StagedAccepted
    <3>4. staged[scan].index \in DOMAIN call.items
      BY <1>3, <3>3 DEF StoreInv, TypeInv, AnswersTyped
    <3>5. Passes(by_id, Sub(staged[scan].index), TRUE, call.mode)
      BY <2>1, <2>2, <3>3, <3>4
    <3>6. UNCHANGED <<by_id, results>>
      BY <2>4, <3>5 DEF Validate
    <3> QED
      BY <2>1, <3>1, <3>6 DEF Repeating
  <2>5. CASE NextPass
    BY <2>1, <2>5 DEF NextPass, Repeating
  <2>6. CASE ReturnResults
    BY <2>1, <2>6 DEF ReturnResults, Return, Ended, AllOk
  <2> QED
    BY <1>3, <2>3, <2>4, <2>5, <2>6
       DEF Step, Register, RefuseEntity, RegisterEntity, CheckEntity, RefuseTransient, Displace,
           Restore, Batches
<1> QED
  BY <1>0, <1>1, <1>2, <1>3, CallShape

(* What is accepted is accepted for good. *)
LEMMA AcceptedRepeatable ==
    ASSUME NoNegation, StoreInv, busy, Step, ~busy', AllOk(results'),
           call.kind = "transient" /\ staged # <<>> =>
              (Base[Sub(1).id] # NoType => Base[Sub(1).id] \in DOMAIN before)
    PROVE  Repeatable(by_id', call)
<1>1. Returning
  BY DEF Step, Returning, RegisterEntity, Displace, Stage, Validate, NextPass
<1>2. /\ call \in Calls /\ results' \in Seq(Verdict)
      /\ Done(before, by_id', call, results') /\ Truthful(by_id', call, results')
  BY <1>1, ReturningDone, ReturningTruthful, StoreStep
     DEF Next, StoreInv, TypeInv, TypeOK, Verdict
<1>3. DOMAIN results' = DOMAIN call.items
  BY <1>2, LenProperties, CallShape DEF Done
<1>4. CASE call.kind # "transient"
  <2> SUFFICES ASSUME NEW k \in DOMAIN call.items, NEW sub, sub = call.items[k]
               PROVE  /\ Registry!Enters(call, sub) /\ Stored(by_id', sub)
                      /\ call.validate => Passes(by_id', sub, TRUE, call.mode)
    BY <1>4 DEF Repeatable
  <2>1. k \in DOMAIN results' /\ results'[k] = "ok"
    BY <1>3 DEF AllOk
  <2>2. Honest(before, by_id', call, results')
    BY <1>2 DEF Done
  <2>3. Stored(by_id', sub) /\ (call.validate => Passes(by_id', sub, TRUE, call.mode))
    BY <1>4, <2>1, <2>2 DEF Honest
  <2>4. Registry!Enters(call, sub)
    BY <1>2, <1>4, <2>1 DEF Truthful
  <2> QED
    BY <2>3, <2>4
<1>5. CASE call.kind = "transient"
  <2>1. 1 \in DOMAIN results' /\ results'[1] = "ok" /\ DOMAIN call.items = {1}
        /\ Sub(1) = call.items[1]
    BY <1>2, <1>3, <1>5, CallShape DEF AllOk, Singles, Sub
  <2>2. CASE RefuseTransient
    <3>1. results' = <<"rejected">>
      BY <2>2 DEF RefuseTransient, Return
    <3> QED
      BY <2>1, <3>1
  <2>3. CASE Restore
    <3>1. /\ staged # <<>> /\ by_id' = Restored
          /\ results' = <<IF Passes(by_id, Sub(1), TRUE, "any-valid") THEN "ok" ELSE "rejected">>
      BY <2>3 DEF Restore, Return
    <3>2. by_id' = before
      BY <1>5, <3>1, RestoredIsBefore DEF StoreInv
    <3>3. Passes(by_id, Sub(1), TRUE, "any-valid")
      BY <2>1, <3>1
    <3>4. by_id = Bind(before, Sub(1).id, Sub(1).doc) /\ Sub(1).defect \notin {"id", "keywords"}
      BY <1>5, <3>1 DEF StoreInv, TypeInv, Single, Singles, Sub
    <3>5. Passes(Bind(before, Sub(1).id, Sub(1).doc), Sub(1), TRUE, "any-valid")
      BY <3>3, <3>4
    <3> QED
      BY <1>5, <2>1, <3>1, <3>2, <3>4, <3>5 DEF Repeatable
  <2> QED
    BY <1>1, <1>5, <2>2, <2>3
       DEF Returning, Register, RefuseEntity, CheckEntity, ReturnResults
<1> QED
  BY <1>4, <1>5

(* The bases of transient entities are there. *)
LEMMA BaseKept ==
    ASSUME ServerInv, [Next]_vars,
           busy /\ call.kind = "transient" /\ staged # <<>> =>
              (Base[Sub(1).id] # NoType => Base[Sub(1).id] \in DOMAIN before)
    PROVE  busy' /\ call'.kind = "transient" /\ staged' # <<>> =>
              (Base[Sub(1)'.id] # NoType => Base[Sub(1)'.id] \in DOMAIN before')
<1>1. CASE UNCHANGED vars
  BY <1>1 DEF vars, Sub
<1>2. ASSUME NEW c \in Calls, Begin(c) PROVE staged' = <<>>
  BY <1>2 DEF Begin, ServerInv, StoreInv, TypeInv
<1>3. CASE Displace
  <2>1. by_id = before
    BY <1>3, SingleFound DEF Displace, Singles, ServerInv
  <2> QED
    BY <1>3, <2>1 DEF Displace, Bound, Sub
<1>4. CASE Stage \/ Validate \/ NextPass \/ RegisterEntity
  BY <1>4 DEF Stage, Validate, NextPass, RegisterEntity, Schemas
<1>5. CASE Returning \/ Panic \/ Reload
  <2>1. ~busy'
    BY <1>5
       DEF Returning, Register, RefuseEntity, CheckEntity, ReturnResults, RefuseTransient, Restore,
           Return, Ended, Panic, Reload
  <2> QED
    BY <2>1
<1> QED
  BY <1>1, <1>2, <1>3, <1>4, <1>5 DEF Next, Step, Returning

(* What callers find only grows until the server is started anew. *)
LEMMA ServedGrown ==
    ASSUME NoNegation, ServerInv, [Next]_vars, ~Reload
    PROVE  Grown(IF busy THEN before ELSE by_id, IF busy' THEN before' ELSE by_id')
<1>0. PositiveRegistry(by_id) /\ PositiveRegistry(before) /\ busy \in BOOLEAN
  BY DEF ServerInv, StoreInv, TypeInv, TypeOK
<1>1. \A R : PositiveRegistry(R) => Grown(R, R)
  BY DEF Grown, PositiveRegistry
<1>2. CASE UNCHANGED vars
  BY <1>0, <1>1, <1>2 DEF vars
<1>3. ASSUME NEW c \in Calls, Begin(c)
      PROVE  ~busy /\ busy' /\ before' = by_id
  BY <1>3 DEF Begin
<1>4. CASE Returning
  <2>1. busy /\ ~busy'
    BY <1>4
       DEF Returning, Register, RefuseEntity, CheckEntity, ReturnResults, RefuseTransient, Restore,
           Return, Ended
  <2>2. Grown(before, by_id')
    BY <1>4, ReturningDone DEF Done, ServerInv
  <2> QED
    BY <2>1, <2>2
<1>5. CASE RegisterEntity \/ Displace \/ Stage \/ Validate \/ NextPass
  <2>1. busy /\ UNCHANGED <<busy, before>>
    BY <1>5 DEF RegisterEntity, Displace, Stage, Validate, NextPass, Schemas
  <2> QED
    BY <1>0, <1>1, <2>1
<1>6. CASE Panic
  <2>1. busy /\ ~busy'
    BY <1>6 DEF Panic, Validating, Ended
  <2>2. Grown(before, by_id')
    BY <1>6, PanicTears DEF ServerInv
  <2> QED
    BY <2>1, <2>2
<1> QED
  BY <1>0, <1>1, <1>2, <1>3, <1>4, <1>5, <1>6 DEF Next, Step, Returning

LEMMA RepeatInvStep ==
    ASSUME NoNegation, RepeatInv, [ServerNext]_allVars
    PROVE  RepeatInv'
<1>0. /\ ServerInv /\ ServerInv' /\ accepted \subseteq Calls /\ busy \in BOOLEAN /\ call \in Calls
      /\ StoreInv'
  BY ServerStep DEF RepeatInv, ServerInv, StoreInv, TypeInv, TypeOK
<1>1. ASSUME UNCHANGED vars \/ \E c \in Clients : CrashReading(c), accepted' = accepted
      PROVE  RepeatInv'
  <2>1. /\ UNCHANGED <<by_id, call, busy, results, staged>> /\ (busy => before' = before)
    BY <1>0, <1>1 DEF vars, CrashReading, Free, ServerInv
  <2>2. (IF busy' THEN before' ELSE by_id') = (IF busy THEN before ELSE by_id)
    BY <2>1
  <2> QED
    BY <1>0, <1>1, <2>1, <2>2 DEF RepeatInv, Repeating, Sub
<1>2. ASSUME Step \/ Panic \/ (\E c \in Calls : Begin(c)), accepted' \subseteq Calls,
             \A c \in accepted' : c \in accepted \/ Repeatable(IF busy' THEN before' ELSE by_id', c),
             busy' /\ call' \in accepted' => Repeating'
      PROVE  RepeatInv'
  <2>1. Next /\ ~Reload
    BY <1>0, <1>2
       DEF Next, Reload, Step, Panic, Validating, Begin, Register, RefuseEntity, RegisterEntity,
           CheckEntity, Stage, Validate, NextPass, ReturnResults, RefuseTransient, Displace,
           Restore, Schemas
  <2>2. Grown(IF busy THEN before ELSE by_id, IF busy' THEN before' ELSE by_id')
    BY <1>0, <2>1, ServedGrown
  <2>3. PositiveRegistry(IF busy' THEN before' ELSE by_id')
    BY <1>0 DEF StoreInv
  <2>4. \A c \in accepted' : Repeatable(IF busy' THEN before' ELSE by_id', c)
    <3> SUFFICES ASSUME NEW c \in accepted, NEW R, R = (IF busy THEN before ELSE by_id),
                        NEW S, S = (IF busy' THEN before' ELSE by_id')
                 PROVE  Repeatable(S, c)
      BY <1>2
    <3>1. Repeatable(R, c) /\ c \in Calls
      BY <1>0 DEF RepeatInv
    <3>2. Grown(R, S) /\ PositiveRegistry(S)
      BY <2>2, <2>3
    <3> QED
      BY <3>1, <3>2, GrownRepeatable
  <2>5. busy' /\ call'.kind = "transient" /\ staged' # <<>> =>
           (Base[Sub(1)'.id] # NoType => Base[Sub(1)'.id] \in DOMAIN before')
    BY <1>0, <2>1, BaseKept DEF RepeatInv
  <2> QED
    BY <1>0, <1>2, <2>4, <2>5 DEF RepeatInv
<1>3. ASSUME NEW c \in Clients, Acquire(c) PROVE RepeatInv'
  <2>1. /\ request[c] \in Requests /\ Changes(request[c]) /\ Begin(request[c].call)
        /\ accepted' = accepted
    BY <1>0, <1>3 DEF Acquire, Waiting, ServerInv
  <2>2. request[c].call \in Calls
    BY <2>1, ServerAssumption DEF Request, Changes
  <2>3. Repeating'
    BY <2>1, EmptyRegistry DEF Begin, Repeating
  <2> QED
    BY <1>0, <1>2, <2>1, <2>2, <2>3
<1>4. CASE Work
  <2>1. /\ Step /\ busy /\ call' = call /\ StoreInv
    BY <1>0, <1>4
       DEF Work, ServerInv, Step, Register, RefuseEntity, RegisterEntity, CheckEntity, Stage,
           Validate, NextPass, ReturnResults, RefuseTransient, Displace, Restore, Return, Ended
  <2>2. CASE busy'
    <3>1. accepted' = accepted
      BY <1>4, <2>2 DEF Work
    <3>2. call \in accepted => Repeatable(before, call) /\ Repeating
      BY <2>1 DEF RepeatInv
    <3>3. call \in accepted => Repeating'
      BY <2>1, <2>2, <3>2, RepeatStep
    <3> QED
      BY <1>0, <1>2, <2>1, <3>1, <3>3
  <2>3. CASE ~busy'
    <3>1. accepted' = IF AllOk(results') THEN accepted \cup {call} ELSE accepted
      BY <1>4, <2>3 DEF Work
    <3>2. AllOk(results') => Repeatable(by_id', call)
      BY <2>1, <2>3, AcceptedRepeatable DEF RepeatInv
    <3> QED
      BY <1>0, <1>2, <2>1, <2>3, <3>1, <3>2
  <2> QED
    BY <2>2, <2>3
<1>5. CASE Crash
  <2>1. Panic /\ accepted' = accepted /\ ~busy'
    BY <1>5 DEF Crash, Panic, Ended
  <2> QED
    BY <1>0, <1>2, <2>1
<1>6. CASE Restart
  BY <1>0, <1>6 DEF Restart, RepeatInv
<1>7. CASE UNCHANGED allVars
  BY <1>1, <1>7 DEF allVars, serverVars
<1>8. ASSUME NEW c \in Clients,
             \/ Send(c) \/ Disconnect(c) \/ RefuseMode(c) \/ RefuseCorrupted(c) \/ Read(c)
             \/ CrashReading(c)
      PROVE  RepeatInv'
  BY <1>1, <1>8 DEF Send, Disconnect, RefuseMode, RefuseCorrupted, Read, CrashReading
<1> QED
  BY <1>3, <1>4, <1>5, <1>6, <1>7, <1>8 DEF ServerNext, Serve

LEMMA RepeatedAnswer ==
    ASSUME NoNegation, RepeatInv, ServerNext, NEW c \in Clients,
           Waiting(c), Changes(request[c]), request[c].call \in accepted,
           reply'[c] \notin {None, Lost, Corrupted}
    PROVE  AllOk(reply'[c].body)
<1>0. /\ DOMAIN reply = Clients /\ reply[c] = None /\ ServerInv
  BY DEF RepeatInv, ServerInv, Waiting
<1>1. \A d \in Clients : \A answer : reply' = [reply EXCEPT ![d] = answer] =>
         reply'[c] = IF d = c THEN answer ELSE None
  BY <1>0
<1>2. CASE Work /\ ~busy'
  <2>1. /\ holder \in Clients /\ call = request[holder].call /\ Step /\ busy /\ StoreInv
        /\ Answer(holder, Response(call, results'))
    BY <1>0, <1>2 DEF Work, ServerInv
  <2>2. reply'[c] = IF holder = c THEN (IF holder \in unheard THEN Lost ELSE Response(call, results'))
                    ELSE None
    BY <1>1, <2>1 DEF Answer
  <2>3. holder = c /\ reply'[c] = Response(call, results')
    BY <2>2
  <2>4. Repeatable(before, call) /\ Repeating
    BY <2>1, <2>3 DEF RepeatInv
  <2>5. AllOk(results')
    BY <1>2, <2>1, <2>4, RepeatStep
  <2> QED
    BY <2>3, <2>5 DEF Response
<1>3. CASE Work /\ busy'
  BY <1>0, <1>3 DEF Work
<1>4. ASSUME NEW d \in Clients,
             Send(d) \/ Disconnect(d) \/ Acquire(d) \/ Read(d) \/ RefuseMode(d)
      PROVE  FALSE
  <2>1. CASE Send(d)
    BY <1>0, <1>1, <2>1 DEF Send
  <2>2. CASE Disconnect(d)
    BY <1>0, <1>1, <2>2 DEF Disconnect
  <2>3. CASE Acquire(d)
    BY <1>0, <2>3 DEF Acquire
  <2>4. CASE Read(d)
    BY <1>1, <2>4 DEF Read, Answer
  <2>5. CASE RefuseMode(d)
    BY <1>1, <2>5 DEF RefuseMode, Answer, Changes
  <2> QED
    BY <1>4, <2>1, <2>2, <2>3, <2>4, <2>5
<1>5. ASSUME NEW d \in Clients, RefuseCorrupted(d) PROVE FALSE
  BY <1>1, <1>5 DEF RefuseCorrupted, Answer
<1>6. ASSUME NEW d \in Clients, CrashReading(d) PROVE FALSE
  BY <1>1, <1>6 DEF CrashReading
<1>7. CASE Crash
  BY <1>0, <1>1, <1>7 DEF Crash, ServerInv
<1>8. CASE Restart
  BY <1>8 DEF Restart
<1> QED
  BY <1>2, <1>3, <1>4, <1>5, <1>6, <1>7, <1>8 DEF ServerNext, Serve

(* A client that lost its reply may repeat its request: what was accepted  *)
(* once, by whomever it was sent and whatever came in between, is accepted *)
(* again, until the server is started anew (RepeatAccepted).               *)
THEOREM ServerRepeats ==
    ASSUME NoNegation
    PROVE  ServerSpec => RepeatAccepted
<1>1. ServerInit => RepeatInv
  <2> SUFFICES ASSUME ServerInit PROVE RepeatInv
    OBVIOUS
  <2>1. ServerInv /\ accepted = {}
    BY ServerOpened DEF ServerInit
  <2>2. ~busy
    BY <2>1 DEF ServerInit, ServerInv
  <2> QED
    BY <2>1, <2>2 DEF RepeatInv
<1>2. RepeatInv /\ [ServerNext]_allVars => RepeatInv'
  BY RepeatInvStep
<1>3. RepeatInv /\ [ServerNext]_allVars =>
         [\A c \in Clients :
             (/\ Waiting(c) /\ Changes(request[c]) /\ request[c].call \in accepted
              /\ reply'[c] \notin {None, Lost, Corrupted})
             => AllOk(reply'[c].body)]_allVars
  BY RepeatedAnswer
<1> QED
  BY <1>1, <1>2, <1>3, PTL DEF ServerSpec, RepeatAccepted
=============================================================================
