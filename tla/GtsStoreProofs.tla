--------------------------- MODULE GtsStoreProofs ---------------------------
(***************************************************************************)
(* Proofs about the registry under the calls that change it: its types;    *)
(* that calls are atomic, answered truly and never cost a vetted entity    *)
(* its validity, when no document negates a reference.                     *)
(***************************************************************************)
EXTENDS GtsStore, GtsValidityProofs, SequenceTheorems

---------------------------------------------------------------------------
(* Registries.                                                             *)

LEMMA EmptyFunction ==
    ASSUME NEW f, f = [x \in DOMAIN f |-> f[x]], DOMAIN f = {}
    PROVE  f = <<>>
<1>1. f \in [1 .. 0 -> {}]
  OBVIOUS
<1>2. f \in Seq({})
  BY <1>1, SeqDef
<1>3. Len(f) = 0
  BY <1>2, LenProperties
<1> QED
  BY <1>2, <1>3, EmptySeq

LEMMA EmptyRegistry == IsRegistry(<<>>) /\ DOMAIN <<>> = {}
<1>1. <<>> \in Seq({}) /\ Len(<<>>) = 0
  BY EmptySeq
<1>2. <<>> \in [1 .. 0 -> {}] /\ DOMAIN <<>> = 1 .. 0
  BY <1>1, LenProperties
<1> QED
  BY <1>2 DEF IsRegistry

(* Registrations and removals make registries of registries. *)
LEMMA BindRegistry ==
    ASSUME NEW R, IsRegistry(R), NEW id \in Ids, NEW doc, IsDocument(doc)
    PROVE  /\ IsRegistry(Bind(R, id, doc))
           /\ \A i : i \in DOMAIN Bind(R, id, doc) <=> i \in DOMAIN R \/ i = id
           /\ Bind(R, id, doc)[id] = doc
           /\ \A i \in DOMAIN R : i # id => Bind(R, id, doc)[i] = R[i]
BY DEF IsRegistry, Bind

LEMMA UnbindRegistry ==
    ASSUME NEW R, IsRegistry(R), NEW id
    PROVE  /\ IsRegistry(Unbind(R, id))
           /\ \A i : i \in DOMAIN Unbind(R, id) <=> i \in DOMAIN R /\ i # id
           /\ \A i \in DOMAIN R \ {id} : Unbind(R, id)[i] = R[i]
BY DEF IsRegistry, Unbind

LEMMA SameRegistry ==
    ASSUME NEW R, NEW S, IsRegistry(R), IsRegistry(S), DOMAIN R = DOMAIN S,
           \A id \in DOMAIN R : R[id] = S[id]
    PROVE  R = S
<1>1. R = [id \in DOMAIN R |-> R[id]] /\ S = [id \in DOMAIN S |-> S[id]]
  BY DEF IsRegistry
<1>2. [id \in DOMAIN R |-> R[id]] = [id \in DOMAIN S |-> S[id]]
  OBVIOUS
<1> QED
  BY <1>1, <1>2

(* What was bound over comes back, what was added goes again. *)
LEMMA PutBack ==
    ASSUME NEW R, IsRegistry(R), NEW id \in DOMAIN R, NEW doc, IsDocument(doc)
    PROVE  Bind(Bind(R, id, doc), id, R[id]) = R
BY DEF IsRegistry, Bind

LEMMA TakenOut ==
    ASSUME NEW R, IsRegistry(R), NEW id, id \notin DOMAIN R, NEW doc
    PROVE  Unbind(Bind(R, id, doc), id) = R
<1>1. DOMAIN Bind(R, id, doc) \ {id} = DOMAIN R
  BY DEF Bind
<1>2. Unbind(Bind(R, id, doc), id) = [i \in DOMAIN R |-> Bind(R, id, doc)[i]]
  BY <1>1 DEF Unbind
<1>3. \A i \in DOMAIN R : Bind(R, id, doc)[i] = R[i]
  BY DEF Bind
<1>4. R = [i \in DOMAIN R |-> R[i]]
  BY DEF IsRegistry
<1>5. [i \in DOMAIN R |-> Bind(R, id, doc)[i]] = [i \in DOMAIN R |-> R[i]]
  BY <1>3
<1> QED
  BY <1>2, <1>4, <1>5

LEMMA LoadedRegistry ==
    ASSUME NEW disk \in Disks, NEW R \in Loads(disk)
    PROVE  IsRegistry(R) /\ \A id \in DOMAIN R : [id |-> id, doc |-> R[id]] \in disk
<1>1. \A file \in disk : file.id \in Ids /\ IsDocument(file.doc)
  BY RegistryAssumption
<1>2. /\ R \in [{file.id : file \in disk} -> {file.doc : file \in disk}]
      /\ \A id \in DOMAIN R : [id |-> id, doc |-> R[id]] \in disk
  BY DEF Loads
<1>3. DOMAIN R = {file.id : file \in disk}
  BY <1>2
<1>4. DOMAIN R \subseteq Ids
  BY <1>1, <1>3
<1>5. \A id \in DOMAIN R : IsDocument(R[id])
  BY <1>1, <1>2
<1> QED
  BY <1>2, <1>4, <1>5 DEF IsRegistry

---------------------------------------------------------------------------
(* Calls and what they submit (RegistryAssumption).                        *)

Singles == {"register", "entity", "transient"}
Batches == {"entities", "schemas"}

LEMMA CallShape ==
    ASSUME NEW c \in Calls
    PROVE  /\ c.kind \in Kinds /\ c.validate \in BOOLEAN /\ c.mode \in Modes
           /\ c.items \in Seq(Submission)
           /\ Len(c.items) \in Nat /\ DOMAIN c.items = 1 .. Len(c.items)
           /\ \A k \in DOMAIN c.items : IsSubmission(c.items[k])
           /\ c.kind \in Singles => Len(c.items) = 1 /\ DOMAIN c.items = {1}
           /\ c.kind \in Singles \cup Batches
<1>1. c \in Call
  BY RegistryAssumption
<1>2. /\ c.kind \in Kinds /\ c.validate \in BOOLEAN /\ c.mode \in Modes
      /\ c.items \in Seq(Submission)
  BY <1>1 DEF Call
<1>3. Len(c.items) \in Nat /\ DOMAIN c.items = 1 .. Len(c.items)
  BY <1>2, LenProperties
<1>4. c.kind \in Singles => Len(c.items) = 1
  BY RegistryAssumption DEF Singles
<1>5. \A k \in DOMAIN c.items : IsSubmission(c.items[k])
  BY RegistryAssumption
<1> QED
  BY <1>2, <1>3, <1>4, <1>5, SMTT(30) DEF Kinds, Singles, Batches

LEMMA SubmissionTyped ==
    ASSUME NEW sub, IsSubmission(sub), sub.defect # "id"
    PROVE  sub.id \in Ids /\ IsDocument(sub.doc)
BY DEF IsSubmission, Submission

---------------------------------------------------------------------------
(* A call with one item, between its steps: R is the registry it began     *)
(* with, B the one it works on.                                            *)

Single(R, B, c, res, st, dis) ==
    LET sub == c.items[1] IN
    /\ res = <<>>
    /\ \/ st = <<>> /\ dis = <<>> /\ B = R
       \/ /\ c.kind # "register" /\ sub.defect \notin {"id", "keywords"}
          /\ st = <<[index |-> 1, id |-> sub.id,
                     inserted |-> c.kind = "transient" \/ ~Bound(R, sub.id)]>>
          /\ B = Bind(R, sub.id, sub.doc)
          /\ IF c.kind = "transient"
             THEN dis = [id \in DOMAIN R \cap {sub.id} |-> R[id]]
             ELSE dis = <<>> /\ ~Conflicts(R, sub)

Verdict == {"ok", "conflict", "rejected"}

(* Answers to items of c; what has no id is not accepted. *)
AnswersTyped(c, answers) ==
    /\ answers \in Seq(Verdict)
    /\ \A k \in DOMAIN answers :
          k \in DOMAIN c.items /\ (answers[k] = "ok" => c.items[k].defect # "id")

(* Typing is inductive together with what lies between the steps of a      *)
(* call.                                                                   *)
TypeInv ==
    /\ TypeOK
    /\ ~busy => staged = <<>> /\ scan = 1 /\ ~shrunk /\ displaced = <<>>
    /\ busy /\ call.kind \in Singles =>
          Single(before, by_id, call, results, staged, displaced)
    /\ busy /\ call.kind \in Batches => displaced = <<>> /\ AnswersTyped(call, results)

(* A transient entity leaves the registry as it found it (Restored). *)
LEMMA RestoredIsBefore ==
    ASSUME TypeInv, busy, call.kind = "transient", staged # <<>>
    PROVE  Restored = before
<1>1. /\ IsRegistry(before) /\ call \in Calls
      /\ by_id = Bind(before, Sub(1).id, Sub(1).doc)
      /\ displaced = [i \in DOMAIN before \cap {Sub(1).id} |-> before[i]]
      /\ Sub(1).defect # "id"
  BY DEF TypeInv, TypeOK, Single, Singles, Sub
<1>2. IsDocument(Sub(1).doc)
  BY <1>1, CallShape, SubmissionTyped DEF Sub, Singles
<1>3. CASE Sub(1).id \in DOMAIN before
  <2>1. DOMAIN displaced = {Sub(1).id} /\ displaced[Sub(1).id] = before[Sub(1).id]
    BY <1>1, <1>3
  <2>2. displaced # <<>>
    BY <2>1, EmptyRegistry
  <2> QED
    BY <1>1, <1>2, <1>3, <2>1, <2>2, PutBack DEF Restored
<1>4. CASE Sub(1).id \notin DOMAIN before
  <2>1. DOMAIN displaced = {} /\ displaced = [x \in DOMAIN displaced |-> displaced[x]]
    BY <1>1, <1>4
  <2>2. displaced = <<>>
    BY <2>1, EmptyFunction
  <2> QED
    BY <1>1, <1>4, <2>2, TakenOut DEF Restored
<1> QED
  BY <1>3, <1>4

LEMMA OpenedTyped ==
    ASSUME NEW R, IsRegistry(R), Opened(R)
    PROVE  TypeInv
<1>1. (CHOOSE c \in Calls : TRUE) \in Calls
  BY RegistryAssumption
<1>2. <<>> \in Seq(Verdict) /\ <<>> \in Seq(Staged) /\ Len(<<>>) = 0
  BY EmptySeq
<1>3. staged = <<>> /\ scan = 1 /\ Len(staged) = 0 /\ busy = FALSE /\ results = <<>>
  BY <1>2 DEF Opened
<1>4. results \in Seq({"ok", "conflict", "rejected"}) /\ staged \in Seq(Staged)
  BY <1>2, <1>3 DEF Verdict
<1>5. scan \in 1 .. Len(staged) + 1
  BY <1>3
<1>6. busy \in BOOLEAN /\ shrunk \in BOOLEAN
  BY DEF Opened
<1>7. TypeOK
  BY <1>1, <1>4, <1>5, <1>6, EmptyRegistry DEF Opened, TypeOK
<1> QED
  BY <1>3, <1>7 DEF Opened, TypeInv

(* A call returns (Return). *)
LEMMA ReturnTyped ==
    ASSUME TypeInv, NEW answers, AnswersTyped(call, answers), Return(answers),
           IsRegistry(by_id')
    PROVE  TypeInv'
<1>1. Admitted(answers) \subseteq Ids
  BY CallShape, SubmissionTyped DEF Admitted, AnswersTyped, Sub, TypeInv, TypeOK
<1>2. <<>> \in Seq(Staged) /\ Len(<<>>) = 0
  BY EmptySeq
<1>3. /\ staged' = <<>> /\ scan' = 1 /\ Len(staged') = 0 /\ busy' = FALSE
      /\ shrunk' = FALSE /\ displaced' = <<>> /\ call' = call /\ before' = before
      /\ results' \in Seq(Verdict) /\ vetted' \subseteq Ids
  BY <1>1, <1>2 DEF Return, Ended, TypeInv, TypeOK, AnswersTyped
<1>4. results' \in Seq({"ok", "conflict", "rejected"}) /\ staged' \in Seq(Staged)
  BY <1>2, <1>3 DEF Verdict
<1>5. scan' \in 1 .. Len(staged') + 1
  BY <1>3
<1>6. busy' \in BOOLEAN /\ shrunk' \in BOOLEAN
  BY <1>3
<1>7. TypeOK'
  BY <1>3, <1>4, <1>5, <1>6, EmptyRegistry DEF TypeInv, TypeOK
<1> QED
  BY <1>3, <1>7 DEF TypeInv

(* One answer, to the only item. *)
LEMMA OneAnswer ==
    ASSUME TypeInv, call.kind \in Singles, NEW a \in Verdict,
           a = "ok" => Sub(1).defect # "id"
    PROVE  AnswersTyped(call, <<a>>)
<1>1. <<a>> \in Seq(Verdict) /\ DOMAIN <<a>> = {1} /\ <<a>>[1] = a
  OBVIOUS
<1>2. 1 \in DOMAIN call.items
  BY CallShape DEF TypeInv, TypeOK
<1> QED
  BY <1>1, <1>2 DEF AnswersTyped, Sub

(* The submission of a single call, once it may be registered. *)
LEMMA SingleTyped ==
    ASSUME TypeInv, call.kind \in Singles, Sub(1).defect # "id"
    PROVE  Sub(1).id \in Ids /\ IsDocument(Sub(1).doc)
BY CallShape, SubmissionTyped DEF TypeInv, TypeOK, Sub

LEMMA RemoveAtProperties ==
    ASSUME NEW S, NEW s \in Seq(S), NEW i \in 1 .. Len(s)
    PROVE  /\ RemoveAt(s, i) \in Seq(S)
           /\ Len(RemoveAt(s, i)) = Len(s) - 1
           /\ \A j \in 1 .. Len(s) - 1 :
                 RemoveAt(s, i)[j] = IF j < i THEN s[j] ELSE s[j + 1]
<1>0. Len(s) \in Nat
  BY LenProperties
<1> DEFINE a == SubSeq(s, 1, i - 1)
           b == SubSeq(s, i + 1, Len(s))
<1>1. /\ a \in Seq(S) /\ Len(a) = i - 1
      /\ \A j \in 1 .. i - 1 : a[j] = s[j]
  <2>1. \A j \in 1 .. i - 1 : s[j] \in S
    BY <1>0, ElementOfSeq
  <2>2. a \in Seq(S)
    BY <2>1, SubSeqProperties
  <2>3. Len(a) = i - 1
    BY <1>0, <2>1, SubSeqProperties
  <2>4. \A j \in 1 .. i - 1 : a[j] = s[j]
    BY <1>0, <2>1, SubSeqProperties
  <2> QED
    BY <2>2, <2>3, <2>4
<1>2. /\ b \in Seq(S) /\ Len(b) = Len(s) - i
      /\ \A j \in 1 .. Len(s) - i : b[j] = s[i + j]
  <2>1. \A j \in i + 1 .. Len(s) : s[j] \in S
    BY <1>0, ElementOfSeq
  <2>2. b \in Seq(S)
    BY <1>0, <2>1, SubSeqProperties
  <2>3. Len(b) = Len(s) - i
    BY <1>0, <2>1, SubSeqProperties
  <2>4. \A j \in 1 .. Len(s) - i : b[j] = s[i + j]
    <3>1. \A j \in 1 .. Len(s) - (i + 1) + 1 : b[j] = s[(i + 1) + j - 1]
      BY <1>0, <2>1, SubSeqProperties
    <3>2. \A j \in 1 .. Len(s) - i : (i + 1) + j - 1 = i + j
      BY <1>0
    <3>3. Len(s) - (i + 1) + 1 = Len(s) - i
      BY <1>0
    <3> QED
      BY <3>1, <3>2, <3>3
  <2> QED
    BY <2>2, <2>3, <2>4
<1> HIDE DEF a, b
<1>3. /\ a \o b \in Seq(S) /\ Len(a \o b) = Len(a) + Len(b)
      /\ \A j \in 1 .. Len(a) + Len(b) :
            (a \o b)[j] = IF j <= Len(a) THEN a[j] ELSE b[j - Len(a)]
  BY <1>1, <1>2, ConcatProperties
<1>4. ASSUME NEW j \in 1 .. Len(s) - 1
      PROVE  (a \o b)[j] = IF j < i THEN s[j] ELSE s[j + 1]
  <2>1. CASE j < i
    BY <1>0, <1>1, <1>2, <1>3, <2>1
  <2>2. CASE ~(j < i)
    <3>1. j - (i - 1) \in 1 .. Len(s) - i /\ i + (j - (i - 1)) = j + 1
      BY <1>0, <2>2
    <3>2. b[j - (i - 1)] = s[j + 1]
      BY <1>2, <3>1
    <3> QED
      BY <1>0, <1>1, <1>2, <1>3, <2>2, <3>2
  <2> QED
    BY <2>1, <2>2
<1>5. RemoveAt(s, i) = a \o b
  BY DEF RemoveAt, a, b
<1>6. Len(a \o b) = Len(s) - 1
  BY <1>0, <1>1, <1>2, <1>3
<1> QED
  BY <1>3, <1>4, <1>5, <1>6

LEMMA TypeStep == TypeInv /\ [Next]_vars => TypeInv'
<1> SUFFICES ASSUME TypeInv, [Next]_vars PROVE TypeInv'
  OBVIOUS
<1>0. /\ IsRegistry(by_id) /\ IsRegistry(before) /\ call \in Calls
      /\ staged \in Seq(Staged) /\ Len(staged) \in Nat
      /\ results \in Seq(Verdict) /\ Len(results) \in Nat
      /\ DOMAIN results = 1 .. Len(results)
  BY LenProperties DEF TypeInv, TypeOK, Verdict
<1>1. CASE UNCHANGED vars
  BY <1>1 DEF vars, TypeInv, TypeOK, Restored, Sub
<1>2. ASSUME NEW c \in Calls, Begin(c) PROVE TypeInv'
  <2>1. <<>> \in Seq(Verdict) /\ DOMAIN <<>> = {}
    BY EmptySeq, EmptyRegistry
  <2>2. TypeOK'
    BY <1>2, <2>1 DEF Begin, TypeInv, TypeOK, Verdict
  <2> QED
    BY <1>2, <2>1, <2>2 DEF Begin, TypeInv, Single, AnswersTyped
<1>3. CASE Register
  <2>1. busy /\ call.kind = "register" /\ call.kind \in Singles
    BY <1>3 DEF Register, Singles
  <2>2. CASE Sub(1).defect = "id" \/ Conflicts(by_id, Sub(1))
    <3>1. \E a \in {"rejected", "conflict"} : Return(<<a>>) /\ UNCHANGED by_id
      BY <1>3, <2>2 DEF Register
    <3> QED
      BY <1>0, <2>1, <3>1, OneAnswer, ReturnTyped DEF Verdict
  <2>3. CASE Sub(1).defect # "id" /\ ~Conflicts(by_id, Sub(1))
    <3>1. Return(<<"ok">>) /\ by_id' = Bind(by_id, Sub(1).id, Sub(1).doc)
      BY <1>3, <2>3 DEF Register
    <3>2. IsRegistry(by_id')
      BY <1>0, <2>1, <2>3, <3>1, SingleTyped, BindRegistry
    <3>3. AnswersTyped(call, <<"ok">>)
      BY <2>1, <2>3, OneAnswer DEF Verdict
    <3> QED
      BY <3>1, <3>2, <3>3, ReturnTyped
  <2> QED
    BY <2>2, <2>3
<1>4. CASE RefuseEntity \/ RefuseTransient
  <2>1. call.kind \in Singles
    BY <1>4 DEF RefuseEntity, RefuseTransient, Singles
  <2>2. \E a \in {"rejected", "conflict"} : Return(<<a>>) /\ UNCHANGED by_id
    BY <1>4 DEF RefuseEntity, RefuseTransient
  <2> QED
    BY <1>0, <2>1, <2>2, OneAnswer, ReturnTyped DEF Verdict
<1>5. CASE RegisterEntity
  <2>1. busy /\ call.kind = "entity" /\ call.kind \in Singles /\ staged = <<>>
    BY <1>5 DEF RegisterEntity, Singles
  <2>2. Sub(1).id \in Ids /\ IsDocument(Sub(1).doc)
    BY <1>5, <2>1, SingleTyped DEF RegisterEntity
  <2>3. Single(before, by_id, call, results, staged, displaced)
    BY <2>1 DEF TypeInv
  <2>4. by_id = before /\ displaced = <<>> /\ results = <<>>
    BY <2>1, <2>3 DEF Single
  <2>5. Single(before, by_id, call, results, staged, displaced)'
    BY <1>5, <2>1, <2>4 DEF RegisterEntity, Single, Sub
  <2>6. IsRegistry(by_id')
    BY <1>0, <1>5, <2>2, BindRegistry DEF RegisterEntity
  <2>7. staged' \in Seq(Staged) /\ Len(staged') = 1
    BY <1>5, <2>2 DEF RegisterEntity, Staged
  <2>8. scan' \in 1 .. Len(staged') + 1
    <3>1. Len(staged) = 0
      BY <2>1, EmptySeq
    <3> QED
      BY <1>5, <2>7, <3>1 DEF RegisterEntity, TypeInv, TypeOK
  <2>9. TypeOK'
    BY <1>5, <2>6, <2>7, <2>8 DEF RegisterEntity, TypeInv, TypeOK
  <2> QED
    BY <1>5, <2>1, <2>5, <2>9 DEF RegisterEntity, TypeInv, Batches
<1>6. CASE CheckEntity
  <2>1. busy /\ call.kind \in Singles /\ staged # <<>>
    BY <1>6 DEF CheckEntity, Singles
  <2>2. Sub(1).defect # "id"
    BY <2>1 DEF TypeInv, Single, Sub
  <2>3. \E a \in {"ok", "rejected"} : Return(<<a>>)
    BY <1>6 DEF CheckEntity
  <2>4. IsRegistry(by_id')
    <3>1. \/ by_id' = by_id
          \/ by_id' = IF staged[1].inserted THEN Unbind(by_id, staged[1].id) ELSE by_id
      BY <1>6, Zenon DEF CheckEntity
    <3>2. IsRegistry(Unbind(by_id, staged[1].id))
      BY <1>0, UnbindRegistry
    <3> QED
      BY <1>0, <3>1, <3>2
  <2> QED
    BY <2>1, <2>2, <2>3, <2>4, OneAnswer, ReturnTyped DEF Verdict
<1>7. CASE Stage
  <2> DEFINE k == Len(results) + 1
             answer == AddUnvalidated(Sub(k))
             entry == [index |-> k, id |-> Sub(k).id, inserted |-> ~Bound(by_id, Sub(k).id)]
  <2>1. busy /\ call.kind \in Batches /\ Len(results) < Len(call.items)
    BY <1>7 DEF Stage, Batches
  <2>2. k \in DOMAIN call.items /\ IsSubmission(Sub(k))
    BY <1>0, <2>1, CallShape DEF Sub
  <2>3. answer \in Verdict /\ (answer = "ok" => Sub(k).defect # "id")
    BY DEF AddUnvalidated, Verdict
  <2>4. answer = "ok" => Sub(k).id \in Ids /\ IsDocument(Sub(k).doc)
    BY <2>2, <2>3, SubmissionTyped
  <2>5. answer = "ok" => entry \in Staged
    BY <1>0, <2>4 DEF Staged
  <2>6. /\ results' = Append(results, answer)
        /\ by_id' = IF answer = "ok" THEN Bind(by_id, Sub(k).id, Sub(k).doc) ELSE by_id
        /\ staged' = IF answer = "ok" /\ call.validate THEN Append(staged, entry) ELSE staged
        /\ UNCHANGED <<call, busy, scan, shrunk, displaced, before, vetted>>
    BY <1>7 DEF Stage
  <2> HIDE DEF answer, entry
  <2>7. IsRegistry(by_id')
    BY <1>0, <2>4, <2>6, BindRegistry
  <2>8. staged' \in Seq(Staged) /\ Len(staged') >= Len(staged) /\ Len(staged') \in Nat
    BY <1>0, <2>5, <2>6, AppendProperties, LenProperties
  <2>9. scan' \in 1 .. Len(staged') + 1
    BY <1>0, <2>6, <2>8 DEF TypeInv, TypeOK
  <2>10. AnswersTyped(call, results)'
    <3>1. /\ results' \in Seq(Verdict) /\ Len(results') = k /\ results'[k] = answer
          /\ \A j \in 1 .. Len(results) : results'[j] = results[j]
      BY <1>0, <2>3, <2>6, AppendProperties
    <3>2. DOMAIN results' = 1 .. k
      BY <3>1, LenProperties
    <3>3. AnswersTyped(call, results)
      BY <2>1 DEF TypeInv
    <3>4. ASSUME NEW j \in 1 .. k
          PROVE  j \in DOMAIN call.items /\ (results'[j] = "ok" => call.items[j].defect # "id")
      <4>1. CASE j = k
        BY <2>2, <2>3, <3>1, <4>1 DEF Sub
      <4>2. CASE j # k
        <5>1. j \in 1 .. Len(results)
          BY <1>0, <4>2
        <5> QED
          BY <1>0, <3>1, <3>3, <5>1 DEF AnswersTyped
      <4> QED
        BY <4>1, <4>2
    <3> QED
      BY <2>6, <3>1, <3>2, <3>4 DEF AnswersTyped
  <2>11. TypeOK'
    BY <2>6, <2>7, <2>8, <2>9, <2>10 DEF TypeInv, TypeOK, AnswersTyped, Verdict
  <2> QED
    BY <2>1, <2>6, <2>10, <2>11 DEF TypeInv, Batches, Singles
<1>8. CASE Validate
  <2>1. /\ busy /\ call.kind \in Batches /\ scan \in 1 .. Len(staged)
        /\ UNCHANGED <<call, busy, displaced, before, vetted>>
    BY <1>0, <1>8 DEF Validate, Schemas, Batches, TypeInv, TypeOK
  <2>2. AnswersTyped(call, results)
    BY <2>1 DEF TypeInv
  <2>3. CASE scan' = scan + 1 /\ UNCHANGED <<by_id, results, staged, shrunk>>
    <3>1. scan' \in 1 .. Len(staged') + 1
      BY <1>0, <2>1, <2>3
    <3>2. TypeOK'
      BY <2>1, <2>3, <3>1 DEF TypeInv, TypeOK
    <3> QED
      BY <2>1, <2>2, <2>3, <3>2 DEF TypeInv, Batches, Singles
  <2>4. CASE /\ by_id' = IF staged[scan].inserted THEN Unbind(by_id, staged[scan].id) ELSE by_id
             /\ results' = [results EXCEPT ![staged[scan].index] = "rejected"]
             /\ staged' = RemoveAt(staged, scan)
             /\ shrunk' = TRUE
             /\ UNCHANGED scan
    <3>1. IsRegistry(by_id')
      BY <1>0, <2>4, UnbindRegistry
    <3>2. results' \in Seq(Verdict) /\ DOMAIN results' = DOMAIN results
      <4>1. results \in [1 .. Len(results) -> Verdict]
        BY <1>0, LenProperties
      <4>2. results' \in [1 .. Len(results) -> Verdict]
        BY <2>4, <4>1 DEF Verdict
      <4> QED
        BY <1>0, <4>1, <4>2, SeqDef
    <3>3. staged' \in Seq(Staged) /\ Len(staged') = Len(staged) - 1
      BY <1>0, <2>1, <2>4, RemoveAtProperties
    <3>4. scan' \in 1 .. Len(staged') + 1
      BY <1>0, <2>1, <2>4, <3>3
    <3>5. AnswersTyped(call, results)'
      BY <2>1, <2>2, <2>4, <3>2 DEF AnswersTyped
    <3>6. TypeOK'
      BY <2>1, <2>4, <3>1, <3>2, <3>3, <3>4 DEF TypeInv, TypeOK, Verdict
    <3> QED
      BY <2>1, <3>5, <3>6 DEF TypeInv, Batches, Singles
  <2> QED
    BY <1>8, <2>3, <2>4 DEF Validate
<1>9. CASE NextPass
  <2>1. /\ busy /\ call.kind \in Batches /\ scan' = 1 /\ shrunk' = FALSE
        /\ UNCHANGED <<by_id, call, busy, results, staged, displaced, before, vetted>>
    BY <1>9 DEF NextPass, Schemas, Batches
  <2>2. scan' \in 1 .. Len(staged') + 1
    BY <1>0, <2>1
  <2>3. TypeOK'
    BY <2>1, <2>2 DEF TypeInv, TypeOK
  <2> QED
    BY <2>1, <2>3 DEF TypeInv, Batches, Singles
<1>10. CASE ReturnResults
  <2>1. busy /\ call.kind \in Batches /\ Return(results) /\ by_id' = by_id
    BY <1>10 DEF ReturnResults, Batches
  <2> QED
    BY <1>0, <2>1, ReturnTyped DEF TypeInv
<1>11. CASE Displace
  <2>1. busy /\ call.kind = "transient" /\ call.kind \in Singles /\ staged = <<>>
    BY <1>11 DEF Displace, Singles
  <2>2. Sub(1).id \in Ids /\ IsDocument(Sub(1).doc)
    BY <1>11, <2>1, SingleTyped DEF Displace
  <2>3. by_id = before /\ results = <<>>
    BY <2>1 DEF TypeInv, Single
  <2>4. Single(before, by_id, call, results, staged, displaced)'
    BY <1>11, <2>1, <2>3 DEF Displace, Single, Sub
  <2>5. IsRegistry(by_id') /\ IsRegistry(displaced')
    <3>1. IsRegistry([id \in DOMAIN by_id \cap {Sub(1).id} |-> by_id[id]])
      BY <1>0 DEF IsRegistry
    <3> QED
      BY <1>0, <1>11, <2>2, <3>1, BindRegistry DEF Displace
  <2>6. staged' \in Seq(Staged) /\ Len(staged') = 1
    BY <1>11, <2>2 DEF Displace, Staged
  <2>7. scan' \in 1 .. Len(staged') + 1
    <3>1. Len(staged) = 0
      BY <2>1, EmptySeq
    <3> QED
      BY <1>11, <2>6, <3>1 DEF Displace, TypeInv, TypeOK
  <2>8. TypeOK'
    BY <1>11, <2>5, <2>6, <2>7 DEF Displace, TypeInv, TypeOK
  <2> QED
    BY <1>11, <2>1, <2>4, <2>8 DEF Displace, TypeInv, Batches
<1>12. CASE Restore
  <2>1. busy /\ call.kind = "transient" /\ call.kind \in Singles /\ staged # <<>>
    BY <1>12 DEF Restore, Singles
  <2>2. Sub(1).defect # "id"
    BY <2>1 DEF TypeInv, Single, Sub
  <2>3. \E a \in {"ok", "rejected"} : Return(<<a>>)
    BY <1>12 DEF Restore
  <2>4. IsRegistry(by_id')
    BY <1>0, <1>12, <2>1, RestoredIsBefore DEF Restore
  <2> QED
    BY <2>1, <2>2, <2>3, <2>4, OneAnswer, ReturnTyped DEF Verdict
<1>13. CASE Panic
  <2>1. IsRegistry(by_id')
    BY <1>0, <1>13, RestoredIsBefore DEF Panic, Validating
  <2>2. AnswersTyped(call, <<>>)
    BY EmptySeq, EmptyRegistry DEF AnswersTyped
  <2>3. /\ staged' = <<>> /\ scan' = 1 /\ Len(staged') = 0 /\ busy' = FALSE
        /\ shrunk' = FALSE /\ displaced' = <<>> /\ call' = call /\ before' = before
        /\ results' = <<>> /\ vetted' = vetted
    BY <1>13, EmptySeq DEF Panic, Ended
  <2>4. results' \in Seq({"ok", "conflict", "rejected"}) /\ staged' \in Seq(Staged)
    BY <2>3, EmptySeq
  <2>5. scan' \in 1 .. Len(staged') + 1
    BY <2>3
  <2>6. busy' \in BOOLEAN /\ shrunk' \in BOOLEAN
    BY <2>3
  <2>7. TypeOK'
    BY <2>1, <2>3, <2>4, <2>5, <2>6, EmptyRegistry DEF TypeInv, TypeOK
  <2> QED
    BY <2>3, <2>7 DEF TypeInv
<1>14. CASE Reload
  <2>1. IsRegistry(by_id')
    BY <1>14, LoadedRegistry DEF Reload
  <2>2. results' \in Seq({"ok", "conflict", "rejected"})
    BY <1>14, EmptySeq DEF Reload
  <2>3. TypeOK'
    BY <1>14, <2>1, <2>2 DEF Reload, TypeInv, TypeOK
  <2> QED
    BY <1>14, <2>3 DEF Reload, TypeInv
<1> QED
  BY <1>1, <1>2, <1>3, <1>4, <1>5, <1>6, <1>7, <1>8, <1>9, <1>10, <1>11, <1>12, <1>13, <1>14
     DEF Next, Step

(* The state of the registry and of the call is always what it should be   *)
(* (TypeOK).                                                               *)
THEOREM StoreTyped == Spec => []TypeOK
<1>1. Init => TypeInv
  BY EmptyRegistry, OpenedTyped DEF Init
<1>2. TypeInv => TypeOK
  BY DEF TypeInv
<1> QED
  BY <1>1, <1>2, TypeStep, PTL DEF Spec

---------------------------------------------------------------------------
(* What the abstract registry says, in the terms of this module.           *)

LEMMA RegistryHolds ==
    ASSUME NEW R, NEW req
    PROVE  Registry!Holds(R, req) <=> Holds(R, req)
BY DEF Registry!Holds, Registry!Trusted, Registry!Valid, Registry!SelfSupporting,
       Registry!Sound, Registry!InstanceSound, Registry!PayloadSound,
       Registry!PayloadConforms, Registry!SchemaSound, Registry!LocallySound,
       Registry!OperandsOK, Registry!RefsOK, Registry!TraitsOK, Registry!BodyOK,
       Registry!ChainOK, Registry!HeadOK, Registry!DialectOK, Registry!RelatedTypes,
       Registry!Circular, Registry!Resolves, Registry!Reach, Registry!RefsOf,
       Registry!IsSchema, Registry!Ids,
       Holds, Trusted, Valid, SelfSupporting, Sound, InstanceSound, PayloadSound,
       PayloadConforms, SchemaSound, LocallySound, OperandsOK, RefsOK, TraitsOK,
       BodyOK, ChainOK, HeadOK, DialectOK, RelatedTypes, Circular, Resolves,
       Reach, RefsOf, IsSchema, Ids

LEMMA RegistryPasses ==
    ASSUME NEW R, NEW sub, NEW validate, NEW mode
    PROVE  Registry!Passes(R, sub, validate, mode) <=> Passes(R, sub, validate, mode)
BY RegistryHolds DEF Registry!Passes, Registry!Subject, Passes, Subject

New(R, c) == Registry!Candidates(R, c)

LEMMA NewBindings ==
    ASSUME NEW R, NEW c
    PROVE  New(R, c) =
              {k \in DOMAIN c.items :
                  /\ Registry!Enters(c, c.items[k])
                  /\ c.items[k].id \notin DOMAIN R
                  /\ \A j \in 1 .. k - 1 :
                        ~(Registry!Enters(c, c.items[j]) /\ c.items[j].id = c.items[k].id)}
BY DEF New, Registry!Candidates, Registry!Bound

(* New bindings differ in their ids. *)
LEMMA NewDiffer ==
    ASSUME NEW R, NEW c \in Calls, NEW j \in New(R, c), NEW k \in New(R, c),
           c.items[j].id = c.items[k].id
    PROVE  j = k
<1>1. j \in Nat /\ k \in Nat /\ j >= 1 /\ k >= 1
  BY NewBindings, CallShape
<1>2. /\ Registry!Enters(c, c.items[j]) /\ Registry!Enters(c, c.items[k])
      /\ \A i \in 1 .. k - 1 : ~(Registry!Enters(c, c.items[i]) /\ c.items[i].id = c.items[k].id)
      /\ \A i \in 1 .. j - 1 : ~(Registry!Enters(c, c.items[i]) /\ c.items[i].id = c.items[j].id)
  BY NewBindings
<1>3. ~(j < k)
  BY <1>1, <1>2
<1>4. ~(k < j)
  BY <1>1, <1>2
<1> QED
  BY <1>1, <1>3, <1>4

LEMMA NewTyped ==
    ASSUME NEW R, NEW c \in Calls, NEW k \in New(R, c)
    PROVE  /\ k \in DOMAIN c.items /\ k \in Nat
           /\ c.items[k].id \in Ids /\ IsDocument(c.items[k].doc)
           /\ c.items[k].id \notin DOMAIN R
<1>1. k \in DOMAIN c.items /\ Registry!Enters(c, c.items[k]) /\ c.items[k].id \notin DOMAIN R
  BY NewBindings
<1>2. c.items[k].defect # "id"
  BY <1>1 DEF Registry!Enters
<1> QED
  BY <1>1, <1>2, CallShape, SubmissionTyped

(* Adding a set of new bindings (Added). *)
LEMMA AddedRegistry ==
    ASSUME NEW R, IsRegistry(R), NEW c \in Calls, NEW S \in SUBSET New(R, c)
    PROVE  /\ IsRegistry(Registry!Added(R, c, S))
           /\ \A id : id \in DOMAIN Registry!Added(R, c, S)
                     <=> id \in DOMAIN R \/ \E k \in S : c.items[k].id = id
           /\ \A id \in DOMAIN R : Registry!Added(R, c, S)[id] = R[id]
           /\ \A k \in S : Registry!Added(R, c, S)[c.items[k].id] = c.items[k].doc
<1> DEFINE A == Registry!Added(R, c, S)
           at(id) == CHOOSE k \in S : c.items[k].id = id
<1>1. A = [id \in DOMAIN R \cup {c.items[k].id : k \in S} |->
              IF id \in DOMAIN R THEN R[id] ELSE c.items[at(id)].doc]
  BY DEF Registry!Added
<1>2. DOMAIN A = DOMAIN R \cup {c.items[k].id : k \in S}
  BY <1>1
<1>3. \A id \in DOMAIN R : A[id] = R[id]
  BY <1>1
<1>4. ASSUME NEW k \in S
      PROVE  A[c.items[k].id] = c.items[k].doc
  <2>1. c.items[k].id \notin DOMAIN R
    BY NewTyped
  <2>2. at(c.items[k].id) \in S /\ c.items[at(c.items[k].id)].id = c.items[k].id
    OBVIOUS
  <2>3. at(c.items[k].id) = k
    BY <2>2, NewDiffer
  <2> QED
    BY <1>1, <2>1, <2>3, ZenonT(40)
<1>5. A = [id \in DOMAIN A |-> A[id]]
  BY <1>1
<1>6. DOMAIN A \subseteq Ids
  BY <1>2, NewTyped DEF IsRegistry
<1>7. \A id \in DOMAIN A : IsDocument(A[id])
  BY <1>2, <1>3, <1>4, NewTyped DEF IsRegistry
<1>8. \A id : id \in DOMAIN A <=> id \in DOMAIN R \/ \E k \in S : c.items[k].id = id
  BY <1>2
<1>9. IsRegistry(A)
  BY <1>5, <1>6, <1>7 DEF IsRegistry
<1> QED
  BY <1>3, <1>4, <1>8, <1>9

---------------------------------------------------------------------------
(* The invariant.                                                          *)

(* No document a client submits or a reload finds negates a reference.     *)
NoNegation ==
    /\ \A c \in Calls : \A k \in DOMAIN c.items : IsPositive(c.items[k].doc)
    /\ \A disk \in Disks : \A file \in disk : IsPositive(file.doc)

Stored(B, sub) == sub.id \in DOMAIN B /\ B[sub.id] = sub.doc

(* The new bindings of c that are in the registry B it works on. *)
Kept(R, B, c) == {k \in New(R, c) : c.items[k].id \in DOMAIN B}

(* B is R with a part of what c may bind. *)
Partly(R, B, c) ==
    /\ Grown(R, B) /\ PositiveRegistry(B)
    /\ \A id \in DOMAIN B : id \in DOMAIN R \/ \E k \in Kept(R, B, c) : c.items[k].id = id
    /\ \A k \in Kept(R, B, c) : B[c.items[k].id] = c.items[k].doc

(* Every staged entry stands for an accepted item, and only for one. *)
StagedAccepted(R, B, c, res, st) ==
    /\ \A e \in DOMAIN st :
          LET k == st[e].index IN
          /\ c.kind = "schemas" /\ c.validate
          /\ k \in DOMAIN res /\ res[k] = "ok"
          /\ st[e].id = c.items[k].id
          /\ st[e].inserted <=> k \in New(R, c)
          /\ st[e].id \in DOMAIN B => B[st[e].id] = c.items[k].doc
    /\ \A d, e \in DOMAIN st : st[d].index = st[e].index => d = e

(* Every accepted item of a validated batch is staged, and what is kept is *)
(* accepted.                                                               *)
AcceptedStaged(R, B, c, res, st) ==
    /\ c.validate =>
          \A k \in DOMAIN res : res[k] = "ok" => \E e \in DOMAIN st : st[e].index = k
    /\ \A k \in Kept(R, B, c) : k \in DOMAIN res /\ res[k] = "ok"

(* What is answered is true already, or will be when every staged entry    *)
(* passes.                                                                 *)
AnswersBorneOut(B, c, res) ==
    \A k \in DOMAIN res :
        LET sub == c.items[k] IN
        /\ res[k] = "ok" => Registry!Enters(c, sub) /\ (~c.validate => Stored(B, sub))
        /\ res[k] = "conflict" => ~Stored(B, sub)
        /\ res[k] = "rejected" =>
              ~Registry!Enters(c, sub) \/ (c.validate /\ ~Passes(B, sub, TRUE, c.mode))

(* Nothing is removed before all is staged, nor without validation. *)
NothingRemoved(B, c, res, sc, sh) ==
    /\ Len(res) < Len(c.items) => sc = 1 /\ ~sh
    /\ Len(res) < Len(c.items) \/ ~c.validate =>
          \A k \in DOMAIN res :
              /\ Registry!Enters(c, c.items[k]) \/ res[k] = "conflict"
                    => c.items[k].id \in DOMAIN B
              /\ res[k] = "rejected" => ~Registry!Enters(c, c.items[k])

(* A part of the batch that stands on its own is never removed. *)
StandingKept(R, B, c, res) ==
    \A T \in SUBSET New(R, c) :
        Registry!Standing(R, c, T) => T \cap DOMAIN res \subseteq Kept(R, B, c)

(* What the running pass has seen passes still. *)
ScannedPass(B, c, st, sc, sh) ==
    ~sh => \A e \in DOMAIN st : e < sc => Passes(B, c.items[st[e].index], TRUE, c.mode)

Batch(R, B, c, res, st, sc, sh) ==
    /\ Partly(R, B, c)
    /\ StagedAccepted(R, B, c, res, st)
    /\ AcceptedStaged(R, B, c, res, st)
    /\ AnswersBorneOut(B, c, res)
    /\ NothingRemoved(B, c, res, sc, sh)
    /\ StandingKept(R, B, c, res)
    /\ ScannedPass(B, c, st, sc, sh)

StoreInv ==
    /\ TypeInv
    /\ PositiveRegistry(by_id) /\ PositiveRegistry(before)
    /\ busy /\ call.kind \in Batches =>
          Batch(before, by_id, call, results, staged, scan, shrunk)
    /\ vetted \subseteq Valid(IF busy THEN before ELSE by_id)
    /\ AnswersHonest

---------------------------------------------------------------------------
(* Parts of a batch.                                                       *)

LEMMA PartlyAdded ==
    ASSUME NEW R, PositiveRegistry(R), NEW c \in Calls, NEW B, Partly(R, B, c)
    PROVE  B = Registry!Added(R, c, Kept(R, B, c)) /\ Kept(R, B, c) \subseteq New(R, c)
<1> SUFFICES ASSUME NEW K, K = Kept(R, B, c)
             PROVE  B = Registry!Added(R, c, K) /\ K \subseteq New(R, c)
  OBVIOUS
<1>1. K \in SUBSET New(R, c) /\ IsRegistry(R) /\ IsRegistry(B)
  BY DEF Kept, Partly, Grown, PositiveRegistry
<1>2. /\ IsRegistry(Registry!Added(R, c, K))
      /\ \A id : id \in DOMAIN Registry!Added(R, c, K)
                <=> id \in DOMAIN R \/ \E k \in K : c.items[k].id = id
      /\ \A id \in DOMAIN R : Registry!Added(R, c, K)[id] = R[id]
      /\ \A k \in K : Registry!Added(R, c, K)[c.items[k].id] = c.items[k].doc
  BY <1>1, AddedRegistry
<1>3. DOMAIN Registry!Added(R, c, K) = DOMAIN B
  <2>1. \A id \in DOMAIN B : id \in DOMAIN R \/ \E k \in K : c.items[k].id = id
    BY DEF Partly
  <2>2. DOMAIN R \subseteq DOMAIN B /\ \A k \in K : c.items[k].id \in DOMAIN B
    BY DEF Partly, Grown, Kept
  <2> QED
    BY <1>2, <2>1, <2>2
<1>4. \A id \in DOMAIN B : B[id] = Registry!Added(R, c, K)[id]
  <2>1. /\ \A id \in DOMAIN B : id \in DOMAIN R \/ \E k \in K : c.items[k].id = id
        /\ \A id \in DOMAIN R : B[id] = R[id]
        /\ \A k \in K : B[c.items[k].id] = c.items[k].doc
    BY DEF Partly, Grown
  <2> QED
    BY <1>2, <2>1
<1> QED
  BY <1>1, <1>2, <1>3, <1>4, SameRegistry

(* A smaller part grows into it. *)
LEMMA AddedWithin ==
    ASSUME NEW R, PositiveRegistry(R), NEW c \in Calls, NEW B, Partly(R, B, c),
           NEW T, T \subseteq Kept(R, B, c)
    PROVE  Grown(Registry!Added(R, c, T), B)
<1>1. T \in SUBSET New(R, c) /\ IsRegistry(R) /\ Grown(R, B)
  BY DEF Kept, Partly, Grown, PositiveRegistry
<1>2. /\ IsRegistry(Registry!Added(R, c, T))
      /\ \A id : id \in DOMAIN Registry!Added(R, c, T)
                <=> id \in DOMAIN R \/ \E k \in T : c.items[k].id = id
      /\ \A id \in DOMAIN R : Registry!Added(R, c, T)[id] = R[id]
      /\ \A k \in T : Registry!Added(R, c, T)[c.items[k].id] = c.items[k].doc
  BY <1>1, AddedRegistry
<1>3. \A k \in T : c.items[k].id \in DOMAIN B /\ B[c.items[k].id] = c.items[k].doc
  BY DEF Partly, Kept
<1> QED
  BY <1>1, <1>2, <1>3 DEF Grown

(* No more is bound where the call began. *)
LEMMA PartlyNone ==
    ASSUME NEW R, PositiveRegistry(R), NEW c \in Calls
    PROVE  Partly(R, R, c) /\ Kept(R, R, c) = {}
<1>1. Kept(R, R, c) = {}
  BY NewTyped DEF Kept
<1>2. Grown(R, R)
  BY DEF Grown, PositiveRegistry
<1> QED
  BY <1>1, <1>2 DEF Partly

(* A check that passes passes in a larger registry too (GrownHolds). *)
LEMMA GrownPasses ==
    ASSUME NEW R, NEW S, Grown(R, S), PositiveRegistry(S), NEW sub, NEW mode,
           Passes(R, sub, TRUE, mode)
    PROVE  Passes(S, sub, TRUE, mode)
<1>1. Subject(sub, mode).op # "payload" /\ Holds(R, Subject(sub, mode))
  BY DEF Passes, Subject
<1> QED
  BY <1>1, GrownHolds DEF Passes

(* What passes is registered. *)
LEMMA PassesBound ==
    ASSUME NEW R, NEW sub, IsSubmission(sub), NEW mode, Passes(R, sub, TRUE, mode)
    PROVE  sub.id \in DOMAIN R
<1>1. Holds(R, Subject(sub, mode))
  BY DEF Passes
<1>2. CASE sub.doc.is_schema
  <2>1. SchemaSound(R, sub.id, Trusted(R, mode))
    BY <1>1, <1>2 DEF Holds, Subject
  <2> QED
    BY <2>1 DEF SchemaSound, LocallySound, IsSchema
<1>3. CASE ~sub.doc.is_schema
  <2>1. InstanceSound(R, sub.id, Trusted(R, mode))
    BY <1>1, <1>3 DEF Holds, Subject
  <2> QED
    BY <2>1 DEF InstanceSound
<1> QED
  BY <1>2, <1>3

(* One more binding (Bind). *)
LEMMA BindGrown ==
    ASSUME NEW B, PositiveRegistry(B), NEW id \in Ids, NEW doc, PositiveDocument(doc),
           id \in DOMAIN B => B[id] = doc
    PROVE  /\ PositiveRegistry(Bind(B, id, doc)) /\ Grown(B, Bind(B, id, doc))
           /\ \A i : i \in DOMAIN Bind(B, id, doc) <=> i \in DOMAIN B \/ i = id
           /\ Bind(B, id, doc)[id] = doc
           /\ \A i \in DOMAIN B : Bind(B, id, doc)[i] = B[i]
           /\ id \in DOMAIN B => Bind(B, id, doc) = B
<1>1. IsRegistry(B) /\ IsDocument(doc)
  BY DEF PositiveRegistry, PositiveDocument
<1>2. /\ IsRegistry(Bind(B, id, doc))
      /\ \A i : i \in DOMAIN Bind(B, id, doc) <=> i \in DOMAIN B \/ i = id
      /\ Bind(B, id, doc)[id] = doc
      /\ \A i \in DOMAIN B : i # id => Bind(B, id, doc)[i] = B[i]
  BY <1>1, BindRegistry
<1>3. \A i \in DOMAIN B : Bind(B, id, doc)[i] = B[i]
  BY <1>2
<1>4. id \in DOMAIN B => Bind(B, id, doc) = B
  <2>1. id \in DOMAIN B => DOMAIN Bind(B, id, doc) = DOMAIN B
    BY <1>2
  <2> QED
    BY <1>1, <1>2, <1>3, <2>1, SameRegistry
<1>5. Grown(B, Bind(B, id, doc))
  BY <1>1, <1>2, <1>3 DEF Grown
<1>6. PositiveRegistry(Bind(B, id, doc))
  BY <1>2, <1>3 DEF PositiveRegistry, PositiveDocument
<1> QED
  BY <1>2, <1>3, <1>4, <1>5, <1>6

(* It is one of the call's. *)
LEMMA BindPartly ==
    ASSUME NEW R, PositiveRegistry(R), NEW c \in Calls, NEW B, Partly(R, B, c),
           NEW k \in DOMAIN c.items, c.items[k].defect # "id", NoNegation,
           NEW id, id = c.items[k].id, NEW doc, doc = c.items[k].doc,
           id \in DOMAIN B => B[id] = doc, id \notin DOMAIN B => k \in New(R, c)
    PROVE  /\ Partly(R, Bind(B, id, doc), c) /\ Grown(B, Bind(B, id, doc))
           /\ Kept(R, Bind(B, id, doc), c) \subseteq Kept(R, B, c) \cup {k}
           /\ Kept(R, B, c) \subseteq Kept(R, Bind(B, id, doc), c)
<1>1. /\ id \in Ids /\ PositiveDocument(doc) /\ IsRegistry(R)
      /\ PositiveRegistry(B) /\ Grown(R, B)
  BY CallShape, SubmissionTyped DEF NoNegation, Partly, PositiveRegistry, PositiveDocument
<1> SUFFICES ASSUME NEW S, S = Bind(B, id, doc)
             PROVE  /\ Partly(R, S, c) /\ Grown(B, S)
                    /\ Kept(R, S, c) \subseteq Kept(R, B, c) \cup {k}
                    /\ Kept(R, B, c) \subseteq Kept(R, S, c)
  OBVIOUS
<1>2. /\ PositiveRegistry(S) /\ Grown(B, S) /\ S[id] = doc
      /\ \A i : i \in DOMAIN S <=> i \in DOMAIN B \/ i = id
      /\ \A i \in DOMAIN B : S[i] = B[i]
  BY <1>1, BindGrown
<1>3. Grown(R, S)
  BY <1>1, <1>2 DEF Grown
<1>4. Kept(R, B, c) \subseteq Kept(R, S, c)
  BY <1>2 DEF Kept
<1>5. \A j \in Kept(R, S, c) : j \in Kept(R, B, c) \/ (j = k /\ id \notin DOMAIN B)
  <2> SUFFICES ASSUME NEW j \in Kept(R, S, c), j \notin Kept(R, B, c)
               PROVE  j = k /\ id \notin DOMAIN B
    OBVIOUS
  <2>1. j \in New(R, c) /\ c.items[j].id = id /\ id \notin DOMAIN B
    BY <1>2 DEF Kept
  <2> QED
    BY <2>1, NewDiffer
<1>6. id \notin DOMAIN B => k \in Kept(R, S, c)
  BY <1>2 DEF Kept
<1>7. \A j \in Kept(R, S, c) : S[c.items[j].id] = c.items[j].doc
  <2>1. \A j \in Kept(R, B, c) : S[c.items[j].id] = c.items[j].doc
    BY <1>2 DEF Partly, Kept
  <2> QED
    BY <1>2, <1>5, <2>1
<1>8. \A i \in DOMAIN S : i \in DOMAIN R \/ \E j \in Kept(R, S, c) : c.items[j].id = i
  <2>1. \A i \in DOMAIN B : i \in DOMAIN R \/ \E j \in Kept(R, B, c) : c.items[j].id = i
    BY DEF Partly
  <2> QED
    BY <1>2, <1>4, <1>6, <2>1
<1>9. Partly(R, S, c)
  BY <1>2, <1>3, <1>7, <1>8 DEF Partly
<1> QED
  BY <1>2, <1>4, <1>5, <1>9

(* A binding of the call undone (Unbind). *)
LEMMA UnbindPartly ==
    ASSUME NEW R, PositiveRegistry(R), NEW c \in Calls, NEW B, Partly(R, B, c),
           NEW k \in New(R, c), NEW id, id = c.items[k].id
    PROVE  /\ Partly(R, Unbind(B, id), c) /\ Grown(Unbind(B, id), B)
           /\ Kept(R, Unbind(B, id), c) = Kept(R, B, c) \ {k}
<1>1. /\ IsRegistry(R) /\ IsRegistry(B) /\ PositiveRegistry(B) /\ Grown(R, B)
      /\ id \notin DOMAIN R
  BY NewTyped DEF Partly, PositiveRegistry
<1> SUFFICES ASSUME NEW S, S = Unbind(B, id)
             PROVE  /\ Partly(R, S, c) /\ Grown(S, B)
                    /\ Kept(R, S, c) = Kept(R, B, c) \ {k}
  OBVIOUS
<1>2. /\ IsRegistry(S)
      /\ \A i : i \in DOMAIN S <=> i \in DOMAIN B /\ i # id
      /\ \A i \in DOMAIN B \ {id} : S[i] = B[i]
  BY <1>1, UnbindRegistry
<1>3. Grown(S, B) /\ Grown(R, S) /\ PositiveRegistry(S)
  BY <1>1, <1>2 DEF Grown, PositiveRegistry
<1>4. \A j \in New(R, c) : c.items[j].id = id => j = k
  BY NewDiffer
<1>5. Kept(R, S, c) = Kept(R, B, c) \ {k}
  BY <1>2, <1>4 DEF Kept
<1>6. \A j \in Kept(R, S, c) : S[c.items[j].id] = c.items[j].doc
  <2>1. \A j \in Kept(R, B, c) : B[c.items[j].id] = c.items[j].doc
    BY DEF Partly
  <2>2. \A j \in Kept(R, S, c) : c.items[j].id \in DOMAIN S
    BY DEF Kept
  <2> QED
    BY <1>2, <1>5, <2>1, <2>2
<1>7. \A i \in DOMAIN S : i \in DOMAIN R \/ \E j \in Kept(R, S, c) : c.items[j].id = i
  <2>1. \A i \in DOMAIN B : i \in DOMAIN R \/ \E j \in Kept(R, B, c) : c.items[j].id = i
    BY DEF Partly
  <2> QED
    BY <1>2, <1>5, <2>1
<1> QED
  BY <1>3, <1>5, <1>6, <1>7 DEF Partly

---------------------------------------------------------------------------
(* The steps of a batch.                                                   *)

LEMMA BatchBegun ==
    ASSUME NEW R, PositiveRegistry(R), NEW c \in Calls
    PROVE  Batch(R, R, c, <<>>, <<>>, 1, FALSE)
<1>1. DOMAIN <<>> = {}
  BY EmptyRegistry
<1>2. Partly(R, R, c) /\ Kept(R, R, c) = {}
  BY PartlyNone
<1>3. StagedAccepted(R, R, c, <<>>, <<>>) /\ AcceptedStaged(R, R, c, <<>>, <<>>)
  BY <1>1, <1>2 DEF StagedAccepted, AcceptedStaged
<1>4. AnswersBorneOut(R, c, <<>>) /\ NothingRemoved(R, c, <<>>, 1, FALSE)
  BY <1>1 DEF AnswersBorneOut, NothingRemoved
<1>5. StandingKept(R, R, c, <<>>)
  BY <1>1 DEF StandingKept
<1>6. ScannedPass(R, c, <<>>, 1, FALSE)
  BY <1>1 DEF ScannedPass
<1> QED
  BY <1>2, <1>3, <1>4, <1>5, <1>6 DEF Batch

(* What an unvalidated registration of a batch item answers. *)
LEMMA AddAnswer ==
    ASSUME call \in Calls, call.kind \in Batches, NEW k \in DOMAIN call.items
    PROVE  /\ AddUnvalidated(Sub(k)) \in Verdict
           /\ AddUnvalidated(Sub(k)) = "ok"
                 => Registry!Enters(call, Sub(k)) /\ ~Conflicts(by_id, Sub(k))
           /\ AddUnvalidated(Sub(k)) = "conflict" => Conflicts(by_id, Sub(k))
           /\ AddUnvalidated(Sub(k)) = "rejected" => ~Registry!Enters(call, Sub(k))
<1> DEFINE sub == Sub(k)
<1>1. IsSubmission(sub)
  BY CallShape DEF Sub
<1>2. ~sub.doc.is_schema => sub.defect # "refs"
  BY <1>1 DEF IsSubmission
<1>3. Passes(by_id, sub, FALSE, call.mode) <=> sub.defect # "refs"
  BY <1>2 DEF Passes
<1>4. call.kind # "register" /\ call.kind # "entity"
  BY DEF Batches
<1>5. Registry!Enters(call, sub) <=>
         /\ sub.defect \notin {"id", "keywords", "refs"}
         /\ call.kind = "schemas" => sub.canonical
  BY <1>4 DEF Registry!Enters
<1> HIDE DEF sub
<1>6. AddUnvalidated(sub) =
        IF \/ sub.defect \in {"id", "keywords"}
           \/ call.kind = "schemas" /\ ~sub.canonical
        THEN "rejected"
        ELSE IF Conflicts(by_id, sub) THEN "conflict"
        ELSE IF Passes(by_id, sub, FALSE, call.mode) THEN "ok"
        ELSE "rejected"
  BY DEF AddUnvalidated
<1> QED
  BY <1>3, <1>5, <1>6 DEF Verdict, sub

(* What one item of a batch, answered a, does to the call's registry B, its *)
(* answers and its staged entries.                                          *)
Staging(R, B, c, res, st, k, id, doc, a, S, e, st2, res2) ==
    /\ PositiveRegistry(R) /\ c \in Calls /\ c.kind \in Batches
    /\ res \in Seq(Verdict) /\ st \in Seq(Staged)
    /\ Len(res) < Len(c.items) /\ Batch(R, B, c, res, st, 1, FALSE)
    /\ k = Len(res) + 1 /\ id = c.items[k].id /\ doc = c.items[k].doc
    /\ a \in Verdict
    /\ a = "ok" => Registry!Enters(c, c.items[k]) /\ (id \in DOMAIN B => B[id] = doc)
    /\ a = "conflict" => id \in DOMAIN B /\ B[id] # doc
    /\ a = "rejected" => ~Registry!Enters(c, c.items[k])
    /\ S = IF a = "ok" THEN Bind(B, id, doc) ELSE B
    /\ a = "ok" => e \in Staged
    /\ e.index = k /\ e.id = id /\ (e.inserted <=> id \notin DOMAIN B)
    /\ st2 = IF a = "ok" /\ c.validate THEN Append(st, e) ELSE st
    /\ res2 = Append(res, a)

(* The next item is answered a, and bound and staged if it may be (Stage). *)
LEMMA BatchStaged ==
    ASSUME NoNegation, NEW R, NEW c, NEW B, NEW res, NEW st, NEW k, NEW id, NEW doc, NEW a,
           NEW S, NEW e, NEW st2, NEW res2,
           Staging(R, B, c, res, st, k, id, doc, a, S, e, st2, res2)
    PROVE  Batch(R, S, c, res2, st2, 1, FALSE)
<1> SUFFICES ASSUME PositiveRegistry(R), c \in Calls, c.kind \in Batches,
                    res \in Seq(Verdict), st \in Seq(Staged),
                    Len(res) < Len(c.items), Batch(R, B, c, res, st, 1, FALSE),
                    k = Len(res) + 1, id = c.items[k].id, doc = c.items[k].doc,
                    a \in Verdict,
                    a = "ok" => Registry!Enters(c, c.items[k]) /\ (id \in DOMAIN B => B[id] = doc),
                    a = "conflict" => id \in DOMAIN B /\ B[id] # doc,
                    a = "rejected" => ~Registry!Enters(c, c.items[k]),
                    S = IF a = "ok" THEN Bind(B, id, doc) ELSE B,
                    a = "ok" => e \in Staged,
                    e.index = k, e.id = id, e.inserted <=> id \notin DOMAIN B,
                    st2 = IF a = "ok" /\ c.validate THEN Append(st, e) ELSE st,
                    res2 = Append(res, a)
             PROVE  Batch(R, S, c, res2, st2, 1, FALSE)
  BY DEF Staging
<1>0. /\ Len(res) \in Nat /\ DOMAIN res = 1 .. Len(res) /\ k \in DOMAIN c.items
      /\ k \notin DOMAIN res /\ DOMAIN res2 = DOMAIN res \cup {k}
      /\ res2[k] = a /\ \A j \in DOMAIN res : res2[j] = res[j]
  <2>1. Len(res) \in Nat /\ DOMAIN res = 1 .. Len(res)
    BY LenProperties
  <2>2. /\ res2 \in Seq(Verdict) /\ Len(res2) = k /\ res2[k] = a
        /\ \A j \in 1 .. Len(res) : res2[j] = res[j]
    BY AppendProperties
  <2>3. DOMAIN res2 = 1 .. k
    BY <2>2, LenProperties
  <2>4. k \in DOMAIN c.items
    BY <2>1, CallShape
  <2> QED
    BY <2>1, <2>2, <2>3, <2>4
<1>1. /\ Partly(R, B, c) /\ StagedAccepted(R, B, c, res, st) /\ AcceptedStaged(R, B, c, res, st)
      /\ AnswersBorneOut(B, c, res) /\ NothingRemoved(B, c, res, 1, FALSE)
      /\ StandingKept(R, B, c, res)
  BY DEF Batch
<1>2. \A j \in DOMAIN res :
         /\ Registry!Enters(c, c.items[j]) \/ res[j] = "conflict" => c.items[j].id \in DOMAIN B
         /\ res[j] = "rejected" => ~Registry!Enters(c, c.items[j])
  BY <1>1 DEF NothingRemoved
<1>3. k \in New(R, c) <=> Registry!Enters(c, c.items[k]) /\ id \notin DOMAIN B
  <2>1. ASSUME Registry!Enters(c, c.items[k]), id \notin DOMAIN B
        PROVE  k \in New(R, c)
    <3>1. id \notin DOMAIN R
      BY <1>1, <2>1 DEF Partly, Grown
    <3>2. \A j \in 1 .. k - 1 : ~(Registry!Enters(c, c.items[j]) /\ c.items[j].id = id)
      BY <1>0, <1>2, <2>1
    <3> QED
      BY <1>0, <2>1, <3>1, <3>2, NewBindings
  <2>2. ASSUME k \in New(R, c), id \in DOMAIN B
        PROVE  FALSE
    <3>1. id \notin DOMAIN R
      BY <2>2, NewTyped
    <3>2. PICK j \in Kept(R, B, c) : c.items[j].id = id
      BY <1>1, <2>2, <3>1 DEF Partly
    <3>3. j \in DOMAIN res /\ j \in New(R, c)
      BY <1>1 DEF AcceptedStaged, Kept
    <3>4. j = k
      BY <2>2, <3>2, <3>3, NewDiffer
    <3> QED
      BY <1>0, <3>3, <3>4
  <2>3. k \in New(R, c) => Registry!Enters(c, c.items[k])
    BY NewBindings
  <2> QED
    BY <2>1, <2>2, <2>3
<1>4. /\ Partly(R, S, c) /\ Grown(B, S) /\ PositiveRegistry(S)
      /\ Kept(R, B, c) \subseteq Kept(R, S, c)
      /\ \A j \in Kept(R, S, c) : j \in Kept(R, B, c) \/ (j = k /\ a = "ok")
      /\ a = "ok" => id \in DOMAIN S /\ S[id] = doc
  <2>1. CASE a = "ok"
    <3>1. c.items[k].defect # "id"
      BY <2>1 DEF Registry!Enters
    <3>2. id \in Ids /\ PositiveDocument(doc) /\ PositiveRegistry(B)
      BY <1>0, <1>1, <3>1, CallShape, SubmissionTyped DEF NoNegation, Partly, PositiveDocument
    <3>3. id \notin DOMAIN B => k \in New(R, c)
      BY <1>3, <2>1
    <3>4. /\ Partly(R, Bind(B, id, doc), c) /\ Grown(B, Bind(B, id, doc))
          /\ Kept(R, Bind(B, id, doc), c) \subseteq Kept(R, B, c) \cup {k}
          /\ Kept(R, B, c) \subseteq Kept(R, Bind(B, id, doc), c)
      BY <1>0, <1>1, <2>1, <3>1, <3>3, BindPartly
    <3>5. id \in DOMAIN Bind(B, id, doc) /\ Bind(B, id, doc)[id] = doc
      BY <2>1, <3>2, BindGrown
    <3> QED
      BY <2>1, <3>4, <3>5 DEF Partly
  <2>2. CASE a # "ok"
    BY <1>1, <2>2 DEF Partly, Grown, PositiveRegistry
  <2> QED
    BY <2>1, <2>2
<1>5. /\ \A d \in DOMAIN st2 :
             \/ d \in DOMAIN st /\ st2[d] = st[d]
             \/ d \notin DOMAIN st /\ st2[d] = e /\ a = "ok" /\ c.validate
      /\ \A d \in DOMAIN st : d \in DOMAIN st2 /\ st2[d] = st[d]
      /\ a = "ok" /\ c.validate => \E d \in DOMAIN st2 : st2[d] = e
      /\ \A d1, d2 \in DOMAIN st2 : d1 \notin DOMAIN st /\ d2 \notin DOMAIN st => d1 = d2
  <2>0. Len(st) \in Nat /\ DOMAIN st = 1 .. Len(st)
    BY LenProperties
  <2>1. CASE a = "ok" /\ c.validate
    <3>1. /\ Append(st, e) \in Seq(Staged) /\ Len(Append(st, e)) = Len(st) + 1
          /\ Append(st, e)[Len(st) + 1] = e
          /\ \A d \in 1 .. Len(st) : Append(st, e)[d] = st[d]
      BY <2>1, AppendProperties
    <3>2. DOMAIN st2 = 1 .. Len(st) + 1 /\ st2 = Append(st, e)
      BY <2>1, <3>1, LenProperties
    <3>3. \A d \in DOMAIN st : d \in DOMAIN st2 /\ st2[d] = st[d]
      BY <2>0, <3>1, <3>2
    <3>4. \A d \in DOMAIN st2 : d \in DOMAIN st \/ (d \notin DOMAIN st /\ d = Len(st) + 1)
      BY <2>0, <3>2
    <3>5. Len(st) + 1 \in DOMAIN st2 /\ st2[Len(st) + 1] = e
      BY <2>0, <3>1, <3>2
    <3> QED
      BY <2>1, <3>3, <3>4, <3>5
  <2>2. CASE ~(a = "ok" /\ c.validate)
    BY <2>2
  <2> QED
    BY <2>1, <2>2
<1> HIDE DEF Batch
<1>6. StagedAccepted(R, S, c, res2, st2)
  <2>1. ASSUME NEW d \in DOMAIN st2
        PROVE  /\ c.kind = "schemas" /\ c.validate
               /\ st2[d].index \in DOMAIN res2 /\ res2[st2[d].index] = "ok"
               /\ st2[d].id = c.items[st2[d].index].id
               /\ st2[d].inserted <=> st2[d].index \in New(R, c)
               /\ st2[d].id \in DOMAIN S => S[st2[d].id] = c.items[st2[d].index].doc
    <3>1. CASE d \in DOMAIN st /\ st2[d] = st[d]
      <4>1. /\ c.kind = "schemas" /\ c.validate
            /\ st[d].index \in DOMAIN res /\ res[st[d].index] = "ok"
            /\ st[d].id = c.items[st[d].index].id
            /\ st[d].inserted <=> st[d].index \in New(R, c)
            /\ st[d].id \in DOMAIN B => B[st[d].id] = c.items[st[d].index].doc
        BY <1>1, <3>1 DEF StagedAccepted
      <4>2. Registry!Enters(c, c.items[st[d].index])
        BY <1>1, <4>1 DEF AnswersBorneOut
      <4>3. st[d].id \in DOMAIN B
        BY <1>2, <4>1, <4>2
      <4>4. S[st[d].id] = c.items[st[d].index].doc
        BY <1>4, <4>1, <4>3 DEF Grown
      <4> QED
        BY <1>0, <3>1, <4>1, <4>4, ZenonT(40)
    <3>2. CASE st2[d] = e /\ a = "ok" /\ c.validate
      <4>1. c.kind = "schemas"
        BY <3>2, RegistryAssumption DEF Batches
      <4>2. st2[d].index = k /\ st2[d].id = id /\ (st2[d].inserted <=> id \notin DOMAIN B)
        BY <3>2
      <4>3. st2[d].inserted <=> k \in New(R, c)
        BY <1>3, <3>2, <4>2
      <4> QED
        BY <1>0, <1>4, <3>2, <4>1, <4>2, <4>3
    <3> QED
      BY <1>5, <3>1, <3>2
  <2>2. ASSUME NEW d1 \in DOMAIN st2, NEW d2 \in DOMAIN st2, st2[d1].index = st2[d2].index
        PROVE  d1 = d2
    <3>1. \A d \in DOMAIN st : st[d].index \in DOMAIN res
      BY <1>1 DEF StagedAccepted
    <3>2. \A d \in DOMAIN st2 : d \notin DOMAIN st => st2[d].index = k
      BY <1>5
    <3>3. CASE d1 \in DOMAIN st /\ d2 \in DOMAIN st
      BY <1>1, <1>5, <2>2, <3>3 DEF StagedAccepted
    <3>4. CASE d1 \notin DOMAIN st \/ d2 \notin DOMAIN st
      BY <1>0, <1>5, <2>2, <3>1, <3>2, <3>4
    <3> QED
      BY <3>3, <3>4
  <2> QED
    BY <2>1, <2>2 DEF StagedAccepted
<1>7. AcceptedStaged(R, S, c, res2, st2)
  <2>1. ASSUME c.validate, NEW j \in DOMAIN res2, res2[j] = "ok"
        PROVE  \E d \in DOMAIN st2 : st2[d].index = j
    <3>1. CASE j = k
      BY <1>0, <1>5, <2>1, <3>1
    <3>2. CASE j # k
      <4>1. PICK d \in DOMAIN st : st[d].index = j
        BY <1>0, <1>1, <2>1, <3>2 DEF AcceptedStaged
      <4> QED
        BY <1>5, <4>1
    <3> QED
      BY <3>1, <3>2
  <2>2. \A j \in Kept(R, S, c) : j \in DOMAIN res2 /\ res2[j] = "ok"
    <3>1. \A j \in Kept(R, B, c) : j \in DOMAIN res /\ res[j] = "ok"
      BY <1>1 DEF AcceptedStaged
    <3> QED
      BY <1>0, <1>4, <3>1
  <2> QED
    BY <2>1, <2>2 DEF AcceptedStaged
<1>8. AnswersBorneOut(S, c, res2)
  <2> SUFFICES ASSUME NEW j \in DOMAIN res2
               PROVE  /\ res2[j] = "ok" => Registry!Enters(c, c.items[j])
                                             /\ (~c.validate => Stored(S, c.items[j]))
                      /\ res2[j] = "conflict" => ~Stored(S, c.items[j])
                      /\ res2[j] = "rejected" => ~Registry!Enters(c, c.items[j])
    BY DEF AnswersBorneOut
  <2>1. CASE j = k
    BY <1>0, <1>4, <2>1 DEF Stored, Grown
  <2>2. CASE j # k
    <3>1. j \in DOMAIN res /\ res2[j] = res[j]
      BY <1>0, <2>2
    <3>2. /\ res[j] = "ok" => Registry!Enters(c, c.items[j])
                                 /\ (~c.validate => Stored(B, c.items[j]))
          /\ res[j] = "conflict" => ~Stored(B, c.items[j])
      BY <1>1, <3>1 DEF AnswersBorneOut
    <3> QED
      BY <1>2, <1>4, <3>1, <3>2 DEF Stored, Grown
  <2> QED
    BY <2>1, <2>2
<1>9. NothingRemoved(S, c, res2, 1, FALSE)
  <2>1. DOMAIN B \subseteq DOMAIN S
    BY <1>4 DEF Grown
  <2>2. \A j \in DOMAIN res2 :
          /\ Registry!Enters(c, c.items[j]) \/ res2[j] = "conflict" => c.items[j].id \in DOMAIN S
          /\ res2[j] = "rejected" => ~Registry!Enters(c, c.items[j])
    BY <1>0, <1>2, <1>4, <2>1, ZenonT(40) DEF Verdict
  <2> QED
    BY <2>2 DEF NothingRemoved
<1>10. StandingKept(R, S, c, res2)
  <2> SUFFICES ASSUME NEW T \in SUBSET New(R, c), Registry!Standing(R, c, T),
                      NEW j \in T \cap DOMAIN res2
               PROVE  j \in Kept(R, S, c)
    BY DEF StandingKept
  <2>1. CASE j = k
    <3>1. k \in New(R, c) /\ Registry!Enters(c, c.items[k]) /\ id \notin DOMAIN B
      BY <1>3, <2>1
    <3>2. a = "ok"
      BY <3>1 DEF Verdict
    <3> QED
      BY <1>4, <2>1, <3>1, <3>2 DEF Kept
  <2>2. CASE j # k
    <3>1. T \cap DOMAIN res \subseteq Kept(R, B, c)
      BY <1>1 DEF StandingKept
    <3>2. j \in DOMAIN res
      BY <1>0, <2>2
    <3> QED
      BY <1>4, <3>1, <3>2
  <2> QED
    BY <2>1, <2>2
<1>11. ScannedPass(S, c, st2, 1, FALSE)
  <2>1. st2 \in Seq(Staged)
    BY AppendProperties
  <2>2. \A d \in DOMAIN st2 : ~(d < 1)
    BY <2>1, LenProperties
  <2> QED
    BY <2>2 DEF ScannedPass
<1> QED
  BY <1>4, <1>6, <1>7, <1>8, <1>9, <1>10, <1>11 DEF Batch

(* The entry a pass has come to passes (Validate). *)
LEMMA BatchPassed ==
    ASSUME NEW R, NEW c \in Calls, NEW B, NEW res, NEW st \in Seq(Staged),
           NEW sc \in 1 .. Len(st), NEW sh, Len(res) = Len(c.items),
           Batch(R, B, c, res, st, sc, sh),
           Passes(B, c.items[st[sc].index], TRUE, c.mode)
    PROVE  Batch(R, B, c, res, st, sc + 1, sh)
<1>0. Len(st) \in Nat /\ DOMAIN st = 1 .. Len(st) /\ Len(c.items) \in Nat
  BY LenProperties, CallShape
<1>1. c.validate
  BY <1>0 DEF Batch, StagedAccepted
<1>2. NothingRemoved(B, c, res, sc + 1, sh)
  BY <1>0, <1>1 DEF NothingRemoved
<1>3. ScannedPass(B, c, st, sc + 1, sh)
  <2> SUFFICES ASSUME ~sh, NEW e \in DOMAIN st, e < sc + 1
               PROVE  Passes(B, c.items[st[e].index], TRUE, c.mode)
    BY DEF ScannedPass
  <2>1. e < sc \/ e = sc
    BY <1>0
  <2> QED
    BY <2>1 DEF Batch, ScannedPass
<1> QED
  BY <1>2, <1>3 DEF Batch

(* The next pass (NextPass). *)
LEMMA BatchAgain ==
    ASSUME NEW R, NEW c \in Calls, NEW B, NEW res, NEW st \in Seq(Staged),
           NEW sc, NEW sh, Len(res) = Len(c.items), Batch(R, B, c, res, st, sc, sh)
    PROVE  Batch(R, B, c, res, st, 1, FALSE)
<1>0. Len(st) \in Nat /\ DOMAIN st = 1 .. Len(st) /\ Len(c.items) \in Nat
  BY LenProperties, CallShape
<1>1. NothingRemoved(B, c, res, 1, FALSE)
  BY <1>0 DEF Batch, NothingRemoved
<1>2. ScannedPass(B, c, st, 1, FALSE)
  BY <1>0 DEF ScannedPass
<1> QED
  BY <1>1, <1>2 DEF Batch

(* The entry fails, and goes with what it bound (Validate). *)
LEMMA BatchUnstaged ==
    ASSUME NEW R, PositiveRegistry(R), NEW c \in Calls, NEW B,
           NEW res \in Seq(Verdict), NEW st \in Seq(Staged),
           NEW sc \in 1 .. Len(st), NEW sh, Len(res) = Len(c.items),
           Batch(R, B, c, res, st, sc, sh),
           NEW i, i = st[sc].index, ~Passes(B, c.items[i], TRUE, c.mode),
           NEW S, S = IF st[sc].inserted THEN Unbind(B, st[sc].id) ELSE B,
           NEW res2, res2 = [res EXCEPT ![i] = "rejected"],
           NEW st2, st2 = RemoveAt(st, sc)
    PROVE  Batch(R, S, c, res2, st2, sc, TRUE)
<1>0. Len(st) \in Nat /\ DOMAIN st = 1 .. Len(st) /\ Len(c.items) \in Nat
  BY LenProperties, CallShape
<1>1. /\ Partly(R, B, c) /\ StagedAccepted(R, B, c, res, st) /\ AcceptedStaged(R, B, c, res, st)
      /\ AnswersBorneOut(B, c, res) /\ StandingKept(R, B, c, res)
  BY DEF Batch
<1> HIDE DEF Batch
<1>2. /\ c.kind = "schemas" /\ c.validate /\ i \in DOMAIN res /\ res[i] = "ok"
      /\ st[sc].id = c.items[i].id /\ (st[sc].inserted <=> i \in New(R, c))
  BY <1>0, <1>1 DEF StagedAccepted
<1>3. /\ DOMAIN res2 = DOMAIN res /\ res2[i] = "rejected"
      /\ \A j \in DOMAIN res : j # i => res2[j] = res[j]
  BY <1>2
<1>4. /\ Partly(R, S, c) /\ Grown(S, B)
      /\ Kept(R, S, c) = Kept(R, B, c) \ {i}
  <2>1. CASE st[sc].inserted
    BY <1>1, <1>2, <2>1, UnbindPartly
  <2>2. CASE ~st[sc].inserted
    <3>1. i \notin Kept(R, B, c)
      BY <1>2, <2>2 DEF Kept
    <3>2. Grown(B, B)
      BY <1>1 DEF Partly, Grown
    <3> QED
      BY <1>1, <2>2, <3>1, <3>2
  <2> QED
    BY <2>1, <2>2
<1>5. /\ \A d \in DOMAIN st2 :
             /\ d \in Nat /\ (d < sc => d \in DOMAIN st /\ st2[d] = st[d])
             /\ ~(d < sc) => d + 1 \in DOMAIN st /\ st2[d] = st[d + 1]
      /\ \A d \in DOMAIN st : d # sc => \E e \in DOMAIN st2 : st2[e] = st[d]
  <2>1. /\ st2 \in Seq(Staged) /\ Len(st2) = Len(st) - 1
        /\ \A j \in 1 .. Len(st) - 1 : st2[j] = IF j < sc THEN st[j] ELSE st[j + 1]
    BY RemoveAtProperties
  <2>2. DOMAIN st2 = 1 .. Len(st) - 1
    BY <2>1, LenProperties
  <2>3. \A d \in DOMAIN st2 :
          /\ d \in Nat /\ (d < sc => d \in DOMAIN st /\ st2[d] = st[d])
          /\ ~(d < sc) => d + 1 \in DOMAIN st /\ st2[d] = st[d + 1]
    BY <1>0, <2>1, <2>2
  <2>4. ASSUME NEW d \in DOMAIN st, d # sc
        PROVE  \E e \in DOMAIN st2 : st2[e] = st[d]
    <3>1. CASE d < sc
      BY <1>0, <2>1, <2>2, <3>1, SMTT(30)
    <3>2. CASE d > sc
      <4>1. d - 1 \in DOMAIN st2 /\ ~(d - 1 < sc) /\ (d - 1) + 1 = d
        BY <1>0, <2>2, <3>2
      <4>2. st2[d - 1] = st[d]
        BY <2>1, <2>2, <4>1
      <4> QED
        BY <4>1, <4>2
    <3> QED
      BY <1>0, <2>4, <3>1, <3>2
  <2> QED
    BY <2>3, <2>4
<1>6. StagedAccepted(R, S, c, res2, st2)
  <2>1. \A d \in DOMAIN st :
          /\ st[d].index \in DOMAIN res /\ res[st[d].index] = "ok"
          /\ st[d].id = c.items[st[d].index].id
          /\ st[d].inserted <=> st[d].index \in New(R, c)
          /\ st[d].id \in DOMAIN B => B[st[d].id] = c.items[st[d].index].doc
    BY <1>1 DEF StagedAccepted
  <2>2. \A d, e \in DOMAIN st : st[d].index = st[e].index => d = e
    BY <1>1 DEF StagedAccepted
  <2>3. ASSUME NEW d \in DOMAIN st2
        PROVE  \E e \in DOMAIN st : st2[d] = st[e] /\ e # sc
    <3>1. CASE d < sc
      BY <1>0, <1>5, <3>1
    <3>2. CASE ~(d < sc)
      <4>1. d + 1 # sc
        BY <1>0, <1>5, <3>2
      <4> QED
        BY <1>5, <3>2, <4>1
    <3> QED
      BY <3>1, <3>2
  <2>4. ASSUME NEW d \in DOMAIN st2
        PROVE  /\ c.kind = "schemas" /\ c.validate
               /\ st2[d].index \in DOMAIN res2 /\ res2[st2[d].index] = "ok"
               /\ st2[d].id = c.items[st2[d].index].id
               /\ st2[d].inserted <=> st2[d].index \in New(R, c)
               /\ st2[d].id \in DOMAIN S => S[st2[d].id] = c.items[st2[d].index].doc
    <3>1. PICK e \in DOMAIN st : st2[d] = st[e] /\ e # sc
      BY <2>3
    <3>2. st[e].index # i
      BY <1>0, <2>2, <3>1
    <3>3. st[e].id \in DOMAIN S => st[e].id \in DOMAIN B /\ S[st[e].id] = B[st[e].id]
      BY <1>4 DEF Grown
    <3> QED
      BY <1>2, <1>3, <2>1, <3>1, <3>2, <3>3
  <2>5. ASSUME NEW d1 \in DOMAIN st2, NEW d2 \in DOMAIN st2, st2[d1].index = st2[d2].index
        PROVE  d1 = d2
    <3>1. CASE d1 < sc /\ d2 < sc
      BY <1>5, <2>2, <2>5, <3>1
    <3>2. CASE ~(d1 < sc) /\ ~(d2 < sc)
      <4>1. d1 + 1 = d2 + 1
        BY <1>5, <2>2, <2>5, <3>2
      <4> QED
        BY <1>5, <4>1
    <3>3. CASE d1 < sc /\ ~(d2 < sc)
      <4>1. d1 = d2 + 1
        BY <1>5, <2>2, <2>5, <3>3
      <4> QED
        BY <1>5, <3>3, <4>1
    <3>4. CASE ~(d1 < sc) /\ d2 < sc
      <4>1. d1 + 1 = d2
        BY <1>5, <2>2, <2>5, <3>4
      <4> QED
        BY <1>5, <3>4, <4>1
    <3> QED
      BY <3>1, <3>2, <3>3, <3>4
  <2> QED
    BY <2>4, <2>5 DEF StagedAccepted
<1>7. AcceptedStaged(R, S, c, res2, st2)
  <2>1. ASSUME NEW j \in DOMAIN res2, res2[j] = "ok"
        PROVE  \E d \in DOMAIN st2 : st2[d].index = j
    <3>1. j \in DOMAIN res /\ res[j] = "ok" /\ j # i
      BY <1>3, <2>1
    <3>2. PICK d \in DOMAIN st : st[d].index = j
      BY <1>1, <1>2, <3>1 DEF AcceptedStaged
    <3>3. d # sc
      BY <3>1, <3>2
    <3> QED
      BY <1>5, <3>2, <3>3
  <2>2. \A j \in Kept(R, S, c) : j \in DOMAIN res2 /\ res2[j] = "ok"
    BY <1>1, <1>3, <1>4 DEF AcceptedStaged
  <2> QED
    BY <2>1, <2>2 DEF AcceptedStaged
<1>8. \A sub : Passes(S, sub, TRUE, c.mode) => Passes(B, sub, TRUE, c.mode)
  BY <1>1, <1>4, GrownPasses, ZenonT(40) DEF Partly
<1>9. AnswersBorneOut(S, c, res2)
  <2> SUFFICES ASSUME NEW j \in DOMAIN res2
               PROVE  /\ res2[j] = "ok" => Registry!Enters(c, c.items[j])
                      /\ res2[j] = "conflict" => ~Stored(S, c.items[j])
                      /\ res2[j] = "rejected" =>
                            ~Registry!Enters(c, c.items[j]) \/ ~Passes(S, c.items[j], TRUE, c.mode)
    BY <1>2 DEF AnswersBorneOut
  <2>1. CASE j = i
    BY <1>3, <1>8, <2>1
  <2>2. CASE j # i
    <3>1. j \in DOMAIN res /\ res2[j] = res[j]
      BY <1>3, <2>2
    <3>2. /\ res[j] = "ok" => Registry!Enters(c, c.items[j])
          /\ res[j] = "conflict" => ~Stored(B, c.items[j])
          /\ res[j] = "rejected" =>
                ~Registry!Enters(c, c.items[j]) \/ ~Passes(B, c.items[j], TRUE, c.mode)
      BY <1>1, <3>1 DEF AnswersBorneOut
    <3>3. Stored(S, c.items[j]) => Stored(B, c.items[j])
      BY <1>4 DEF Stored, Grown
    <3> QED
      BY <1>8, <3>1, <3>2, <3>3
  <2> QED
    BY <2>1, <2>2
<1>10. NothingRemoved(S, c, res2, sc, TRUE)
  <2>1. Len(res2) = Len(res)
    <3>1. res \in [1 .. Len(res) -> Verdict] /\ Len(res) \in Nat
      BY LenProperties
    <3>2. res2 \in [1 .. Len(res) -> Verdict]
      BY <3>1 DEF Verdict
    <3>3. res2 \in Seq(Verdict)
      BY <3>1, <3>2, SeqDef
    <3> QED
      BY <3>1, <3>2, <3>3, LenProperties
  <2> QED
    BY <1>0, <1>2, <2>1 DEF NothingRemoved
<1>11. StandingKept(R, S, c, res2)
  <2> SUFFICES ASSUME NEW T \in SUBSET New(R, c), Registry!Standing(R, c, T)
               PROVE  T \cap DOMAIN res2 \subseteq Kept(R, S, c)
    BY DEF StandingKept
  <2>1. T \subseteq DOMAIN res
    <3>1. Len(res) = Len(c.items) /\ DOMAIN res = 1 .. Len(res)
      BY LenProperties
    <3> QED
      BY <3>1, NewTyped, CallShape
  <2>2. T \subseteq Kept(R, B, c)
    BY <1>1, <2>1 DEF StandingKept
  <2>3. i \notin T
    <3> SUFFICES ASSUME i \in T PROVE FALSE
      OBVIOUS
    <3>1. Passes(Registry!Added(R, c, T), c.items[i], TRUE, c.mode)
      BY RegistryPasses DEF Registry!Standing
    <3>2. Grown(Registry!Added(R, c, T), B)
      BY <1>1, <2>2, AddedWithin
    <3>3. Passes(B, c.items[i], TRUE, c.mode)
      BY <1>1, <3>1, <3>2, GrownPasses DEF Partly
    <3> QED
      BY <3>3
  <2> QED
    BY <1>4, <2>2, <2>3
<1>12. ScannedPass(S, c, st2, sc, TRUE)
  BY DEF ScannedPass
<1> QED
  BY <1>4, <1>6, <1>7, <1>9, <1>10, <1>11, <1>12 DEF Batch

---------------------------------------------------------------------------
(* What a call that returns has done.                                      *)

(* The answers to c are true of B, which it left, having found R. *)
Honest(R, B, c, answers) ==
    c.kind # "transient" =>
        \A k \in DOMAIN answers :
            LET sub == c.items[k] IN
            /\ answers[k] = "ok" =>
                  Stored(B, sub) /\ (c.validate => Passes(B, sub, TRUE, c.mode))
            /\ answers[k] = "rejected" => (Stored(B, sub) <=> Stored(R, sub))
            /\ answers[k] = "conflict" => ~Stored(B, sub)

Done(R, B, c, answers) ==
    /\ Grown(R, B) /\ PositiveRegistry(B)
    /\ B = Registry!Effect(R, c)
    /\ Len(answers) = Len(c.items)
    /\ Honest(R, B, c, answers)

LEMMA BatchReturned ==
    ASSUME NEW R, PositiveRegistry(R), NEW c \in Calls, c.kind \in Batches, NEW B,
           NEW res \in Seq(Verdict), NEW st \in Seq(Staged), NEW sc \in Nat,
           Len(res) = Len(c.items), Batch(R, B, c, res, st, sc, FALSE), sc > Len(st)
    PROVE  Done(R, B, c, res)
<1>0. /\ Len(st) \in Nat /\ DOMAIN st = 1 .. Len(st) /\ Len(c.items) \in Nat
      /\ DOMAIN c.items = 1 .. Len(c.items) /\ DOMAIN res = DOMAIN c.items
  <2>1. DOMAIN res = 1 .. Len(res)
    BY LenProperties
  <2> QED
    BY <2>1, LenProperties, CallShape
<1>1. /\ Partly(R, B, c) /\ StagedAccepted(R, B, c, res, st) /\ AcceptedStaged(R, B, c, res, st)
      /\ AnswersBorneOut(B, c, res) /\ NothingRemoved(B, c, res, sc, FALSE)
      /\ StandingKept(R, B, c, res) /\ ScannedPass(B, c, st, sc, FALSE)
  BY DEF Batch
<1> HIDE DEF Batch
<1>2. ASSUME c.validate, NEW k \in DOMAIN res, res[k] = "ok"
      PROVE  Passes(B, c.items[k], TRUE, c.mode) /\ Stored(B, c.items[k])
  <2>1. PICK e \in DOMAIN st : st[e].index = k
    BY <1>1, <1>2 DEF AcceptedStaged
  <2>2. e < sc
    BY <1>0
  <2>3. Passes(B, c.items[k], TRUE, c.mode)
    BY <1>1, <2>1, <2>2 DEF ScannedPass
  <2>4. c.items[k].id \in DOMAIN B
    BY <1>0, <2>3, CallShape, PassesBound
  <2>5. st[e].id = c.items[k].id /\ (st[e].id \in DOMAIN B => B[st[e].id] = c.items[k].doc)
    BY <1>1, <2>1 DEF StagedAccepted
  <2> QED
    BY <2>3, <2>4, <2>5 DEF Stored
<1>3. Honest(R, B, c, res)
  <2> SUFFICES ASSUME NEW k \in DOMAIN res
               PROVE  /\ res[k] = "ok" =>
                            /\ Stored(B, c.items[k])
                            /\ c.validate => Passes(B, c.items[k], TRUE, c.mode)
                      /\ res[k] = "rejected" => (Stored(B, c.items[k]) <=> Stored(R, c.items[k]))
                      /\ res[k] = "conflict" => ~Stored(B, c.items[k])
    BY DEF Honest
  <2>1. /\ res[k] = "ok" => (~c.validate => Stored(B, c.items[k]))
        /\ res[k] = "conflict" => ~Stored(B, c.items[k])
        /\ res[k] = "rejected" =>
              \/ ~Registry!Enters(c, c.items[k])
              \/ c.validate /\ ~Passes(B, c.items[k], TRUE, c.mode)
    BY <1>1 DEF AnswersBorneOut
  <2>2. Stored(R, c.items[k]) => Stored(B, c.items[k])
    BY <1>1 DEF Stored, Partly, Grown
  <2>3. ASSUME res[k] = "rejected", Stored(B, c.items[k]), ~Stored(R, c.items[k])
        PROVE  FALSE
    <3>1. c.items[k].id \notin DOMAIN R
      BY <1>1, <2>3 DEF Stored, Partly, Grown
    <3>2. PICK j \in Kept(R, B, c) : c.items[j].id = c.items[k].id
      BY <1>1, <2>3, <3>1 DEF Stored, Partly
    <3>3. c.items[j].doc = c.items[k].doc
      BY <1>1, <2>3, <3>2 DEF Stored, Partly
    <3>4. j \in DOMAIN res /\ res[j] = "ok"
      BY <1>1 DEF AcceptedStaged
    <3>5. c.items[j] = c.items[k]
      BY <1>0, <3>2, <3>3, <3>4, RegistryAssumption
    <3>6. Registry!Enters(c, c.items[k])
      BY <1>1, <3>4, <3>5 DEF AnswersBorneOut
    <3>7. c.validate /\ ~Passes(B, c.items[k], TRUE, c.mode)
      BY <2>1, <2>3, <3>6
    <3> QED
      BY <1>2, <3>4, <3>5, <3>7
  <2> QED
    BY <1>2, <2>1, <2>2, <2>3
<1>4. B = Registry!Added(R, c, Kept(R, B, c)) /\ Kept(R, B, c) \subseteq New(R, c)
  BY <1>1, PartlyAdded
<1>5. CASE c.validate
  <2>1. Registry!Standing(R, c, Kept(R, B, c))
    <3>1. \A k \in Kept(R, B, c) : Passes(B, c.items[k], TRUE, c.mode)
      BY <1>1, <1>2, <1>5 DEF AcceptedStaged
    <3> QED
      BY <1>4, <3>1, RegistryPasses DEF Registry!Standing
  <2>2. \A T \in SUBSET New(R, c) : Registry!Standing(R, c, T) => T \subseteq Kept(R, B, c)
    BY <1>0, <1>1, NewTyped DEF StandingKept
  <2>3. Kept(R, B, c) = UNION {T \in SUBSET New(R, c) : Registry!Standing(R, c, T)}
    BY <1>4, <2>1, <2>2
  <2>4. Registry!Effect(R, c) = Registry!Added(R, c, Kept(R, B, c))
    BY <1>5, <2>3 DEF Registry!Effect, New, Batches
  <2> QED
    BY <1>1, <1>3, <1>4, <2>4 DEF Done, Partly
<1>6. CASE ~c.validate
  <2>1. Kept(R, B, c) = New(R, c)
    <3>1. ASSUME NEW k \in New(R, c) PROVE k \in Kept(R, B, c)
      <4>1. k \in DOMAIN res /\ Registry!Enters(c, c.items[k])
        BY <1>0, NewTyped, NewBindings
      <4> QED
        BY <1>1, <1>6, <4>1 DEF NothingRemoved, Kept
    <3> QED
      BY <1>4, <3>1
  <2>2. Registry!Effect(R, c) = Registry!Added(R, c, New(R, c))
    BY <1>6 DEF Registry!Effect, New, Batches
  <2> QED
    BY <1>1, <1>3, <1>4, <2>1, <2>2 DEF Done, Partly
<1> QED
  BY <1>5, <1>6

(* The only binding a call with one item has... *)
LEMMA SingleNew ==
    ASSUME NEW R, PositiveRegistry(R), NEW c \in Calls, c.kind \in Singles,
           NEW sub, sub = c.items[1], NEW id, id = sub.id, NEW doc, doc = sub.doc,
           Registry!Enters(c, sub), id \notin DOMAIN R
    PROVE  New(R, c) = {1} /\ Registry!Added(R, c, {1}) = Bind(R, id, doc)
<1>0. DOMAIN c.items = {1} /\ IsRegistry(R)
  BY CallShape DEF PositiveRegistry
<1>1. New(R, c) = {1}
  <2>1. \A j \in 1 .. 1 - 1 : FALSE
    OBVIOUS
  <2>2. 1 \in New(R, c)
    BY <1>0, <2>1, NewBindings
  <2>3. New(R, c) \subseteq {1}
    BY <1>0, NewTyped
  <2> QED
    BY <2>2, <2>3
<1>2. Registry!Added(R, c, {1}) = Bind(R, id, doc)
  <2>1. id \in Ids /\ IsDocument(doc)
    BY <1>1, NewTyped
  <2>2. /\ IsRegistry(Registry!Added(R, c, {1}))
        /\ \A i : i \in DOMAIN Registry!Added(R, c, {1})
                  <=> i \in DOMAIN R \/ \E k \in {1} : c.items[k].id = i
        /\ \A i \in DOMAIN R : Registry!Added(R, c, {1})[i] = R[i]
        /\ \A k \in {1} : Registry!Added(R, c, {1})[c.items[k].id] = c.items[k].doc
    BY <1>0, <1>1, AddedRegistry
  <2>3. /\ IsRegistry(Bind(R, id, doc))
        /\ \A i : i \in DOMAIN Bind(R, id, doc) <=> i \in DOMAIN R \/ i = id
        /\ Bind(R, id, doc)[id] = doc
        /\ \A i \in DOMAIN R : i # id => Bind(R, id, doc)[i] = R[i]
    BY <1>0, <2>1, BindRegistry
  <2>4. DOMAIN Registry!Added(R, c, {1}) = DOMAIN Bind(R, id, doc)
    BY <2>2, <2>3
  <2>5. \A i \in DOMAIN Bind(R, id, doc) :
           Bind(R, id, doc)[i] = Registry!Added(R, c, {1})[i]
    BY <2>2, <2>3
  <2> QED
    BY <2>2, <2>3, <2>4, <2>5, SameRegistry
<1> QED
  BY <1>1, <1>2

(* ... is what it commits... *)
LEMMA SingleBinds ==
    ASSUME NEW R, PositiveRegistry(R), NEW c \in Calls, c.kind \in Singles, c.kind # "transient",
           NEW sub, sub = c.items[1], NEW id, id = sub.id, NEW doc, doc = sub.doc,
           Registry!Enters(c, sub), id \notin DOMAIN R,
           ~c.validate \/ Passes(Bind(R, id, doc), sub, TRUE, c.mode)
    PROVE  Registry!Effect(R, c) = Bind(R, id, doc)
<1>1. New(R, c) = {1} /\ Registry!Added(R, c, {1}) = Bind(R, id, doc)
  BY SingleNew
<1>2. CASE ~c.validate
  BY <1>1, <1>2 DEF Registry!Effect, New
<1>3. CASE c.validate /\ Passes(Bind(R, id, doc), sub, TRUE, c.mode)
  <2>1. Registry!Standing(R, c, {1})
    BY <1>1, <1>3, RegistryPasses DEF Registry!Standing
  <2>2. {1} = UNION {T \in SUBSET New(R, c) : Registry!Standing(R, c, T)}
    BY <1>1, <2>1
  <2>3. Registry!Effect(R, c) = Registry!Added(R, c, {1})
    BY <1>3, <2>2 DEF Registry!Effect, New
  <2> QED
    BY <1>1, <2>3
<1> QED
  BY <1>2, <1>3

(* ... unless it may not. *)
LEMMA SingleLeaves ==
    ASSUME NEW R, PositiveRegistry(R), NEW c \in Calls, c.kind \in Singles, c.kind # "transient",
           NEW sub, sub = c.items[1], NEW id, id = sub.id, NEW doc, doc = sub.doc,
           \/ ~Registry!Enters(c, sub) \/ id \in DOMAIN R
           \/ c.validate /\ ~Passes(Bind(R, id, doc), sub, TRUE, c.mode)
    PROVE  Registry!Effect(R, c) = R
<1>0. DOMAIN c.items = {1}
  BY CallShape
<1>1. Registry!Added(R, c, {}) = R
  BY PartlyNone, PartlyAdded
<1>2. CASE ~Registry!Enters(c, sub) \/ id \in DOMAIN R
  <2>1. New(R, c) = {}
    BY <1>0, <1>2, NewBindings, NewTyped
  <2>2. {} = UNION {T \in SUBSET New(R, c) : Registry!Standing(R, c, T)}
    BY <2>1
  <2>3. Registry!Effect(R, c) = Registry!Added(R, c, {})
    BY <2>1, <2>2 DEF Registry!Effect, New
  <2> QED
    BY <1>1, <2>3
<1>3. CASE /\ Registry!Enters(c, sub) /\ id \notin DOMAIN R
           /\ c.validate /\ ~Passes(Bind(R, id, doc), sub, TRUE, c.mode)
  <2>1. New(R, c) = {1} /\ Registry!Added(R, c, {1}) = Bind(R, id, doc)
    BY <1>3, SingleNew
  <2>2. ~Registry!Standing(R, c, {1})
    BY <1>3, <2>1, RegistryPasses DEF Registry!Standing
  <2>3. {} = UNION {T \in SUBSET New(R, c) : Registry!Standing(R, c, T)}
    <3>1. \A T \in SUBSET New(R, c) : T = {} \/ T = {1}
      BY <2>1
    <3> QED
      BY <2>2, <3>1
  <2>4. Registry!Effect(R, c) = Registry!Added(R, c, {})
    BY <1>3, <2>3 DEF Registry!Effect, New
  <2> QED
    BY <1>1, <2>4
<1> QED
  BY <1>2, <1>3

LEMMA OneHonest ==
    ASSUME NEW R, NEW B, NEW c, NEW a,
           a = "ok" => Stored(B, c.items[1]) /\ (c.validate => Passes(B, c.items[1], TRUE, c.mode)),
           a = "rejected" => (Stored(B, c.items[1]) <=> Stored(R, c.items[1])),
           a = "conflict" => ~Stored(B, c.items[1])
    PROVE  Honest(R, B, c, <<a>>) /\ Len(<<a>>) = 1
<1>1. DOMAIN <<a>> = {1} /\ <<a>>[1] = a /\ Len(<<a>>) = 1
  OBVIOUS
<1> QED
  BY <1>1 DEF Honest

(* The registry a call with one item works on, before the item is bound... *)
LEMMA SingleFound ==
    ASSUME StoreInv, busy, call.kind \in Singles,
           staged = <<>> \/ call.kind = "register"
    PROVE  by_id = before /\ call \in Calls /\ PositiveRegistry(before) /\ Len(call.items) = 1
BY CallShape DEF StoreInv, TypeInv, TypeOK, Single

(* ... and with it bound (RegisterEntity). *)
LEMMA EntityBound ==
    ASSUME NoNegation, StoreInv, busy, call.kind = "entity", staged # <<>>,
           NEW id, id = Sub(1).id, NEW doc, doc = Sub(1).doc
    PROVE  /\ call \in Calls /\ PositiveRegistry(before) /\ Len(call.items) = 1
           /\ Sub(1).defect \notin {"id", "keywords"}
           /\ staged[1].id = id /\ (staged[1].inserted <=> id \notin DOMAIN before)
           /\ by_id = Bind(before, id, doc)
           /\ Grown(before, by_id) /\ PositiveRegistry(by_id) /\ Stored(by_id, Sub(1))
           /\ id \in DOMAIN before => by_id = before
           /\ id \notin DOMAIN before => Unbind(by_id, id) = before
<1>1. /\ call \in Calls /\ PositiveRegistry(before) /\ IsRegistry(before)
      /\ call.kind \in Singles /\ DOMAIN call.items = {1} /\ Len(call.items) = 1
  BY CallShape DEF StoreInv, TypeInv, TypeOK, Singles
<1>2. /\ Sub(1).defect \notin {"id", "keywords"}
      /\ staged = <<[index |-> 1, id |-> id,
                     inserted |-> call.kind = "transient" \/ ~Bound(before, id)]>>
      /\ by_id = Bind(before, id, doc) /\ ~Conflicts(before, Sub(1))
  BY <1>1 DEF StoreInv, TypeInv, Single, Sub
<1>3. id \in Ids /\ PositiveDocument(doc)
  BY <1>1, <1>2, CallShape, SubmissionTyped DEF NoNegation, PositiveDocument, Sub
<1>4. id \in DOMAIN before => before[id] = doc
  BY <1>2 DEF Conflicts, Bound
<1>5. /\ PositiveRegistry(by_id) /\ Grown(before, by_id) /\ id \in DOMAIN by_id /\ by_id[id] = doc
      /\ id \in DOMAIN before => by_id = before
  BY <1>1, <1>2, <1>3, <1>4, BindGrown
<1>6. id \notin DOMAIN before => Unbind(by_id, id) = before
  BY <1>1, <1>2, TakenOut
<1>7. staged[1].id = id /\ staged[1].inserted = (call.kind = "transient" \/ ~Bound(before, id))
  BY <1>2, Zenon
<1>8. staged[1].inserted <=> id \notin DOMAIN before
  BY <1>7 DEF Bound
<1> QED
  BY <1>1, <1>2, <1>5, <1>6, <1>7, <1>8 DEF Stored

LEMMA RegisterDone ==
    ASSUME NoNegation, StoreInv, Register
    PROVE  Done(before, by_id', call, results')
<1> SUFFICES ASSUME NEW id, id = Sub(1).id, NEW doc, doc = Sub(1).doc
             PROVE  Done(before, by_id', call, results')
  OBVIOUS
<1>1. /\ call.kind = "register" /\ call.kind \in Singles /\ ~call.validate
      /\ by_id = before /\ call \in Calls /\ PositiveRegistry(before) /\ Len(call.items) = 1
      /\ DOMAIN call.items = {1} /\ Sub(1) = call.items[1]
  <2>1. busy /\ call.kind = "register" /\ call.kind \in Singles
    BY DEF Register, Singles
  <2>2. by_id = before /\ call \in Calls /\ PositiveRegistry(before) /\ Len(call.items) = 1
    BY <2>1, SingleFound
  <2> QED
    BY <2>1, <2>2, RegistryAssumption, CallShape DEF Sub
<1>2. Registry!Enters(call, Sub(1)) <=> Sub(1).defect # "id"
  BY <1>1 DEF Registry!Enters
<1>3. /\ Sub(1).defect # "id" /\ id \notin DOMAIN before
            => Registry!Effect(before, call) = Bind(before, id, doc)
      /\ Sub(1).defect = "id" \/ id \in DOMAIN before
            => Registry!Effect(before, call) = before
  <2>1. call.kind # "transient"
    BY <1>1
  <2>2. Registry!Enters(call, Sub(1)) /\ id \notin DOMAIN before
           => Registry!Effect(before, call) = Bind(before, id, doc)
    BY <1>1, <2>1, SingleBinds, ZenonT(40)
  <2>3. ~Registry!Enters(call, Sub(1)) \/ id \in DOMAIN before
           => Registry!Effect(before, call) = before
    BY <1>1, <2>1, SingleLeaves
  <2> QED
    BY <1>1, <1>2, <2>2, <2>3
<1>4. Grown(before, before)
  BY <1>1 DEF Grown, PositiveRegistry
<1>5. CASE Sub(1).defect = "id"
  <2>1. results' = <<"rejected">> /\ by_id' = before
    BY <1>1, <1>5 DEF Register, Return
  <2>2. Honest(before, before, call, <<"rejected">>) /\ Len(<<"rejected">>) = 1
    BY OneHonest
  <2> QED
    BY <1>1, <1>3, <1>4, <1>5, <2>1, <2>2 DEF Done
<1>6. CASE Sub(1).defect # "id" /\ Conflicts(before, Sub(1))
  <2>1. results' = <<"conflict">> /\ by_id' = before
    BY <1>1, <1>6 DEF Register, Return
  <2>2. Honest(before, before, call, <<"conflict">>) /\ Len(<<"conflict">>) = 1
    BY <1>1, <1>6, OneHonest DEF Conflicts, Bound, Stored
  <2>3. id \in DOMAIN before
    BY <1>6 DEF Conflicts, Bound
  <2> QED
    BY <1>1, <1>3, <1>4, <2>1, <2>2, <2>3 DEF Done
<1>7. CASE Sub(1).defect # "id" /\ ~Conflicts(before, Sub(1))
  <2>1. results' = <<"ok">> /\ by_id' = Bind(before, id, doc)
    BY <1>1, <1>7 DEF Register, Return
  <2>2. id \in Ids /\ PositiveDocument(doc) /\ (id \in DOMAIN before => before[id] = doc)
    BY <1>1, <1>7, CallShape, SubmissionTyped
       DEF NoNegation, PositiveDocument, Conflicts, Bound
  <2>3. /\ PositiveRegistry(Bind(before, id, doc)) /\ Grown(before, Bind(before, id, doc))
        /\ id \in DOMAIN Bind(before, id, doc) /\ Bind(before, id, doc)[id] = doc
        /\ id \in DOMAIN before => Bind(before, id, doc) = before
    BY <1>1, <2>2, BindGrown
  <2>4. Honest(before, Bind(before, id, doc), call, <<"ok">>) /\ Len(<<"ok">>) = 1
    BY <1>1, <2>3, OneHonest DEF Stored
  <2>5. Registry!Effect(before, call) = Bind(before, id, doc)
    BY <1>3, <1>7, <2>3
  <2> QED
    BY <1>1, <2>1, <2>3, <2>4, <2>5 DEF Done
<1> QED
  BY <1>5, <1>6, <1>7

LEMMA RefuseEntityDone ==
    ASSUME NoNegation, StoreInv, RefuseEntity
    PROVE  Done(before, by_id', call, results')
<1> SUFFICES ASSUME NEW id, id = Sub(1).id, NEW doc, doc = Sub(1).doc
             PROVE  Done(before, by_id', call, results')
  OBVIOUS
<1>1. /\ busy /\ call.kind = "entity" /\ call.kind \in Singles /\ staged = <<>>
      /\ by_id' = by_id
  BY DEF RefuseEntity, Singles
<1>2. /\ by_id = before /\ call \in Calls /\ PositiveRegistry(before) /\ Len(call.items) = 1
      /\ Sub(1) = call.items[1]
  BY <1>1, SingleFound DEF Sub
<1>3. ~Registry!Enters(call, Sub(1)) \/ id \in DOMAIN before
         => Registry!Effect(before, call) = before
  BY <1>1, <1>2, SingleLeaves
<1>4. Grown(before, before)
  BY <1>2 DEF Grown, PositiveRegistry
<1>5. CASE Sub(1).defect \in {"id", "keywords"} /\ Return(<<"rejected">>)
  <2>1. results' = <<"rejected">> /\ ~Registry!Enters(call, Sub(1))
    BY <1>1, <1>5 DEF Return, Registry!Enters
  <2>2. Honest(before, before, call, <<"rejected">>) /\ Len(<<"rejected">>) = 1
    BY OneHonest
  <2> QED
    BY <1>1, <1>2, <1>3, <1>4, <2>1, <2>2 DEF Done
<1>6. CASE Conflicts(by_id, Sub(1)) /\ Return(<<"conflict">>)
  <2>1. results' = <<"conflict">> /\ id \in DOMAIN before /\ ~Stored(before, Sub(1))
    BY <1>2, <1>6 DEF Return, Conflicts, Bound, Stored
  <2>2. Honest(before, before, call, <<"conflict">>) /\ Len(<<"conflict">>) = 1
    BY <1>2, <2>1, OneHonest
  <2> QED
    BY <1>1, <1>2, <1>3, <1>4, <2>1, <2>2 DEF Done
<1> QED
  BY <1>5, <1>6 DEF RefuseEntity

LEMMA CheckEntityDone ==
    ASSUME NoNegation, StoreInv, CheckEntity
    PROVE  Done(before, by_id', call, results')
<1> SUFFICES ASSUME NEW id, id = Sub(1).id, NEW doc, doc = Sub(1).doc
             PROVE  Done(before, by_id', call, results')
  OBVIOUS
<1>1. busy /\ call.kind = "entity" /\ call.kind \in Singles /\ staged # <<>>
  BY DEF CheckEntity, Singles
<1>2. /\ call \in Calls /\ PositiveRegistry(before) /\ Len(call.items) = 1
      /\ Sub(1).defect \notin {"id", "keywords"}
      /\ staged[1].id = id /\ (staged[1].inserted <=> id \notin DOMAIN before)
      /\ by_id = Bind(before, id, doc)
      /\ Grown(before, by_id) /\ PositiveRegistry(by_id) /\ Stored(by_id, Sub(1))
      /\ id \in DOMAIN before => by_id = before
      /\ id \notin DOMAIN before => Unbind(by_id, id) = before
  BY <1>1, EntityBound
<1>3. ASSUME Registry!Enters(call, Sub(1)), id \notin DOMAIN before,
             ~call.validate \/ Passes(by_id, Sub(1), TRUE, call.mode)
      PROVE  Registry!Effect(before, call) = by_id
  <2>1. /\ Sub(1) = call.items[1] /\ call.kind # "transient"
        /\ call \in Calls /\ PositiveRegistry(before)
    BY <1>1, <1>2 DEF Sub
  <2>2. ~call.validate \/ Passes(Bind(before, id, doc), Sub(1), TRUE, call.mode)
    <3>1. by_id = Bind(before, id, doc)
      BY <1>2
    <3> QED
      BY <1>3, <3>1, Zenon
  <2>3. Registry!Effect(before, call) = Bind(before, id, doc)
    BY <1>1, <1>3, <2>1, <2>2, SingleBinds, ZenonT(40)
  <2> QED
    BY <1>2, <2>3
<1>4. ASSUME \/ ~Registry!Enters(call, Sub(1)) \/ id \in DOMAIN before
             \/ call.validate /\ ~Passes(by_id, Sub(1), TRUE, call.mode)
      PROVE  Registry!Effect(before, call) = before
  BY <1>1, <1>2, <1>4, SingleLeaves DEF Sub
<1>5. Passes(by_id, Sub(1), call.validate, call.mode) <=>
         /\ Registry!Enters(call, Sub(1))
         /\ ~call.validate \/ Passes(by_id, Sub(1), TRUE, call.mode)
  <2>1. Registry!Enters(call, Sub(1)) <=> call.validate \/ Sub(1).defect # "refs"
    BY <1>1, <1>2 DEF Registry!Enters
  <2>2. CASE call.validate
    BY <2>1, <2>2 DEF Passes
  <2>3. CASE ~call.validate
    <3>1. ~Sub(1).doc.is_schema => Sub(1).defect # "refs"
      BY <1>1, <1>2, CallShape DEF Sub, IsSubmission
    <3> QED
      BY <2>1, <2>3, <3>1 DEF Passes
  <2> QED
    BY <2>2, <2>3
<1>6. CASE Passes(by_id, Sub(1), call.validate, call.mode)
  <2>1. results' = <<"ok">> /\ by_id' = by_id
    BY <1>6 DEF CheckEntity, Return
  <2>2. Honest(before, by_id, call, <<"ok">>) /\ Len(<<"ok">>) = 1
    BY <1>2, <1>5, <1>6, OneHonest DEF Sub
  <2>3. Registry!Effect(before, call) = by_id
    BY <1>2, <1>3, <1>4, <1>5, <1>6
  <2> QED
    BY <1>2, <2>1, <2>2, <2>3 DEF Done
<1>7. CASE ~Passes(by_id, Sub(1), call.validate, call.mode)
  <2>1. /\ results' = <<"rejected">>
        /\ by_id' = IF staged[1].inserted THEN Unbind(by_id, staged[1].id) ELSE by_id
    BY <1>7 DEF CheckEntity, Return
  <2>2. by_id' = before
    BY <1>2, <2>1
  <2>3. Honest(before, before, call, <<"rejected">>) /\ Len(<<"rejected">>) = 1
    BY OneHonest
  <2>4. Registry!Effect(before, call) = before
    BY <1>4, <1>5, <1>7
  <2>5. Grown(before, before)
    BY <1>2 DEF Grown
  <2> QED
    BY <1>2, <2>1, <2>2, <2>3, <2>4, <2>5 DEF Done
<1> QED
  BY <1>6, <1>7

LEMMA ReturnResultsDone ==
    ASSUME NoNegation, StoreInv, ReturnResults
    PROVE  Done(before, by_id', call, results')
<1>1. /\ busy /\ call.kind \in Batches /\ Len(results) = Len(call.items)
      /\ scan > Len(staged) /\ ~shrunk /\ results' = results /\ by_id' = by_id
  BY DEF ReturnResults, Return, AllStaged, Batches
<1>2. /\ call \in Calls /\ PositiveRegistry(before) /\ scan \in Nat
      /\ results \in Seq(Verdict) /\ staged \in Seq(Staged) /\ shrunk = FALSE
  BY <1>1, LenProperties DEF StoreInv, TypeInv, TypeOK, Verdict
<1>3. Batch(before, by_id, call, results, staged, scan, FALSE)
  BY <1>1, <1>2 DEF StoreInv
<1> QED
  BY <1>1, <1>2, <1>3, BatchReturned

(* A transient call leaves the registry as it found it. *)
LEMMA TransientDone ==
    ASSUME NoNegation, StoreInv, RefuseTransient \/ Restore
    PROVE  Done(before, by_id', call, results')
<1>1. busy /\ call.kind = "transient" /\ call.kind \in Singles
  BY DEF RefuseTransient, Restore, Singles
<1>2. call \in Calls /\ PositiveRegistry(before) /\ Len(call.items) = 1
  BY <1>1, CallShape DEF StoreInv, TypeInv, TypeOK
<1>3. by_id' = before
  <2>1. CASE RefuseTransient
    BY <1>1, <2>1, SingleFound DEF RefuseTransient
  <2>2. CASE Restore
    BY <1>1, <2>2, RestoredIsBefore DEF Restore, StoreInv
  <2> QED
    BY <2>1, <2>2
<1>4. Len(results') = 1
  <2>1. CASE RefuseTransient
    BY <2>1 DEF RefuseTransient, Return
  <2>2. CASE Restore
    BY <2>2 DEF Restore, Return
  <2> QED
    BY <2>1, <2>2
<1>5. Registry!Effect(before, call) = before
  BY <1>1 DEF Registry!Effect
<1>6. Honest(before, before, call, results')
  BY <1>1 DEF Honest
<1>7. Grown(before, before)
  BY <1>2 DEF Grown, PositiveRegistry
<1> QED
  BY <1>2, <1>3, <1>4, <1>5, <1>6, <1>7 DEF Done

Returning ==
    Register \/ RefuseEntity \/ CheckEntity \/ ReturnResults \/ RefuseTransient \/ Restore

(* A call that returns has had the effect the registry promises, whole,    *)
(* and answered for it.                                                    *)
LEMMA ReturningDone ==
    ASSUME NoNegation, StoreInv, Returning
    PROVE  Done(before, by_id', call, results')
BY RegisterDone, RefuseEntityDone, CheckEntityDone, ReturnResultsDone, TransientDone
   DEF Returning

(* A call whose validation panics has had a part of it. *)
LEMMA PanicTears ==
    ASSUME NoNegation, StoreInv, Panic
    PROVE  /\ by_id' \in Registry!Torn(before, call)
           /\ Grown(before, by_id') /\ PositiveRegistry(by_id')
<1>1. /\ busy /\ call.validate /\ call \in Calls /\ PositiveRegistry(before)
      /\ by_id' = IF call.kind = "transient" THEN Restored ELSE by_id
      /\ \/ call.kind \in {"entity", "transient"} /\ staged # <<>>
         \/ call.kind = "schemas"
  BY DEF Panic, Validating, StoreInv, TypeInv, TypeOK
<1>2. Grown(before, before)
  BY <1>1 DEF Grown, PositiveRegistry
<1>3. CASE call.kind = "transient"
  <2>1. by_id' = before
    BY <1>1, <1>3, RestoredIsBefore DEF StoreInv
  <2> QED
    BY <1>1, <1>2, <1>3, <2>1 DEF Registry!Torn
<1>4. CASE call.kind = "entity"
  <2> SUFFICES ASSUME NEW id, id = Sub(1).id, NEW doc, doc = Sub(1).doc
               PROVE  /\ by_id' \in Registry!Torn(before, call)
                      /\ Grown(before, by_id') /\ PositiveRegistry(by_id')
    OBVIOUS
  <2>1. /\ by_id' = by_id /\ Sub(1).defect \notin {"id", "keywords"}
        /\ by_id = Bind(before, id, doc)
        /\ Grown(before, by_id) /\ PositiveRegistry(by_id)
        /\ id \in DOMAIN before => by_id = before
    BY <1>1, <1>4, EntityBound
  <2>2. /\ call.kind \in Singles /\ Sub(1) = call.items[1] /\ Registry!Enters(call, Sub(1))
        /\ \A T : T \in SUBSET New(before, call)
              => Registry!Added(before, call, T) \in Registry!Torn(before, call)
    BY <1>1, <1>4, <2>1 DEF Singles, Sub, Registry!Enters, Registry!Torn, New
  <2>3. CASE id \in DOMAIN before
    <3>1. Registry!Added(before, call, {}) = before
      BY <1>1, PartlyNone, PartlyAdded
    <3> QED
      BY <2>1, <2>2, <2>3, <3>1
  <2>4. CASE id \notin DOMAIN before
    <3>1. /\ New(before, call) = {1}
          /\ Registry!Added(before, call, {1}) = Bind(before, id, doc)
      BY <1>1, <2>2, <2>4, SingleNew
    <3>2. Registry!Added(before, call, {1}) \in Registry!Torn(before, call)
      BY <2>2, <3>1
    <3> QED
      BY <2>1, <3>1, <3>2
  <2> QED
    BY <2>3, <2>4
<1>5. CASE call.kind = "schemas"
  <2>1. by_id' = by_id /\ Partly(before, by_id, call)
    BY <1>1, <1>5 DEF StoreInv, Batch, Batches
  <2>2. /\ by_id = Registry!Added(before, call, Kept(before, by_id, call))
        /\ Kept(before, by_id, call) \subseteq New(before, call)
    BY <1>1, <2>1, PartlyAdded
  <2>3. Registry!Added(before, call, Kept(before, by_id, call)) \in Registry!Torn(before, call)
    BY <1>5, <2>2 DEF Registry!Torn, New
  <2> QED
    BY <2>1, <2>2, <2>3 DEF Partly
<1> QED
  BY <1>1, <1>3, <1>4, <1>5

(* An any-valid validation on entry admits valid entities only. *)
LEMMA AdmittedValid ==
    ASSUME call \in Calls, NEW R, NEW B, PositiveRegistry(B), NEW answers,
           DOMAIN answers \subseteq DOMAIN call.items, Honest(R, B, call, answers)
    PROVE  Admitted(answers) \subseteq Valid(B)
<1> SUFFICES ASSUME NEW k \in DOMAIN answers, answers[k] = "ok",
                    call.validate, call.mode = "any-valid", call.kind # "transient",
                    Sub(k).doc.is_schema <=> Sub(k).id \in TypeIds
             PROVE  Sub(k).id \in Valid(B)
  BY DEF Admitted
<1> SUFFICES ASSUME NEW sub, sub = Sub(k), NEW id, id = sub.id
             PROVE  id \in Valid(B)
  OBVIOUS
<1>1. id \in DOMAIN B /\ Passes(B, sub, TRUE, "any-valid")
  BY DEF Honest, Stored, Sub
<1>2. Holds(B, Subject(sub, "any-valid"))
  BY <1>1 DEF Passes
<1>3. CASE sub.doc.is_schema
  <2>1. SchemaSound(B, id, Valid(B))
    BY <1>2, <1>3 DEF Holds, Subject, Trusted
  <2>2. Sound(B, id, Valid(B))
    BY <1>3, <2>1 DEF Sound
  <2> QED
    BY <1>1, <2>2, SoundIsValid
<1>4. CASE ~sub.doc.is_schema
  <2>1. InstanceSound(B, id, Valid(B))
    BY <1>2, <1>4 DEF Holds, Subject, Trusted
  <2>2. Sound(B, id, Valid(B))
    BY <1>4, <2>1 DEF Sound
  <2> QED
    BY <1>1, <2>2, SoundIsValid
<1> QED
  BY <1>3, <1>4

---------------------------------------------------------------------------
(* The invariant is one.                                                   *)

(* Binding a document without negations (Bind). *)
LEMMA BindPositive ==
    ASSUME NEW R, PositiveRegistry(R), NEW id \in Ids, NEW doc, PositiveDocument(doc)
    PROVE  PositiveRegistry(Bind(R, id, doc))
<1>1. /\ IsRegistry(Bind(R, id, doc))
      /\ \A i : i \in DOMAIN Bind(R, id, doc) <=> i \in DOMAIN R \/ i = id
      /\ Bind(R, id, doc)[id] = doc
      /\ \A i \in DOMAIN R : i # id => Bind(R, id, doc)[i] = R[i]
  BY BindRegistry DEF PositiveRegistry, PositiveDocument
<1> QED
  BY <1>1 DEF PositiveRegistry, PositiveDocument

LEMMA HonestAnswers ==
    AnswersHonest <=> (~busy => Honest(before, by_id, call, results))
BY DEF AnswersHonest, Honest, Stored, Bound, Sub

LEMMA StoreOpened ==
    ASSUME NEW R, PositiveRegistry(R), Opened(R)
    PROVE  StoreInv
<1>1. TypeInv
  BY OpenedTyped DEF PositiveRegistry
<1>2. /\ by_id = R /\ before = R /\ busy = FALSE /\ vetted = {} /\ DOMAIN results = {}
  BY EmptyRegistry DEF Opened
<1>3. Honest(before, by_id, call, results)
  BY <1>2 DEF Honest
<1> QED
  BY <1>1, <1>2, <1>3, HonestAnswers DEF StoreInv

(* A call returns. *)
LEMMA StoreReturns ==
    ASSUME StoreInv, TypeInv', busy,
           Done(before, by_id', call, results'), UNCHANGED <<call, before>>, busy' = FALSE,
           vetted' = vetted \cup Admitted(results')
    PROVE  StoreInv'
<1>1. /\ call \in Calls /\ PositiveRegistry(before) /\ vetted \subseteq Valid(before)
      /\ results' \in Seq(Verdict)
  BY DEF StoreInv, TypeInv, TypeOK, Verdict
<1>2. DOMAIN results' = DOMAIN call.items
  <2>1. DOMAIN results' = 1 .. Len(results') /\ Len(results') = Len(call.items)
    BY <1>1, LenProperties DEF Done
  <2> QED
    BY <1>1, <2>1, CallShape
<1>3. /\ PositiveRegistry(by_id') /\ Grown(before, by_id')
      /\ Honest(before, by_id', call, results')
  BY DEF Done
<1>4. Admitted(results') \subseteq Valid(by_id')
  BY <1>1, <1>2, <1>3, AdmittedValid
<1>5. vetted' \subseteq Valid(by_id')
  BY <1>1, <1>3, <1>4, GrownValid
<1>6. AnswersHonest'
  <2>1. Honest(before, by_id, call, results)'
    BY <1>3 DEF Honest, Stored
  <2>2. (AnswersHonest <=> (~busy => Honest(before, by_id, call, results)))'
    BY DEF AnswersHonest, Honest, Stored, Bound, Sub
  <2> QED
    BY <2>1, <2>2
<1> QED
  BY <1>1, <1>3, <1>5, <1>6 DEF StoreInv

(* The next item of a batch. *)
LEMMA StoreStages ==
    ASSUME NoNegation, StoreInv, TypeInv', Stage
    PROVE  StoreInv'
<1> SUFFICES ASSUME NEW k, k = Len(results) + 1, NEW id, id = Sub(k).id, NEW doc, doc = Sub(k).doc,
                    NEW a, a = AddUnvalidated(Sub(k)),
                    NEW e, e = [index |-> k, id |-> id, inserted |-> ~Bound(by_id, id)]
             PROVE  StoreInv'
  OBVIOUS
<1>1. /\ busy /\ call.kind \in Batches /\ Len(results) < Len(call.items)
      /\ UNCHANGED <<call, busy, scan, shrunk, displaced, before, vetted>>
  BY DEF Stage, Batches
<1>2. /\ results' = Append(results, a)
      /\ by_id' = IF a = "ok" THEN Bind(by_id, id, doc) ELSE by_id
      /\ staged' = IF a = "ok" /\ call.validate THEN Append(staged, e) ELSE staged
  BY DEF Stage
<1>3. /\ call \in Calls /\ PositiveRegistry(before)
      /\ results \in Seq(Verdict) /\ staged \in Seq(Staged) /\ Len(results) \in Nat
      /\ Batch(before, by_id, call, results, staged, scan, shrunk)
      /\ vetted \subseteq Valid(before)
  BY <1>1, LenProperties DEF StoreInv, TypeInv, TypeOK, Verdict
<1>4. scan = 1 /\ shrunk = FALSE
  <2>1. scan = 1 /\ ~shrunk
    BY <1>1, <1>3 DEF Batch, NothingRemoved
  <2>2. shrunk \in BOOLEAN
    BY DEF StoreInv, TypeInv, TypeOK
  <2> QED
    BY <2>1, <2>2
<1>5. k \in DOMAIN call.items /\ Sub(k) = call.items[k]
  BY <1>1, <1>3, CallShape DEF Sub
<1>6. /\ a \in Verdict
      /\ a = "ok" => Registry!Enters(call, Sub(k)) /\ ~Conflicts(by_id, Sub(k))
      /\ a = "conflict" => Conflicts(by_id, Sub(k))
      /\ a = "rejected" => ~Registry!Enters(call, Sub(k))
  BY <1>1, <1>3, <1>5, AddAnswer
<1>7. /\ a = "ok" => Registry!Enters(call, call.items[k]) /\ (id \in DOMAIN by_id => by_id[id] = doc)
      /\ a = "conflict" => id \in DOMAIN by_id /\ by_id[id] # doc
      /\ a = "rejected" => ~Registry!Enters(call, call.items[k])
  BY <1>5, <1>6 DEF Conflicts, Bound
<1>8. e.index = k /\ e.id = id /\ e.inserted = ~Bound(by_id, id)
  BY Zenon
<1>9. e.inserted <=> id \notin DOMAIN by_id
  BY <1>8 DEF Bound
<1>10. a = "ok" => e \in Staged
  <2> SUFFICES ASSUME a = "ok" PROVE e \in Staged
    OBVIOUS
  <2>1. Sub(k).defect # "id"
    BY <1>6 DEF Registry!Enters
  <2>2. id \in Ids
    BY <1>3, <1>5, <2>1, CallShape, SubmissionTyped
  <2> QED
    BY <1>3, <2>2 DEF Staged
<1>11. id = call.items[k].id /\ doc = call.items[k].doc
  BY <1>5
<1>12. Batch(before, by_id, call, results, staged, 1, FALSE)
  BY <1>3, <1>4
<1>13. Batch(before, by_id', call, results', staged', 1, FALSE)
  <2>1. Staging(before, by_id, call, results, staged, k, id, doc, a, by_id', e, staged', results')
    BY <1>1, <1>2, <1>3, <1>6, <1>7, <1>8, <1>9, <1>10, <1>11, <1>12 DEF Staging
  <2> QED
    BY <2>1, BatchStaged
<1>14. Batch(before, by_id, call, results, staged, scan, shrunk)'
  BY <1>1, <1>4, <1>13
<1>15. PositiveRegistry(by_id')
  BY <1>13 DEF Batch, Partly
<1> QED
  BY <1>1, <1>3, <1>14, <1>15 DEF StoreInv, AnswersHonest

(* One entry of a pass. *)
LEMMA StoreValidates ==
    ASSUME NoNegation, StoreInv, TypeInv', Validate
    PROVE  StoreInv'
<1>1. /\ busy /\ call.kind \in Batches /\ Len(results) = Len(call.items)
      /\ scan <= Len(staged) /\ UNCHANGED <<call, busy, displaced, before, vetted>>
  BY DEF Validate, Schemas, AllStaged, Batches
<1>2. /\ call \in Calls /\ PositiveRegistry(before)
      /\ results \in Seq(Verdict) /\ staged \in Seq(Staged) /\ scan \in 1 .. Len(staged)
      /\ Batch(before, by_id, call, results, staged, scan, shrunk)
      /\ vetted \subseteq Valid(before)
  BY <1>1, LenProperties DEF StoreInv, TypeInv, TypeOK, Verdict
<1>3. CASE Passes(by_id, Sub(staged[scan].index), TRUE, call.mode)
  <2>1. /\ scan' = scan + 1 /\ UNCHANGED <<by_id, results, staged, shrunk>>
    BY <1>3 DEF Validate
  <2>2. Batch(before, by_id, call, results, staged, scan + 1, shrunk)
    BY <1>1, <1>2, <1>3, BatchPassed DEF Sub
  <2>3. Batch(before, by_id, call, results, staged, scan, shrunk)'
    BY <1>1, <2>1, <2>2
  <2> QED
    BY <1>1, <1>2, <2>1, <2>3 DEF StoreInv, AnswersHonest
<1>4. CASE ~Passes(by_id, Sub(staged[scan].index), TRUE, call.mode)
  <2> SUFFICES ASSUME NEW i, i = staged[scan].index
               PROVE  StoreInv'
    OBVIOUS
  <2>1. /\ by_id' = IF staged[scan].inserted THEN Unbind(by_id, staged[scan].id) ELSE by_id
        /\ results' = [results EXCEPT ![i] = "rejected"]
        /\ staged' = RemoveAt(staged, scan) /\ shrunk' = TRUE /\ scan' = scan
    BY <1>4 DEF Validate
  <2>2. ~Passes(by_id, call.items[i], TRUE, call.mode)
    BY <1>4 DEF Sub
  <2>3. Batch(before, by_id', call, results', staged', scan, TRUE)
    BY <1>1, <1>2, <2>1, <2>2, BatchUnstaged
  <2>4. Batch(before, by_id, call, results, staged, scan, shrunk)'
    BY <1>1, <2>1, <2>3
  <2>5. PositiveRegistry(by_id')
    BY <2>3 DEF Batch, Partly
  <2> QED
    BY <1>1, <1>2, <2>4, <2>5 DEF StoreInv, AnswersHonest
<1> QED
  BY <1>3, <1>4

LEMMA StoreStep ==
    ASSUME NoNegation, StoreInv, [Next]_vars
    PROVE  StoreInv'
<1>0. TypeInv' /\ IsRegistry(by_id)
  BY TypeStep DEF StoreInv, PositiveRegistry
<1>1. CASE UNCHANGED vars
  BY <1>0, <1>1 DEF vars, StoreInv, AnswersHonest, Sub
<1>2. ASSUME NEW c \in Calls, Begin(c) PROVE StoreInv'
  <2>1. /\ ~busy /\ busy' = TRUE /\ call' = c /\ results' = <<>> /\ before' = by_id
        /\ UNCHANGED <<by_id, staged, scan, shrunk, displaced, vetted>>
    BY <1>2 DEF Begin
  <2>2. staged = <<>> /\ scan = 1 /\ shrunk = FALSE /\ vetted \subseteq Valid(by_id)
    BY <2>1 DEF StoreInv, TypeInv, TypeOK
  <2>3. Batch(by_id, by_id, c, <<>>, <<>>, 1, FALSE) /\ PositiveRegistry(by_id)
    BY BatchBegun DEF StoreInv
  <2>4. Batch(before, by_id, call, results, staged, scan, shrunk)'
    BY <2>1, <2>2, <2>3
  <2> QED
    BY <1>0, <2>1, <2>2, <2>3, <2>4 DEF StoreInv, AnswersHonest
<1>3. CASE Returning
  <2>1. /\ busy /\ Done(before, by_id', call, results')
    BY <1>3, ReturningDone
       DEF Returning, Register, RefuseEntity, CheckEntity, ReturnResults, RefuseTransient, Restore
  <2>2. \E answers : Return(answers)
    BY <1>3
       DEF Returning, Register, RefuseEntity, CheckEntity, ReturnResults, RefuseTransient, Restore
  <2>3. /\ UNCHANGED <<call, before>> /\ busy' = FALSE
        /\ vetted' = vetted \cup Admitted(results')
    BY <2>2 DEF Return, Ended
  <2> QED
    BY <1>0, <2>1, <2>3, StoreReturns
<1>4. CASE RegisterEntity \/ Displace
  <2>1. /\ busy /\ call.kind \in Singles /\ call.kind \notin Batches /\ Sub(1).defect # "id"
        /\ by_id' = Bind(by_id, Sub(1).id, Sub(1).doc)
        /\ UNCHANGED <<call, busy, before, vetted>>
    BY <1>4 DEF RegisterEntity, Displace, Singles, Batches
  <2>2. Sub(1).id \in Ids /\ PositiveDocument(Sub(1).doc)
    BY <2>1, CallShape, SubmissionTyped
       DEF StoreInv, TypeInv, TypeOK, NoNegation, PositiveDocument, Sub
  <2>3. PositiveRegistry(by_id')
    BY <2>1, <2>2, BindPositive DEF StoreInv
  <2> QED
    BY <1>0, <2>1, <2>3 DEF StoreInv, AnswersHonest
<1>5. CASE Stage
  BY <1>0, <1>5, StoreStages
<1>6. CASE Validate
  BY <1>0, <1>6, StoreValidates
<1>7. CASE NextPass
  <2>1. /\ busy /\ call.kind \in Batches /\ Len(results) = Len(call.items)
        /\ scan' = 1 /\ shrunk' = FALSE
        /\ UNCHANGED <<by_id, call, busy, results, staged, displaced, before, vetted>>
    BY <1>7 DEF NextPass, Schemas, AllStaged, Batches
  <2>2. call \in Calls /\ staged \in Seq(Staged)
    BY DEF StoreInv, TypeInv, TypeOK
  <2>3. Batch(before, by_id, call, results, staged, 1, FALSE)
    BY <2>1, <2>2, BatchAgain DEF StoreInv
  <2>4. Batch(before, by_id, call, results, staged, scan, shrunk)'
    BY <2>1, <2>3
  <2> QED
    BY <1>0, <2>1, <2>4 DEF StoreInv, AnswersHonest
<1>8. CASE Panic
  <2>1. Grown(before, by_id') /\ PositiveRegistry(by_id')
    BY <1>8, PanicTears
  <2>2. busy /\ busy' = FALSE /\ results' = <<>> /\ UNCHANGED <<call, before, vetted>>
    BY <1>8 DEF Panic, Validating, Ended
  <2>3. vetted' \subseteq Valid(by_id')
    BY <2>1, <2>2, GrownValid DEF StoreInv
  <2>4. AnswersHonest'
    BY <2>2, EmptyRegistry DEF AnswersHonest
  <2> QED
    BY <1>0, <2>1, <2>2, <2>3, <2>4 DEF StoreInv
<1>9. CASE Reload
  <2>1. PICK disk \in Disks : by_id' \in Loads(disk)
    BY <1>9 DEF Reload
  <2>2. IsRegistry(by_id') /\ \A id \in DOMAIN by_id' : [id |-> id, doc |-> by_id'[id]] \in disk
    BY <2>1, LoadedRegistry
  <2>3. PositiveRegistry(by_id')
    BY <2>2 DEF PositiveRegistry, NoNegation
  <2>4. ~busy' /\ before' = by_id' /\ vetted' = {} /\ results' = <<>> /\ UNCHANGED <<call, busy>>
    BY <1>9 DEF Reload
  <2>5. AnswersHonest'
    BY <2>4, EmptyRegistry DEF AnswersHonest
  <2> QED
    BY <1>0, <2>3, <2>4, <2>5 DEF StoreInv
<1> QED
  BY <1>1, <1>2, <1>3, <1>4, <1>5, <1>6, <1>7, <1>8, <1>9 DEF Next, Step, Returning

LEMMA StoreAlways ==
    ASSUME NoNegation
    PROVE  Spec => []StoreInv
<1>1. Init => StoreInv
  <2>1. PositiveRegistry(<<>>)
    BY EmptyRegistry DEF PositiveRegistry
  <2> QED
    BY <2>1, StoreOpened DEF Init
<1>2. StoreInv /\ [Next]_vars => StoreInv'
  BY StoreStep
<1> QED
  BY <1>1, <1>2, PTL DEF Spec

---------------------------------------------------------------------------
(* What follows for clients, when no document negates a reference.         *)

(* Every answer a client gets is true of the registry it finds afterwards: *)
(* no item of a batch is accepted on top of a rejected sibling, and none   *)
(* that is rejected is committed (AnswersHonest; add_schemas_with).        *)
THEOREM StoreAnswersHonest ==
    ASSUME NoNegation
    PROVE  Spec => []AnswersHonest
<1>1. StoreInv => AnswersHonest
  BY DEF StoreInv
<1> QED
  BY <1>1, StoreAlways, PTL

(* What an any-valid validation accepted on entry stays valid, whatever    *)
(* calls follow and wherever they panic, until a reload (VettedStayValid). *)
THEOREM StoreVettedStayValid ==
    ASSUME NoNegation
    PROVE  Spec => []VettedStayValid
<1>1. StoreInv => VettedStayValid
  BY DEF StoreInv, VettedStayValid
<1> QED
  BY <1>1, StoreAlways, PTL

(* A call commits in the step that ends it all GtsRegistry says, or when a *)
(* validation panics a part of it; its other steps commit nothing.         *)
LEMMA StoreRefines ==
    ASSUME NoNegation, StoreInv, [Next]_vars
    PROVE  [Registry!Next]_(Registry!vars)
<1>0. call \in Calls /\ busy \in BOOLEAN
  BY DEF StoreInv, TypeInv, TypeOK
<1>1. CASE UNCHANGED vars
  BY <1>1 DEF vars, Registry!vars
<1>2. ASSUME NEW c \in Calls, Begin(c) PROVE Registry!Begin(c)
  BY <1>2 DEF Begin, Registry!Begin
<1>3. CASE Returning
  <2>1. /\ busy /\ Done(before, by_id', call, results')
    BY <1>3, ReturningDone
       DEF Returning, Register, RefuseEntity, CheckEntity, ReturnResults, RefuseTransient, Restore
  <2>2. UNCHANGED <<call, before>> /\ busy' = FALSE
    BY <1>3
       DEF Returning, Register, RefuseEntity, CheckEntity, ReturnResults, RefuseTransient, Restore,
           Return, Ended
  <2>3. by_id' = Registry!Effect(before, call) /\ Len(results') = Len(call.items)
    BY <2>1 DEF Done
  <2>4. Registry!Commit
    BY <2>1, <2>2, <2>3 DEF Registry!Commit
  <2> QED
    BY <2>4 DEF Registry!Next
<1>4. CASE RegisterEntity \/ Displace \/ Stage \/ Validate \/ NextPass
  <2>1. busy /\ UNCHANGED <<call, busy, before>>
    BY <1>4 DEF RegisterEntity, Displace, Stage, Validate, NextPass, Schemas
  <2> QED
    BY <2>1 DEF Registry!vars
<1>5. CASE Panic
  <2>1. by_id' \in Registry!Torn(before, call)
    BY <1>5, PanicTears
  <2>2. /\ busy /\ call.validate /\ busy' = FALSE /\ Len(results') = 0 /\ UNCHANGED call
    BY <1>5, EmptySeq DEF Panic, Validating, Ended
  <2>3. Registry!Tear
    BY <2>1, <2>2 DEF Registry!Tear
  <2> QED
    BY <2>3 DEF Registry!Next
<1>6. CASE Reload
  <2>1. /\ ~busy /\ ~busy' /\ Len(results') = 0 /\ UNCHANGED <<call, busy>>
        /\ \E disk \in Disks : by_id' \in Loads(disk)
    BY <1>6, EmptySeq DEF Reload
  <2>2. Registry!Reload
    BY <2>1 DEF Registry!Reload, Registry!Loads, Loads
  <2> QED
    BY <2>2 DEF Registry!Next
<1> QED
  BY <1>1, <1>2, <1>3, <1>4, <1>5, <1>6 DEF Next, Step, Returning, Registry!Next

(* The calls are atomic: the store implements GtsRegistry (RegistrySpec).  *)
THEOREM StoreImplementsRegistry ==
    ASSUME NoNegation
    PROVE  Spec => RegistrySpec
<1>1. Init => Registry!Init
  <2> SUFFICES ASSUME Init PROVE Registry!Init
    OBVIOUS
  <2>1. call \in Calls
    BY EmptyRegistry, OpenedTyped DEF Init, TypeInv, TypeOK
  <2> QED
    BY <2>1, EmptySeq DEF Init, Opened, Registry!Init
<1>2. StoreInv /\ [Next]_vars => [Registry!Next]_(Registry!vars)
  BY StoreRefines
<1> QED
  BY <1>1, <1>2, StoreAlways, PTL DEF Spec, RegistrySpec, Registry!Spec
=============================================================================
