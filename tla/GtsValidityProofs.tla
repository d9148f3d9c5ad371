------------------------- MODULE GtsValidityProofs -------------------------
(***************************************************************************)
(* Facts about validity, for registries without negated references: being  *)
(* sound is monotone in the trusted set, the valid entities support each   *)
(* other, and they are the greatest set that does; and a registry that     *)
(* grows keeps what was valid in it.                                       *)
(***************************************************************************)
EXTENDS GtsValidity, TLAPS

PositiveRegistry(R) == IsRegistry(R) /\ \A id \in DOMAIN R : IsPositive(R[id])

PositiveDocument(doc) == IsDocument(doc) /\ IsPositive(doc)

(* Trusting more never makes a positive document worse (RefsOK). *)
LEMMA RefsMonotone ==
    ASSUME NEW doc, PositiveDocument(doc), NEW X, NEW Y, X \subseteq Y, RefsOK(doc, X)
    PROVE  RefsOK(doc, Y)
BY DEF PositiveDocument, IsPositive, RefsOK

(* Nor does it make a positive type worse (LocallySound). *)
LEMMA LocallySoundMonotone ==
    ASSUME NEW R, PositiveRegistry(R), NEW X, NEW Y, X \subseteq Y,
           NEW t, LocallySound(R, t, X)
    PROVE  LocallySound(R, t, Y)
<1>1. t \in DOMAIN R /\ PositiveDocument(R[t])
  BY DEF LocallySound, IsSchema, PositiveRegistry, PositiveDocument, IsRegistry
<1>2. RefsOK(R[t], Y)
  BY <1>1, RefsMonotone DEF LocallySound
<1>3. OperandsOK(R, t, Y)
  BY DEF LocallySound, OperandsOK
<1> QED
  BY <1>2, <1>3 DEF LocallySound

(* Nor what a type builds on (SchemaSound). *)
LEMMA SchemaSoundMonotone ==
    ASSUME NEW R, PositiveRegistry(R), NEW X, NEW Y, X \subseteq Y,
           NEW t, SchemaSound(R, t, X)
    PROVE  SchemaSound(R, t, Y)
<1>1. PICK C \in SUBSET TypeIds :
         /\ t \in C
         /\ \A u \in C : LocallySound(R, u, X) /\ RelatedTypes(R, u) \subseteq C
  BY DEF SchemaSound
<1>2. \A u \in C : LocallySound(R, u, Y)
  BY <1>1, LocallySoundMonotone
<1> QED
  BY <1>1, <1>2 DEF SchemaSound

(* Nor a payload (PayloadConforms). *)
LEMMA PayloadConformsMonotone ==
    ASSUME NEW R, NEW t, NEW doc, PositiveDocument(doc),
           NEW X, NEW Y, X \subseteq Y, PayloadConforms(R, t, doc, X)
    PROVE  PayloadConforms(R, t, doc, Y)
BY RefsMonotone DEF PayloadConforms

(* Nor any entity (Sound). *)
LEMMA SoundMonotone ==
    ASSUME NEW R, PositiveRegistry(R), NEW X, NEW Y, X \subseteq Y,
           NEW id, Sound(R, id, X)
    PROVE  Sound(R, id, Y)
<1>1. CASE id \in TypeIds
  BY <1>1, SchemaSoundMonotone DEF Sound
<1>2. CASE id \notin TypeIds
  <2>1. InstanceSound(R, id, X)
    BY <1>2 DEF Sound
  <2>2. PositiveDocument(R[id])
    BY <2>1 DEF InstanceSound, PositiveRegistry, PositiveDocument, IsRegistry
  <2>3. PayloadSound(R, R[id].type, R[id], Y)
    BY <2>1, <2>2, SchemaSoundMonotone, PayloadConformsMonotone
       DEF InstanceSound, PayloadSound
  <2> QED
    BY <1>2, <2>1, <2>3 DEF Sound, InstanceSound
<1> QED
  BY <1>1, <1>2

(* The valid entities are registered... *)
LEMMA ValidRegistered ==
    ASSUME NEW R
    PROVE  Valid(R) \subseteq DOMAIN R
BY DEF Valid

(* ... any self-supporting set of registered entities is among them... *)
LEMMA ValidGreatest ==
    ASSUME NEW R, NEW X, X \subseteq DOMAIN R, SelfSupporting(R, X)
    PROVE  X \subseteq Valid(R)
BY DEF Valid

(* ... and together they support themselves: validity is a fixpoint. *)
LEMMA ValidSelfSupporting ==
    ASSUME NEW R, PositiveRegistry(R)
    PROVE  SelfSupporting(R, Valid(R))
<1> SUFFICES ASSUME NEW id \in Valid(R)
             PROVE  Sound(R, id, Valid(R))
  BY DEF SelfSupporting
<1>1. PICK X \in SUBSET DOMAIN R : id \in X /\ SelfSupporting(R, X)
  BY DEF Valid
<1>2. X \subseteq Valid(R)
  BY <1>1, ValidGreatest
<1>3. Sound(R, id, X)
  BY <1>1 DEF SelfSupporting
<1> QED
  BY <1>2, <1>3, SoundMonotone
---------------------------------------------------------------------------
(* Registries that grow.  What is registered later never makes a document  *)
(* worse: all a check found it finds again, and nothing it failed to find  *)
(* was needed.                                                             *)

Grown(R, S) ==
    /\ IsRegistry(R) /\ IsRegistry(S)
    /\ DOMAIN R \subseteq DOMAIN S
    /\ \A id \in DOMAIN R : S[id] = R[id]

(* A schema stays one, with the same references (IsSchema, RefsOf). *)
LEMMA GrownSchema ==
    ASSUME NEW R, NEW S, Grown(R, S), NEW t, IsSchema(R, t)
    PROVE  IsSchema(S, t) /\ S[t] = R[t] /\ RefsOf(S, t) = RefsOf(R, t)
BY DEF Grown, IsSchema, RefsOf

(* What is reached is closed under references... *)
LEMMA ReachClosed ==
    ASSUME NEW R, IsRegistry(R), NEW t
    PROVE  /\ Reach(R, t) \subseteq TypeIds
           /\ RefsOf(R, t) \subseteq Reach(R, t)
           /\ \A u \in Reach(R, t) : RefsOf(R, u) \subseteq Reach(R, t)
<1>1. \A u : RefsOf(R, u) \subseteq TypeIds
  BY DEF RefsOf, IsSchema, IsRegistry, IsDocument, Document
<1>2. Reach(R, t) \subseteq TypeIds
  BY DEF Reach
<1>3. RefsOf(R, t) \subseteq Reach(R, t)
  BY <1>1 DEF Reach
<1>4. ASSUME NEW u \in Reach(R, t), NEW v \in RefsOf(R, u)
      PROVE  v \in Reach(R, t)
  <2>1. \A C \in SUBSET TypeIds :
           (RefsOf(R, t) \subseteq C /\ \A w \in C : RefsOf(R, w) \subseteq C) => u \in C
    BY DEF Reach
  <2>2. \A C \in SUBSET TypeIds :
           (RefsOf(R, t) \subseteq C /\ \A w \in C : RefsOf(R, w) \subseteq C) => v \in C
    BY <2>1
  <2> QED
    BY <1>1, <2>2 DEF Reach
<1> QED
  BY <1>2, <1>3, <1>4

(* ... and the least such set. *)
LEMMA ReachLeast ==
    ASSUME NEW R, NEW t, NEW C \in SUBSET TypeIds,
           RefsOf(R, t) \subseteq C, \A u \in C : RefsOf(R, u) \subseteq C
    PROVE  Reach(R, t) \subseteq C
BY DEF Reach

(* From a document whose references resolve the same is reached. *)
LEMMA GrownReach ==
    ASSUME NEW R, NEW S, Grown(R, S), NEW t, IsSchema(R, t), Resolves(R, t)
    PROVE  Reach(S, t) = Reach(R, t)
<1>1. \A u \in {t} \cup Reach(R, t) : RefsOf(S, u) = RefsOf(R, u)
  BY GrownSchema DEF Resolves
<1>2. Reach(S, t) \subseteq Reach(R, t)
  <2>1. Reach(R, t) \in SUBSET TypeIds
    BY ReachClosed DEF Grown
  <2> QED
    BY <1>1, <2>1, ReachClosed, ReachLeast DEF Grown
<1>3. Reach(R, t) \subseteq Reach(S, t)
  <2> DEFINE C == Reach(S, t) \cap Reach(R, t)
  <2>1. C \in SUBSET TypeIds
    BY ReachClosed DEF Grown
  <2>2. RefsOf(R, t) \subseteq C
    BY <1>1, ReachClosed DEF Grown
  <2>3. \A u \in C : RefsOf(R, u) \subseteq C
    BY <1>1, ReachClosed DEF Grown
  <2>4. Reach(R, t) \subseteq C
    BY <2>1, <2>2, <2>3, ReachLeast
  <2> QED
    BY <2>4
<1> QED
  BY <1>2, <1>3

(* It still resolves, and is circular if it was (Resolves, Circular). *)
LEMMA GrownResolves ==
    ASSUME NEW R, NEW S, Grown(R, S), NEW t, IsSchema(R, t), Resolves(R, t)
    PROVE  Resolves(S, t) /\ (Circular(S, t) <=> Circular(R, t))
<1>1. Reach(S, t) = Reach(R, t)
  BY GrownReach
<1>2. Resolves(S, t)
  BY <1>1, GrownSchema DEF Resolves
<1>3. ASSUME NEW u \in {t} \cup Reach(R, t)
      PROVE  Reach(S, u) = Reach(R, u)
  <2>1. IsSchema(R, u)
    BY DEF Resolves
  <2>2. Reach(R, u) \subseteq Reach(R, t)
    <3>1. Reach(R, t) \in SUBSET TypeIds
      BY ReachClosed DEF Grown
    <3> QED
      BY <3>1, ReachClosed, ReachLeast DEF Grown
  <2>3. Resolves(R, u)
    BY <2>2 DEF Resolves
  <2> QED
    BY <2>1, <2>3, GrownReach
<1> QED
  BY <1>1, <1>2, <1>3 DEF Circular

(* The chain keeps what made it derive properly (ChainOK)... *)
LEMMA GrownChain ==
    ASSUME NEW R, NEW S, Grown(R, S), NEW t, ChainOK(R, t)
    PROVE  ChainOK(S, t)
<1> SUFFICES ASSUME NEW d \in {t} \cup Ancestors[t], Base[d] # NoType
             PROVE  /\ IsSchema(S, Base[d]) /\ IsSchema(S, d)
                    /\ ~S[Base[d]].is_final
                    /\ \A u \in {Base[d], d} : Resolves(S, u) /\ ~Circular(S, u)
                    /\ S[d].conforms
  BY DEF ChainOK
<1>1. /\ IsSchema(R, Base[d]) /\ IsSchema(R, d)
      /\ ~R[Base[d]].is_final
      /\ \A u \in {Base[d], d} : Resolves(R, u) /\ ~Circular(R, u)
      /\ R[d].conforms
  BY DEF ChainOK
<1> QED
  BY <1>1, GrownSchema, GrownResolves

(* ... and its root, registered already, the dialect (DialectOK). *)
LEMMA GrownDialect ==
    ASSUME NEW R, NEW S, Grown(R, S), NEW t, IsSchema(R, t),
           ChainOK(R, t), Resolves(R, t), DialectOK(R, t)
    PROVE  DialectOK(S, t)
<1>1. t \in TypeIds /\ t \in DOMAIN R /\ S[t] = R[t]
  BY GrownSchema DEF IsSchema
<1>2. ASSUME NEW root \in Ancestors[t], Base[root] = NoType
      PROVE  root \in DOMAIN R /\ S[root].dialect = S[t].dialect
  <2>1. PICK d \in {t} \cup Ancestors[t] : Base[d] = root
    BY <1>1, IdAssumption
  <2>2. root # NoType
    BY <1>1, IdAssumption DEF Ids
  <2>3. IsSchema(R, root)
    BY <2>1, <2>2 DEF ChainOK
  <2>4. root \in DOMAIN R /\ S[root] = R[root]
    BY <2>3, GrownSchema DEF IsSchema
  <2> QED
    BY <1>1, <1>2, <2>4 DEF DialectOK
<1>3. ASSUME NEW u \in R[t].refs
      PROVE  S[u].dialect = S[t].dialect
  <2>1. u \in Reach(R, t)
    BY ReachClosed DEF Grown, RefsOf
  <2>2. IsSchema(R, u)
    BY <2>1 DEF Resolves
  <2> QED
    BY <1>1, <2>2, GrownSchema DEF DialectOK
<1> QED
  BY <1>1, <1>2, <1>3 DEF DialectOK

(* A locally sound type stays so (LocallySound)... *)
LEMMA GrownLocallySound ==
    ASSUME NEW R, NEW S, Grown(R, S), NEW X, NEW t, LocallySound(R, t, X)
    PROVE  LocallySound(S, t, X)
<1>1. /\ IsSchema(R, t) /\ HeadOK(R, t) /\ OperandsOK(R, t, X)
      /\ BodyOK(R, t) /\ RefsOK(R[t], X) /\ TraitsOK(R, t)
  BY DEF LocallySound
<1>2. IsSchema(S, t) /\ S[t] = R[t]
  BY <1>1, GrownSchema
<1>3. HeadOK(S, t)
  BY <1>1, <1>2, GrownDialect DEF HeadOK, BodyOK
<1>4. BodyOK(S, t)
  BY <1>1, <1>2, GrownChain, GrownResolves DEF BodyOK
<1>5. OperandsOK(S, t, X) /\ RefsOK(S[t], X) /\ TraitsOK(S, t)
  BY <1>1, <1>2 DEF OperandsOK, TraitsOK
<1> QED
  BY <1>2, <1>3, <1>4, <1>5 DEF LocallySound

(* ... with all it builds on (SchemaSound)... *)
LEMMA GrownSchemaSound ==
    ASSUME NEW R, NEW S, Grown(R, S), NEW X, NEW t, SchemaSound(R, t, X)
    PROVE  SchemaSound(S, t, X)
<1>1. PICK C \in SUBSET TypeIds :
         /\ t \in C
         /\ \A u \in C : LocallySound(R, u, X) /\ RelatedTypes(R, u) \subseteq C
  BY DEF SchemaSound
<1>2. ASSUME NEW u \in C
      PROVE  LocallySound(S, u, X) /\ RelatedTypes(S, u) \subseteq C
  <2>1. RefsOf(S, u) = RefsOf(R, u)
    BY <1>1, GrownSchema DEF LocallySound
  <2> QED
    BY <1>1, <2>1, GrownLocallySound DEF RelatedTypes
<1> QED
  BY <1>1, <1>2 DEF SchemaSound

(* ... a payload stays accepted (PayloadSound)... *)
LEMMA GrownPayloadSound ==
    ASSUME NEW R, NEW S, Grown(R, S), NEW X, NEW t, NEW doc, PayloadSound(R, t, doc, X)
    PROVE  PayloadSound(S, t, doc, X)
BY GrownSchema, GrownResolves, GrownSchemaSound DEF PayloadSound, PayloadConforms

(* ... an instance sound (InstanceSound)... *)
LEMMA GrownInstanceSound ==
    ASSUME NEW R, NEW S, Grown(R, S), NEW X, NEW i, InstanceSound(R, i, X)
    PROVE  InstanceSound(S, i, X)
<1>1. i \in DOMAIN S /\ S[i] = R[i]
  BY DEF InstanceSound, Grown
<1> QED
  BY <1>1, GrownPayloadSound DEF InstanceSound

(* ... and so what is valid stays valid (Valid). *)
THEOREM GrownValid ==
    ASSUME NEW R, NEW S, Grown(R, S)
    PROVE  Valid(R) \subseteq Valid(S)
<1> SUFFICES ASSUME NEW X \in SUBSET DOMAIN R, SelfSupporting(R, X)
             PROVE  X \subseteq Valid(S)
  BY DEF Valid
<1>1. \A id \in X : Sound(S, id, X)
  BY GrownSchemaSound, GrownInstanceSound DEF SelfSupporting, Sound
<1>2. X \subseteq DOMAIN S
  BY DEF Grown
<1> QED
  BY <1>1, <1>2, ValidGreatest DEF SelfSupporting

(***************************************************************************)
(* A top-level validation of a registered entity that succeeds succeeds    *)
(* again, whatever else was registered in between, if nothing negates a    *)
(* reference (Holds).                                                      *)
(***************************************************************************)
THEOREM GrownHolds ==
    ASSUME NEW R, NEW S, Grown(R, S), PositiveRegistry(S), NEW req,
           req.op # "payload", Holds(R, req)
    PROVE  Holds(S, req)
<1> DEFINE X == Trusted(R, req.mode)
           Y == Trusted(S, req.mode)
<1>1. X \subseteq Y
  BY GrownValid DEF Trusted, Grown
<1>2. CASE req.op = "schema"
  <2>1. SchemaSound(S, req.id, X)
    BY <1>2, GrownSchemaSound DEF Holds
  <2>2. SchemaSound(S, req.id, Y)
    BY <1>1, <2>1, SchemaSoundMonotone
  <2> QED
    BY <1>2, <2>2 DEF Holds
<1>3. CASE req.op = "instance"
  <2>1. InstanceSound(S, req.id, X)
    BY <1>3, GrownInstanceSound DEF Holds
  <2>2. PositiveDocument(S[req.id])
    BY <2>1 DEF InstanceSound, PositiveRegistry, PositiveDocument, IsRegistry
  <2>3. PayloadSound(S, S[req.id].type, S[req.id], Y)
    BY <1>1, <2>1, <2>2, SchemaSoundMonotone, PayloadConformsMonotone
       DEF InstanceSound, PayloadSound
  <2>4. InstanceSound(S, req.id, Y)
    BY <2>1, <2>3 DEF InstanceSound
  <2> QED
    BY <1>3, <2>4 DEF Holds
<1>4. CASE req.op \notin {"schema", "instance", "payload"}
  BY <1>4 DEF Holds
<1> QED
  BY <1>2, <1>3, <1>4

(* What holds of the valid entities is one of them (Valid, Sound). *)
LEMMA SoundIsValid ==
    ASSUME NEW R, PositiveRegistry(R), NEW id \in DOMAIN R, Sound(R, id, Valid(R))
    PROVE  id \in Valid(R)
<1> DEFINE X == Valid(R) \cup {id}
<1>1. X \subseteq DOMAIN R
  BY ValidRegistered
<1>2. \A i \in X : Sound(R, i, Valid(R))
  BY ValidSelfSupporting DEF SelfSupporting
<1>3. \A i \in X : Sound(R, i, X)
  BY <1>2, SoundMonotone
<1> QED
  BY <1>1, <1>3, ValidGreatest DEF SelfSupporting
============================================================================
