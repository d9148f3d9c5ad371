---------------------------- MODULE GtsValidity ----------------------------
(***************************************************************************)
(* What it means for a registered GTS entity to be valid.                  *)
(*                                                                         *)
(* A registry maps ids to documents.  A document is sound relative to a    *)
(* set X of trusted ids when every check of the validator that does not    *)
(* look at other entities passes, every type it builds on is sound, and    *)
(* every entity reference it must satisfy names a member of X.  Reference  *)
(* cycles are legal, so validity is the GREATEST set of registered         *)
(* entities each of which is sound relative to that same set.              *)
(*                                                                         *)
(* This module is constant-level: the validator of store.rs, which reaches *)
(* the same answer by depth-first search with a cache, is GtsValidation.   *)
(***************************************************************************)
EXTENDS Naturals, Sequences

CONSTANTS
    TypeIds,      \* GTS type identifiers (ending in '~')
    InstanceIds,  \* every other key of the store: well-known instance ids
    NoType,       \* "no such type"
    Base,         \* [TypeIds -> TypeIds or NoType]: all segments but the last
    Ancestors,    \* [TypeIds -> SUBSET TypeIds]: proper prefixes of the chain
    Dialects      \* JSON Schema dialects a document may declare

Ids == TypeIds \cup InstanceIds

(***************************************************************************)
(* Identifier structure.  A chained id names its ancestors: the ancestors  *)
(* of t are its base and the base's ancestors, each the base of some type  *)
(* of the chain.                                                           *)
(***************************************************************************)
ASSUME IdAssumption ==
    /\ TypeIds \cap InstanceIds = {}
    /\ NoType \notin Ids
    /\ Base \in [TypeIds -> TypeIds \cup {NoType}]
    /\ Ancestors \in [TypeIds -> SUBSET TypeIds]
    /\ \A t \in TypeIds :
          /\ t \notin Ancestors[t]
          /\ Ancestors[t] = IF Base[t] = NoType THEN {}
                            ELSE {Base[t]} \cup Ancestors[Base[t]]
          /\ \A a \in Ancestors[t] : \E d \in {t} \cup Ancestors[t] : Base[d] = a

(***************************************************************************)
(* Documents, reduced to what validation distinguishes.                    *)
(*                                                                         *)
(* fault: the first failing check that reads no other entity, by where in  *)
(*   the order of checks it sits: "early" before the entity-reference      *)
(*   operands, "late" after them, "traits" once trait references are       *)
(*   collected, "incomplete" a required trait without a value, which an    *)
(*   abstract type may leave open.                                         *)
(* operands: for each entity-reference keyword of the body, in document    *)
(*   order, the ids its pattern matches (one for a concrete operand).      *)
(* refs: targets of gts:// $refs.                                          *)
(* candidates: GTS ids among the string values of the payload (of the      *)
(*   merged trait values, for a type); required: those whose rejection     *)
(*   rejects the document; forbidden: those below a `not`, whose           *)
(*   acceptance rejects it.                                                *)
(* conforms: a type narrows its base; a payload meets its type's body, the *)
(*   entity references aside.                                              *)
(* type: the type an instance declares or its chained id names.            *)
(***************************************************************************)
Document ==
    [is_schema   : BOOLEAN,
     fault       : {"none", "early", "late", "traits", "incomplete"},
     dialect     : Dialects,
     operands    : Seq(SUBSET Ids),
     refs        : SUBSET TypeIds,
     candidates  : SUBSET Ids,
     required    : SUBSET Ids,
     forbidden   : SUBSET Ids,
     conforms    : BOOLEAN,
     is_abstract : BOOLEAN,
     is_final    : BOOLEAN,
     type        : TypeIds \cup {NoType}]

IsDocument(doc) ==
    /\ doc \in Document
    /\ doc.required \subseteq doc.candidates
    /\ doc.forbidden \subseteq doc.candidates
    /\ \A k \in DOMAIN doc.operands : doc.operands[k] # {}

IsRegistry(R) ==
    /\ R = [id \in DOMAIN R |-> R[id]]
    /\ DOMAIN R \subseteq Ids
    /\ \A id \in DOMAIN R : IsDocument(R[id])

(***************************************************************************)
(* A document whose references only ever count in its favour.              *)
(***************************************************************************)
IsPositive(doc) == doc.forbidden = {}

---------------------------------------------------------------------------
(* Lookups and the $ref graph. *)

IsSchema(R, t) == t \in TypeIds \cap DOMAIN R /\ R[t].is_schema

RefsOf(R, t) == IF IsSchema(R, t) THEN R[t].refs ELSE {}

(* Of $refs it counts here which documents they lead to.  Which part of a  *)
(* document a $ref means, and how many targets there may be on one path    *)
(* (MAX_REF_CHAIN_DEPTH), is the part of GtsSchemaResolver.                *)

(* The types t reaches through one or more $refs. *)
Reach(R, t) ==
    {u \in TypeIds :
        \A S \in SUBSET TypeIds :
            (RefsOf(R, t) \subseteq S /\ \A v \in S : RefsOf(R, v) \subseteq S)
                => u \in S}

(* Every $ref below t leads to a registered schema. *)
Resolves(R, t) == \A u \in Reach(R, t) : IsSchema(R, u)

(* Inlining the $refs of t meets a document that is already being inlined. *)
Circular(R, t) == \E u \in {t} \cup Reach(R, t) : u \in Reach(R, u)

(* The immediate base of t and its $ref targets, itself excluded. *)
RelatedTypes(R, t) == (({Base[t]} \ {NoType}) \cup RefsOf(R, t)) \ {t}

---------------------------------------------------------------------------
(* The checks of one type, in the order validate_schema_locally makes them *)

(* One dialect along the chain and across every $ref. *)
DialectOK(R, t) ==
    /\ \A root \in Ancestors[t] :
          (Base[root] = NoType /\ root \in DOMAIN R)
             => R[root].dialect = R[t].dialect
    /\ \A u \in R[t].refs : IsSchema(R, u) => R[u].dialect = R[t].dialect

(* What precedes the entity-reference operands. *)
HeadOK(R, t) == R[t].fault # "early" /\ DialectOK(R, t)

(* Every adjacent pair of the chain of t: the base is a schema that is not *)
(* final, both inline completely, and the derived one narrows the base.    *)
ChainOK(R, t) ==
    \A d \in {t} \cup Ancestors[t] :
        Base[d] # NoType =>
            /\ IsSchema(R, Base[d]) /\ IsSchema(R, d)
            /\ ~R[Base[d]].is_final
            /\ \A u \in {Base[d], d} : Resolves(R, u) /\ ~Circular(R, u)
            /\ R[d].conforms

(* What lies between the operands and the trait values. *)
BodyOK(R, t) ==
    /\ R[t].fault # "late"
    /\ ChainOK(R, t)
    /\ Resolves(R, t)

(* The trait values, their references aside. *)
TraitsOK(R, t) ==
    /\ R[t].fault # "traits"
    /\ R[t].fault = "incomplete" => R[t].is_abstract

(* The verdict of the compiled validator once sat is the set of satisfied  *)
(* candidates.                                                             *)
RefsOK(doc, sat) == doc.required \subseteq sat /\ doc.forbidden \cap sat = {}

---------------------------------------------------------------------------
(* Soundness relative to a set X of trusted ids. *)

OperandsOK(R, t, X) ==
    \A k \in DOMAIN R[t].operands : R[t].operands[k] \cap X # {}

LocallySound(R, t, X) ==
    /\ IsSchema(R, t)
    /\ HeadOK(R, t)
    /\ OperandsOK(R, t, X)
    /\ BodyOK(R, t)
    /\ RefsOK(R[t], X)
    /\ TraitsOK(R, t)

(* t and everything it builds on, transitively, is locally sound. *)
SchemaSound(R, t, X) ==
    \E C \in SUBSET TypeIds :
        /\ t \in C
        /\ \A u \in C : LocallySound(R, u, X) /\ RelatedTypes(R, u) \subseteq C

(* A payload document is accepted by the type it is checked against. *)
PayloadConforms(R, t, doc, X) ==
    /\ IsSchema(R, t)
    /\ ~R[t].is_abstract
    /\ Resolves(R, t)
    /\ RefsOK(doc, X)
    /\ doc.conforms

PayloadSound(R, t, doc, X) == SchemaSound(R, t, X) /\ PayloadConforms(R, t, doc, X)

InstanceSound(R, i, X) ==
    /\ i \in DOMAIN R
    /\ ~R[i].is_schema
    /\ R[i].type # NoType
    /\ PayloadSound(R, R[i].type, R[i], X)

(* A type id is judged as a type and any other id as an instance. *)
Sound(R, id, X) ==
    IF id \in TypeIds THEN SchemaSound(R, id, X) ELSE InstanceSound(R, id, X)

SelfSupporting(R, X) == \A id \in X : Sound(R, id, X)

(***************************************************************************)
(* The valid entities of a registry.                                       *)
(***************************************************************************)
Valid(R) == UNION {X \in SUBSET DOMAIN R : SelfSupporting(R, X)}

---------------------------------------------------------------------------
(* Reference policies and requests. *)

Modes == {"none", "any-present", "any-valid"}

(* The ids an entity reference may name under a policy. *)
Trusted(R, mode) ==
    IF mode = "none" THEN Ids
    ELSE IF mode = "any-present" THEN DOMAIN R
    ELSE Valid(R)

(* The answer a top-level validation should give. *)
Holds(R, req) ==
    LET X == Trusted(R, req.mode) IN
    /\ req.op = "schema" => SchemaSound(R, req.id, X)
    /\ req.op = "instance" => InstanceSound(R, req.id, X)
    /\ req.op = "payload" => PayloadSound(R, req.id, req.doc, X)
============================================================================
