----------------------------- MODULE GtsTraits ------------------------------
(***************************************************************************)
(* Traits of a type: the trait schemas and the trait values its chain      *)
(* declares, composed, merged, completed by defaults and judged            *)
(* (src/gts/src/schema_traits.rs, effective_traits of store.rs).           *)
(*                                                                         *)
(* Values are functions on Names, as the members of objects in GtsSchemas; *)
(* null stands for itself in a patch only, where it deletes.  Each trait   *)
(* schema is one: validate_trait_schema_integrity, which asks whether it   *)
(* compiles, is left out.                                                  *)
(***************************************************************************)
EXTENDS GtsDerivation

Nothing == [n \in Names |-> None]

Supplied(f) == {n \in Names : f[n] # None}

(* A document of the chain: its own x-gts-traits-schema and x-gts-traits,  *)
(* and the branches of its allOf, which may carry them too.                *)
Level(declares, sets, branches) ==
    [declares |-> declares, sets |-> sets, branches |-> branches]

-----------------------------------------------------------------------------
(* Collection.                                                             *)

(* All a document and its branches hold of one keyword, in document order. *)
RECURSIVE Gathered(_, _, _)
Gathered(level, field, depth) ==
    IF depth >= MaxDepth THEN <<>>
    ELSE (IF level[field] = None THEN <<>> ELSE <<level[field]>>)
           \o FlattenSeq([i \in DOMAIN level.branches |->
                              Gathered(level.branches[i], field, depth + 1)])

(* The patch of one document: of several blocks the later one wins, key by *)
(* key, and nulls are kept for the merge.                                  *)
LevelPatch(level) ==
    LET over(acc, block) == [n \in Names |-> IF block[n] = None THEN acc[n] ELSE block[n]]
    IN  FoldLeft(over, Nothing, Gathered(level, "sets", 0))

(* Slip: an object that takes the place of no object keeps its nulls.      *)
MergePatchKeepingNulls(target, patch, depth) ==
    IF depth >= MaxDepth THEN target
    ELSE [n \in Names |->
            CASE patch[n] = None -> target[n]
              [] patch[n] = Null -> None
              [] OTHER -> patch[n]]

RECURSIVE MergePatch(_, _, _)
MergePatch(target, patch, depth) ==
    LET below(n) == IF target[n] # None /\ IsObj(target[n]) THEN target[n].props ELSE Nothing
    IN  IF depth >= MaxDepth THEN target
        ELSE [n \in Names |->
                CASE patch[n] = None -> target[n]
                  [] patch[n] = Null -> None
                  [] patch[n] \notin {None, Null} /\ IsObj(patch[n]) ->
                        Obj(MergePatch(below(n), patch[n].props, depth + 1))
                  [] OTHER -> patch[n]]

MergedTraits(chain) ==
    LET step(acc, level) == MergePatch(acc, LevelPatch(level), 0)
    IN  FoldLeft(step, Nothing, chain)

TraitSchemas(chain) ==
    FlattenSeq([i \in DOMAIN chain |-> Gathered(chain[i], "declares", 0)])

EffectiveSchema(schemas) ==
    CASE Len(schemas) = 0 -> Blank
      [] Len(schemas) = 1 -> schemas[1]
      [] OTHER -> [Blank EXCEPT !.type = {"object"}, !.allOf = schemas]

-----------------------------------------------------------------------------
(* Completion by defaults.                                                 *)

(* The properties of a schema and its branches, in document order.         *)
RECURSIVE PropertyBlocks(_, _)
PropertyBlocks(s, depth) ==
    IF depth >= MaxDepth \/ Has(s, "bool") THEN <<>>
    ELSE (IF Has(s, "properties") THEN <<s.properties>> ELSE <<>>)
           \o (IF Has(s, "allOf")
               THEN FlattenSeq([i \in DOMAIN s.allOf |-> PropertyBlocks(s.allOf[i], depth + 1)])
               ELSE <<>>)

(* The declaration of name n in the last block that has one, or none.      *)
LastOf(blocks, n) ==
    LET found == {i \in DOMAIN blocks : blocks[i][n] # None}
    IN  IF found = {} THEN None ELSE blocks[CHOOSE i \in found : \A j \in found : j <= i][n]

Defaulting(blocks) ==
    [i \in DOMAIN blocks |->
        [n \in Names |-> IF blocks[i][n] # None /\ Has(blocks[i][n], "default") THEN blocks[i][n] ELSE None]]

(* Slip: a redeclared property has the default of its last declaration.    *)
NearestDefaultOfLast(blocks, n) ==
    LET declared == LastOf(blocks, n) IN
    IF declared = None THEN None ELSE declared.default

(* The default nearest to the leaf, whether or not the property is         *)
(* declared anew below it.                                                 *)
NearestDefault(blocks, n) ==
    LET declared == LastOf(Defaulting(blocks), n) IN
    IF declared = None THEN None ELSE declared.default

NestsObjects(s) == s # None /\ s.type = {"object"} /\ Has(s, "properties")

RECURSIVE Materialized(_, _, _)
Materialized(s, f, depth) ==
    LET blocks == PropertyBlocks(s, 0) IN
    IF depth >= MaxDepth THEN f
    ELSE [n \in Names |->
            IF f[n] = None THEN NearestDefault(blocks, n)
            ELSE IF IsObj(f[n]) /\ NestsObjects(LastOf(blocks, n))
            THEN Obj(Materialized(LastOf(blocks, n), f[n].props, depth + 1))
            ELSE f[n]]

RECURSIVE AllRequired(_, _)
AllRequired(s, depth) ==
    IF depth >= MaxDepth \/ Has(s, "bool") THEN {}
    ELSE Required(s) \cup UNION {AllRequired(b, depth + 1) : b \in Branches(s, "allOf")}

RECURSIVE WithoutRequired(_, _)
WithoutRequired(s, depth) ==
    IF depth >= MaxDepth \/ Has(s, "bool") THEN s
    ELSE [s EXCEPT !.required = None,
                   !.allOf = IF @ = None THEN None
                             ELSE [i \in DOMAIN @ |-> WithoutRequired(@[i], depth + 1)]]

-----------------------------------------------------------------------------
(* Judgement.                                                              *)

RECURSIVE IsFalse(_, _)
IsFalse(s, depth) ==
    /\ depth < MaxDepth
    /\ \/ s.bool = FALSE
       \/ s.bool = None /\ \E b \in Branches(s, "allOf") : IsFalse(b, depth + 1)

ComposedBefore(schemas, i) == EffectiveSchema(SubSeq(schemas, 1, i - 1))

(* A schema in the place of the one of a document.                         *)
In(doc, s) == [doc EXCEPT !.root = s]

(* Every trait schema narrows what the ones before it compose to.          *)
Compatible(doc, schemas) ==
    \A i \in 2 .. Len(schemas) :
        LET ancestor == In(doc, ComposedBefore(schemas, i))
        IN  /\ ValidateDerivation(ancestor, In(doc, EffectiveSchema(SubSeq(schemas, 1, i)))) = {}
            /\ ClosedBranches(ancestor, In(doc, schemas[i])) = {}

Unresolved(s, values) ==
    LET blocks == PropertyBlocks(s, 0) IN
    {n \in AllRequired(s, 0) :
        /\ values[n] = None
        /\ LastOf(blocks, n) # None
        /\ ~Has(LastOf(blocks, n), "default")}

(* complete: a concrete type resolves every required trait, an abstract    *)
(* one may leave some to its descendants.                                  *)
ValuesHold(doc, s, values, complete) ==
    /\ Valid(In(doc, IF complete THEN s ELSE WithoutRequired(s, 0)), Obj(values))
    /\ complete => Unresolved(s, values) = {}

ValidateTraitValues(doc, schemas, merged, complete) ==
    \A s \in {EffectiveSchema(schemas)} :
        IF Len(schemas) = 0 \/ IsFalse(s, 0) THEN Supplied(merged) = {}
        ELSE ValuesHold(doc, s, Materialized(s, merged, 0), complete)

ValidateTraits(doc, schemas, merged, complete) ==
    Compatible(doc, schemas) /\ ValidateTraitValues(doc, schemas, merged, complete)

(* The traits of the last type of a chain, in its dialect and under its    *)
(* identifier.                                                             *)
TraitsHold(dialect, id, chain, complete) ==
    ValidateTraits(Document(dialect, id, Blank), TraitSchemas(chain), MergedTraits(chain), complete)
=============================================================================
