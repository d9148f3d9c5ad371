------------------------------ MODULE GtsCast -------------------------------
(***************************************************************************)
(* Casting an instance to another schema: defaults for what is missing,    *)
(* the target's identifiers for constant ones, and nothing that the target *)
(* closes out (src/gts/src/schema_cast.rs).                                *)
(***************************************************************************)
EXTENDS GtsEvolution

(* Of a nested schema with allOf, the first branch that says anything of   *)
(* properties stands for all.                                              *)
SpeaksOfProperties(s) == Has(s, "properties") \/ Has(s, "required")

EffectiveObject(s) ==
    LET speaking == IF Has(s, "allOf")
                    THEN {i \in DOMAIN s.allOf : SpeaksOfProperties(s.allOf[i])} ELSE {}
    IN  IF SpeaksOfProperties(s) \/ speaking = {} THEN s
        ELSE s.allOf[CHOOSE i \in speaking : \A j \in speaking : i <= j]

Default(schema, n) ==
    IF n \in Declared(schema) THEN schema.properties[n].default ELSE None

WithDefaults(f, schema) ==
    [n \in Names |-> IF f[n] = None THEN Default(schema, n) ELSE f[n]]

(* Declared, required and missing, with no default to fill in.             *)
Unfilled(f, schema) ==
    {n \in Required(schema) \cap Declared(schema) :
        /\ f[n] = None
        /\ schema.properties[n].bool = None
        /\ Default(schema, n) = None}

IsIdentifierValue(v) == v # None /\ IsStr(v) /\ KindOf[v.str] # "none"

Renamed(f, schema) ==
    [n \in Names |->
        IF /\ n \in Declared(schema)
           /\ IsIdentifierValue(f[n])
           /\ IsIdentifierValue(schema.properties[n].const)
        THEN schema.properties[n].const ELSE f[n]]

Restricted(f, schema) ==
    [n \in Names |->
        IF n \notin Declared(schema) /\ schema.additionalProperties = Bool(FALSE)
        THEN None ELSE f[n]]

RECURSIVE CastObject(_, _)

(* A value below a property, if it is an object or holds objects that the  *)
(* property's schema says are objects.                                     *)
CastBelow(v, s) ==
    IF v = None \/ Has(s, "bool") THEN v
    ELSE IF s.type = {"object"} /\ IsObj(v) THEN Obj(CastObject(v.props, EffectiveObject(s)).value)
    ELSE IF /\ s.type = {"array"} /\ IsArr(v)
            /\ Has(s, "items") /\ ~Has(s.items, "bool") /\ s.items.type = {"object"}
    THEN Arr([i \in DOMAIN v.items |->
                IF IsObj(v.items[i])
                THEN Obj(CastObject(v.items[i].props, EffectiveObject(s.items)).value)
                ELSE v.items[i]])
    ELSE v

MissingBelow(v, s) ==
    /\ v # None /\ ~Has(s, "bool")
    /\ \/ /\ s.type = {"object"} /\ IsObj(v)
          /\ CastObject(v.props, EffectiveObject(s)).missing
       \/ /\ s.type = {"array"} /\ IsArr(v)
          /\ Has(s, "items") /\ ~Has(s.items, "bool") /\ s.items.type = {"object"}
          /\ \E i \in DOMAIN v.items :
                IsObj(v.items[i]) /\ CastObject(v.items[i].props, EffectiveObject(s.items)).missing

CastMembers(f, schema) ==
    [n \in Names |->
        IF n \in Declared(schema) THEN CastBelow(f[n], schema.properties[n]) ELSE f[n]]

(* Slip: defaults are filled in after the values below were cast, and what *)
(* those lack is not passed up.                                            *)
CastObjectShallow(f, schema) ==
    [value |-> WithDefaults(CastMembers(Restricted(Renamed(f, schema), schema), schema), schema),
     missing |-> Unfilled(f, schema) # {}]

CastObject(f, schema) ==
    LET own == Restricted(Renamed(WithDefaults(f, schema), schema), schema)
    IN  [value |-> CastMembers(own, schema),
         missing |-> \/ Unfilled(f, schema) # {}
                     \/ \E n \in Declared(schema) : MissingBelow(own[n], schema.properties[n])]

(* Only the root of the target is reduced to one level; a target that is   *)
(* no object schema is an error.  With a reason the cast value is returned *)
(* all the same.                                                           *)
Cast(instance, target) ==
    LET castTo(flat) == IF ~IsObj(instance) \/ Has(flat, "bool")
                        THEN [value |-> None, missing |-> FALSE]
                        ELSE [CastObject(instance.props, flat) EXCEPT !.value = Obj(@)]
    IN  castTo(Flatten(target, 0).value)
=============================================================================
