------------------------------ MODULE MCTraits ------------------------------
(***************************************************************************)
(* Chains of documents that declare and set traits: each document of a     *)
(* family is a part of a chain, and a pair is the chain of both.           *)
(***************************************************************************)
EXTENDS MCEvolution, GtsTraits

Chain == old \o new

-----------------------------------------------------------------------------
(* Patches alone: over one another, from one level and from branches.      *)

Pair(x, y) == Props(x, y)

SomeValues ==
    {None, Null, Num(2), Obj(Nothing), Obj(Pair(Null, None)), Obj(Pair(Num(2), None)),
     Obj(Pair(Num(4), Null)), Obj(Pair(Obj(Pair(Null, Num(2))), None)),
     Obj(Pair(Obj(Pair(Num(4), None)), None))}

Sets(f) == Level(None, f, <<>>)

Patches ==
    LET one == {Sets(Pair(x, None)) : x \in SomeValues}
    IN  [asks |-> {"merging"}, values |-> {},
         docs |-> {<<x, y>> : x, y \in one}
                    \cup {<<Level(None, Pair(Num(2), None), <<Sets(Pair(x, y))>>)>> :
                            x \in SomeValues, y \in {None, Num(2)}}]

(* Trait schemas with values beside them.                                  *)
Locked == With([const |-> Num(2)])
Defaulted == With([type |-> {"integer"}, default |-> Num(4)])
Nested(s) == With([type |-> {"object"}, properties |-> Props(s, None)])
Declares(p, r) == With([type |-> {"object"}, properties |-> p, required |-> r])

TraitShapes ==
    {None, Bool(TRUE), Bool(FALSE)}
    \cup {Declares(Props(x, None), r) :
            x \in {Integers, NumbersOnly, Locked, Defaulted}, r \in {None, {"a"}}}
    \cup {Declares(Props(Defaulted, StringsOnly), None),
          Declares(Props(None, StringsOnly), {"b"}),
          Declares(Props(Nested(Defaulted), None), None),
          Declares(Props(Nested(Integers), None), {"a"}),
          With([properties |-> Props(None, Integers), additionalProperties |-> Bool(FALSE)]),
          With([properties |-> Props(Integers, None), additionalProperties |-> Bool(FALSE)])}

Root == Level(Declares(Props(Defaulted, None), {"a"}), Pair(Num(3), None), <<>>)

Traited ==
    [asks |-> {"traits"}, values |-> {},
     docs |-> {<<Level(s, f, <<>>)>> :
                 s \in TraitShapes,
                 f \in {None, Pair(Num(2), None), Pair(Obj(Nothing), Str("a")), Pair(None, Str("a"))}}
        \cup {<<Root, Level(None, None, <<Level(s, f, <<>>)>>)>> :
                s \in TraitShapes, f \in {Pair(Null, None)}}
        \cup {<<Level(s, None, <<>>), Level(Bool(TRUE), Pair(None, Str("a")), <<>>)>> : s \in TraitShapes}]

-----------------------------------------------------------------------------
(* The last level that writes at a path decides what is there, be it by a  *)
(* value, by a null or by a scalar above it (merge_rfc7396_into).          *)

(* What a patch does at a path: nothing, write a scalar, or unset what is  *)
(* there; an object touches nothing but what it holds, and makes the path  *)
(* an object.                                                              *)
Untouched == [mark |-> "untouched"]
Unset == [mark |-> "unset"]
AnObject == [mark |-> "object"]

RECURSIVE Writes(_, _)
Writes(f, path) ==
    LET here == f[Head(path)] IN
    CASE here = None -> Untouched
      [] here = Null -> Unset
      [] here \notin {None, Null} /\ IsObj(here) ->
            IF Len(path) = 1 THEN AnObject ELSE Writes(here.props, Tail(path))
      [] OTHER -> IF Len(path) = 1 THEN here ELSE Unset

RECURSIVE At(_, _)
At(f, path) ==
    LET here == f[Head(path)] IN
    IF here = None THEN None
    ELSE IF Len(path) = 1 THEN (IF IsObj(here) THEN AnObject ELSE here)
    ELSE IF IsObj(here) THEN At(here.props, Tail(path)) ELSE None

Paths == UNION {[1 .. k -> Names] : k \in 1 .. 3}

LastWritten(patches, path) ==
    LET writers == {i \in DOMAIN patches : Writes(patches[i], path) # Untouched}
        last == CHOOSE i \in writers : \A j \in writers : j <= i
    IN  IF writers = {} \/ Writes(patches[last], path) = Unset THEN None
        ELSE Writes(patches[last], path)

TraitsMerged ==
    Asked("merging") =>
        LET patches == [i \in DOMAIN Chain |-> LevelPatch(Chain[i])]
        IN  \A path \in Paths : At(MergedTraits(Chain), path) = LastWritten(patches, path)

-----------------------------------------------------------------------------
Judged(complete) == TraitsHold("2020-12", "t1", Chain, complete)

(* What a chain of trait schemas makes of merged values: a trait nobody    *)
(* sets has the last default given for it, an object that somebody sets    *)
(* has the defaults its last declaration gives for its members.            *)
Completed(schemas, merged) ==
    LET declaring(n) == {i \in DOMAIN schemas : n \in Declared(schemas[i])}
        filling(n) == {i \in declaring(n) : Has(schemas[i].properties[n], "default")}
        last(n) == schemas[Max(declaring(n))].properties[n]
        completed(f, s) == [m \in Names |-> IF f[m] = None THEN Default(s, m) ELSE f[m]]
    IN  [n \in Names |->
            IF merged[n] = None
            THEN IF filling(n) = {} THEN None ELSE schemas[Max(filling(n))].properties[n].default
            ELSE IF IsObj(merged[n]) /\ declaring(n) # {}
            THEN Obj(completed(merged[n].props, last(n))) ELSE merged[n]]

(* Trait values are decided level by level: each schema of the chain       *)
(* accepts, by itself, what the chain says in the end, with the defaults   *)
(* no level overrode; nothing is said where nothing may be                 *)
(* (validate_trait_values).  And what an abstract type leaves to its       *)
(* descendants they can supply: some values make the type complete, and    *)
(* each trait that a level declares can be given a value                   *)
(* (validate_trait_schema_compatibility).                                  *)
TraitsDecided ==
    Asked("traits") =>
        LET schemas == TraitSchemas(Chain)
            merged == MergedTraits(Chain)
            silent == schemas = <<>> \/ Bool(FALSE) \in Range(schemas)
            accepted == {v \in {Obj(Pair(x, y)) :
                                  x \in {None, Num(2), Num(3), Str("a"), Obj(Nothing), Obj(Pair(Num(2), None))},
                                  y \in {None, Num(2), Str("a")}} :
                            Valid(Doc(EffectiveSchema(schemas)), v)}
        IN  /\ ValidateTraitValues(Doc(Blank), schemas, merged, TRUE) <=>
                  IF silent THEN merged = Nothing
                  ELSE \A i \in DOMAIN schemas :
                           Valid(Doc(schemas[i]), Obj(Completed(schemas, merged)))
            /\ Judged(FALSE) /\ Bool(FALSE) \notin Range(schemas) =>
                  \A i \in DOMAIN schemas : \A n \in Declared(schemas[i]) :
                      \E v \in accepted : v.props[n] # None
=============================================================================
