---------------------------- MODULE MCEvolution -----------------------------
(***************************************************************************)
(* Every pair of documents of one family, compared in both directions and  *)
(* against the values they accept; taken for a base and what derives from  *)
(* it; and an instance of the one cast to the other.  A family varies the  *)
(* keywords that act on one another, and says what is asked of its pairs.  *)
(***************************************************************************)
EXTENDS GtsDerivation, GtsCast, TLC

CONSTANTS
    FamilyCount,    \* the number of families of one run
    FamilyOf(_)     \* and each of them

VARIABLES family, asks, old, new

vars == <<family, asks, old, new>>

-----------------------------------------------------------------------------
(* Two names; the types t1, t2 below t1 and t3 below t2, which is too long *)
(* to have instances; i1 and i2, instances of t1 and t2.                   *)

MCNames == {"a", "b"}
MCStrings == MCNames \cup {"t1", "t2", "t3", "i1", "i2"}
MCLength == ("a" :> 1) @@ ("b" :> 2) @@ ("t1" :> 3) @@ ("t2" :> 4) @@ ("t3" :> 6)
                @@ ("i1" :> 6) @@ ("i2" :> 7)
MCMatched == "short" :> {"a"} @@ "names" :> MCNames
MCKind == [s \in MCStrings |-> CASE s \in {"t1", "t2", "t3"} -> "type"
                                 [] s \in {"i1", "i2"} -> "instance"
                                 [] OTHER -> "none"]
MCSelects ==
    [s \in MCStrings |->
        CASE s = "t1" -> {"t1", "t2", "t3", "i1", "i2"}
          [] s = "t2" -> {"t2", "t3", "i2"}
          [] s \in {"t3", "i1", "i2"} -> {s}
          [] OTHER -> None]
MCExhibits == [s \in MCStrings |-> IF s \in MCNames THEN {} ELSE MCSelects[s]]

Exact(n) == n

-----------------------------------------------------------------------------
With(f) == [k \in DOMAIN Blank |-> IF k \in DOMAIN f THEN f[k] ELSE None]
Props(x, y) == [n \in Names |-> IF n = "a" THEN x ELSE y]
Typed(name) == With([type |-> {name}])
Holding(s) == With([properties |-> Props(s, None)])
Doc(root) == Document("2020-12", "t1", root)
Family(questions, values, roots) ==
    [asks |-> questions, values |-> values, docs |-> {Doc(s) : s \in roots}]

Integers == Typed("integer")
NumbersOnly == Typed("number")
StringsOnly == Typed("string")

Numbers == {Num(n) : n \in -1..5}
Texts == {Str(s) : s \in Strings}
Members == {None, Num(2), Num(3), Str("a")}
Objects == {Obj(Props(x, y)) : x, y \in Members}
Parts == {Num(2), Num(3), Str("a")}
Arrays == {Arr(<<>>)} \cup {Arr(<<x>>) : x \in Parts} \cup {Arr(<<x, y>>) : x, y \in Parts}

Numeric ==
    Family({"inclusion"}, Numbers \cup {Str("a")},
        {With([type |-> ty, minimum |-> lo, exclusiveMinimum |-> xlo, maximum |-> hi,
               exclusiveMaximum |-> xhi]) :
            ty \in {None, {"integer"}, {"number"}}, lo \in {None, 0, 2}, xlo \in {None, 1, 2},
            hi \in {None, 3}, xhi \in {None, 3}}
        \cup {With([type |-> ty, const |-> c, enum |-> e, multipleOf |-> m]) :
            ty \in {None, {"integer"}}, c \in {None, Num(2)},
            e \in {None, {Num(2), Num(4)}, {Num(2), Str("a")}}, m \in {None, 2, 4}})

(* Nothing but references, so that no other constraint hides a break.      *)
Pointing ==
    Family({"inclusion", "refutation"}, Texts,
        {With([type |-> {"string"}, typeRef |-> x, instanceRef |-> y, patternRef |-> z]) :
            x \in {None, "t1", "t2"}, y \in {None, "t1", "t3", "i1"}, z \in {None, "t1", "i2"}}
        \cup {With([type |-> {"string"}, not |-> With([typeRef |-> x, instanceRef |-> y,
                                                       patternRef |-> z])]) :
            x \in {None, "t1", "t2"}, y \in {None, "t1", "t3"}, z \in {"t1", "t2"}})

Referring ==
    Family({"inclusion"}, Texts \cup {Num(2)},
        {With([type |-> ty, typeRef |-> x, instanceRef |-> y, minLength |-> n]) :
            ty \in {None, {"string"}}, x \in {None, "t1", "t2"},
            y \in {None, "t1", "t3", "i1"}, n \in {None, 7}}
        \cup {With([type |-> ty, patternRef |-> x, typeRef |-> y, pattern |-> p]) :
            ty \in {None, {"string"}}, x \in {None, "t1", "t2", "i1"}, y \in {None, "t2"},
            p \in {None, "names"}}
        \cup {With([type |-> ty, not |-> With([type |-> inner, typeRef |-> x, instanceRef |-> y])]) :
            ty \in {None, {"string"}, {"integer"}}, inner \in {None, {"string"}},
            x \in {None, "t1", "t2"}, y \in {None, "t3"}})

Closing == {None, Bool(FALSE), Bool(TRUE), Integers}

ObjectLevels ==
    Family({"inclusion", "levels"}, Objects,
        {With([type |-> {"object"}, properties |-> p, required |-> r,
               additionalProperties |-> ap, unevaluatedProperties |-> up]) :
            p \in {None, Props(Integers, None), Props(NumbersOnly, StringsOnly)},
            r \in {None, {"a"}}, ap \in Closing, up \in {None, Bool(FALSE)}}
        \cup {With([properties |-> p, patternProperties |-> pp, propertyNames |-> pn,
                    additionalProperties |-> ap]) :
            p \in {None, Props(Integers, None)},
            pp \in Closing, pn \in {None, Bool(FALSE), With([maxLength |-> 1])},
            ap \in Closing})

ArrayLevels ==
    Family({"inclusion"}, Arrays \cup {Num(2)},
        {With([type |-> {"array"}, items |-> it, contains |-> c, minContains |-> lo,
               maxContains |-> hi, uniqueItems |-> u]) :
            it \in {None, Bool(TRUE), Integers, NumbersOnly},
            c \in {None, Integers}, lo \in {None, 1, 2}, hi \in {None, 1}, u \in {None, TRUE}}
        \cup {With([items |-> it, prefixItems |-> p]) :
            it \in {None, Integers}, p \in {None, NumbersOnly}})

Branching == {With([type |-> {"object"}]),
              With([properties |-> Props(Integers, None)]),
              With([properties |-> Props(NumbersOnly, StringsOnly)]),
              With([required |-> {"a"}, additionalProperties |-> Bool(FALSE)]),
              With([properties |-> Props(None, StringsOnly),
                    additionalProperties |-> Bool(FALSE)]),
              With([additionalProperties |-> Integers])}

Composed ==
    Family({"inclusion", "flattening"}, Objects \cup {Num(2)},
        {With([allOf |-> <<x>>]) : x \in Branching}
        \cup {With([allOf |-> <<x, y>>]) : x, y \in Branching}
        \cup {With([anyOf |-> <<x, y>>]) : x, y \in Branching}
        \cup {With([allOf |-> <<x>>, properties |-> Props(Integers, None),
                    unevaluatedProperties |-> up]) :
                x \in Branching, up \in {None, Bool(FALSE)}}
        \cup Branching)

(* Documents that name themselves, refer to themselves, or differ in       *)
(* identifier or dialect.                                                  *)
SelfNaming ==
    [asks |-> {"inclusion"},
     values |-> {Obj(Props(x, y)) : x \in {None, Num(2)} \cup Texts \cup {Obj(Props(Num(2), None))},
                                   y \in {None, Num(2)}},
     docs |->
        {Document("2020-12", id, Holding(s)) :
            id \in {"t1", "t2"},
            s \in {With([typeRef |-> SelfId]), With([typeRef |-> "t1"]),
                   With([patternRef |-> SelfId]), With([not |-> With([patternRef |-> SelfId])]),
                   With([ref |-> "#"]), Integers}}
        \cup {Document(dialect, "t1", With([properties |-> p, unevaluatedProperties |-> up])) :
            dialect \in {"draft-07", "2020-12"},
            p \in {None, Props(Integers, None), Props(With([ref |-> "#", type |-> {"integer"}]), None)},
            up \in {None, Bool(FALSE)}}]

(* As deep as the walk goes, and deeper.                                   *)
Deep ==
    Family({"inclusion"},
        {Obj(Props(Obj(Props(Obj(Props(x, None)), None)), None)) : x \in Parts}
            \cup {Obj(Props(Obj(Props(x, None)), None)) : x \in Parts},
        {Holding(Holding(s)) : s \in {Integers, NumbersOnly, Holding(Integers), Holding(NumbersOnly),
                                   With([allOf |-> <<Holding(Integers), Holding(NumbersOnly)>>])}}
        \cup {With([allOf |-> <<Holding(Holding(s)), Holding(Holding(Holding(Integers)))>>]) :
                s \in {Holding(NumbersOnly), StringsOnly}})

Overlays ==
    {With([properties |-> p, required |-> r, additionalProperties |-> ap]) :
        p \in {None, Props(Integers, None), Props(NumbersOnly, StringsOnly), Props(Bool(FALSE), None),
               Props(None, With([maxLength |-> 1, type |-> {"string"}]))},
        r \in {None, {"a"}}, ap \in {None, Bool(FALSE), Bool(TRUE)}}

Extending ==
    Family({"derivation"}, Objects,
        Overlays \cup {With([allOf |-> <<x>>, properties |-> Props(Integers, None),
                              additionalProperties |-> ap]) :
                            ap \in {None, Bool(TRUE)},
                            x \in {With([additionalProperties |-> Bool(FALSE)]),
                                   With([additionalProperties |-> Bool(TRUE)]),
                                   With([properties |-> Props(None, StringsOnly),
                                         additionalProperties |-> Bool(FALSE)])}})

Filled == With([type |-> {"integer"}, default |-> Num(4)])
Inner(p, r, ap) ==
    With([type |-> {"object"}, properties |-> p, required |-> r, additionalProperties |-> ap])

CastValues ==
    {Obj(Props(x, y)) : x \in {None, Num(2), Str("i1")} \cup {Obj(Props(u, w)) : u, w \in {None, Num(2)}},
                        y \in {None, Num(2)}}

CastRoots(properties) ==
    {Inner(Props(s, y), r, ap) : s \in properties, y \in {None, Integers},
                                 r \in {None, {"a"}}, ap \in {None, Bool(FALSE)}}

(* Objects inside objects, with defaults at both levels.                   *)
Castable ==
    LET inner == {Inner(Props(Integers, second[1]), second[2], ap) :
                    second \in {<<None, None>>, <<Filled, None>>, <<Filled, {"b"}>>, <<Integers, {"b"}>>},
                    ap \in {None, Bool(FALSE)}}
    IN  Family({"cast"}, CastValues,
            CastRoots(inner \cup {[s EXCEPT !.default = Obj(Props(None, None))] : s \in inner}))

(* Properties that hold the identifier of their own type.                  *)
CastNamed ==
    Family({"cast"}, CastValues,
        CastRoots({With([type |-> {"string"}, const |-> Str(id)]) : id \in {"i1", "i2"}}))

MCFamilies == <<Numeric, Pointing, Referring, ObjectLevels, ArrayLevels, Composed, SelfNaming, Deep,
                Extending, Castable, CastNamed>>

(* A name that is a property of one schema and an additional one of the    *)
(* other, where a pattern claims it too.                                   *)
Scoped ==
    Family({"inclusion"}, Objects,
        {With([properties |-> p, patternProperties |-> pp, additionalProperties |-> ap]) :
            p \in {None, Props(None, Integers)}, pp \in {None, Bool(TRUE)},
            ap \in {None, Integers}})

ScopedFamilyOf(k) == Scoped

-----------------------------------------------------------------------------
Kinds == 1 .. FamilyCount

AcceptedIn(family_) == [doc \in family_.docs |-> {v \in family_.values : Valid(doc, v)}]

Accepted == [k \in Kinds |-> AcceptedIn(FamilyOf(k))]

Init ==
    /\ family \in Kinds
    /\ asks = FamilyOf(family).asks
    /\ old \in FamilyOf(family).docs
    /\ new = None

(* What is asked of documents alone needs no other; of patterns, those     *)
(* that begin with the first name and version are enough to begin with.    *)
Alone ==
    \/ asks \subseteq {"entity", "directory", "paths", "walk", "references", "diagnosis", "operands",
                        "generated", "report", "scan", "blocks", "spelling", "bundle"}
    \/ asks \subseteq {"short", "wide"} /\ ("b" \in ToSet(old[1].names) \/ old[1].major = 1)
    \/ asks \subseteq {"spelled"} /\ ("v1" \in ToSet(old[1].names) \/ old[1].major = 1)

Choose ==
    /\ new = None
    /\ new' \in IF Alone THEN {old} ELSE FamilyOf(family).docs
    /\ UNCHANGED <<family, asks, old>>

Forget == new # None /\ new' = None /\ UNCHANGED <<family, asks, old>>

Spec == Init /\ [][Choose \/ Forget]_vars

(* What is asked of a pair, and of a document before its pair is chosen.   *)
Asked(question) == new # None /\ question \in asks
AskedOfOne(question) == new = None /\ question \in asks

OldAccepts == Accepted[family][old]
NewAccepts == Accepted[family][new]

(* A compatible verdict is a proof: every value the one revision accepts   *)
(* the other accepts too (check_inclusion: Valid(old) within Valid(new)).  *)
ProvenInclusion ==
    Asked("inclusion") /\ FromFindings(Inclusion(old, new)) = "compatible"
      => OldAccepts \subseteq NewAccepts

(* Where only references changed, an incompatible verdict has a            *)
(* counterexample: a string one revision accepts and the other does not    *)
(* (check_entity_ref_compatibility).                                       *)
Refuted ==
    Asked("refutation") /\ FromFindings(Inclusion(old, new)) = "incompatible"
      => ~(OldAccepts \subseteq NewAccepts)

(* Unless flattening reports a location, the one level it returns accepts  *)
(* what the schema with its allOf accepts (flatten_schema).                *)
FlatteningExact ==
    AskedOfOne("flattening") =>
        LET flat == Flatten(old.root, 0)
        IN  flat.lost = {} =>
              OldAccepts = {v \in FamilyOf(family).values : Valid([old EXCEPT !.root = flat.value], v)}

(* A level called closed accepts no undeclared name, and one called open   *)
(* accepts each with any value, whichever keywords say so                  *)
(* (classify_content_model).                                               *)
LevelsHonest ==
    AskedOfOne("levels") =>
        LET model == ContentModel(old.root, Modern(old.dialect))
            undeclared == Names \ Declared(old.root)
            with(v, n, x) == Obj([v.props EXCEPT ![n] = x])
        IN  /\ model = "closed" => \A v \in OldAccepts : NamesIn(v) \cap undeclared = {}
            /\ model = "open" => \A v \in OldAccepts, n \in undeclared, x \in Parts :
                                     with(v, n, x) \in OldAccepts

Derived == Document("2020-12", "t2", [new.root EXCEPT !.allOf = <<old.root>> \o
                                (IF Has(new.root, "allOf") THEN new.root.allOf ELSE <<>>)])

(* What a base lets an instance say, a type that derives from it by        *)
(* embedding it lets one say, if it has instances at all: every property   *)
(* of the base stays usable (validate_closed_descendant_branches and the   *)
(* disabled properties).                                                   *)
BaseUsable ==
    Asked("derivation") /\ Derives(Derived, old) =>
        LET derived == {v \in OldAccepts : Valid(Derived, v)}
            used(values) == UNION {NamesIn(v) : v \in values}
            declared == Declared(Flatten(old.root, 0).value)
        IN  derived # {} => used(OldAccepts) \cap declared \subseteq used(derived)

(* A document admitted as derived accepts nothing its base rejects, if it  *)
(* says what it makes of other names and its base is one level: comparing  *)
(* declarations is as good as comparing documents (validate_derivation).   *)
AdmittedIncluded ==
    Asked("derivation") /\ ~Has(old.root, "allOf")
        /\ Has(Declaration(new.root, 0), "additionalProperties")
        /\ Derives(new, old)
      => NewAccepts \subseteq OldAccepts

(* An instance cast without a reason is valid against the target           *)
(* (cast_instance_to_schema), if the properties both declare agree in type *)
(* and the target requires what it declares; and casting what was cast to  *)
(* the same target changes nothing more.                                   *)
CastLands ==
    Asked("cast") =>
        \A v \in OldAccepts :
            LET done == Cast(v, new.root)
            IN  /\ ~done.missing => Valid(new, done.value)
                /\ Cast(done.value, new.root).value = done.value
=============================================================================
