----------------------------- MODULE MCKeywords ------------------------------
(***************************************************************************)
(* Pairs of schema documents as a registry, the first of a pair the type   *)
(* t1, the second t2 below it; and schemas whose references stand in       *)
(* combinators and under recursion, each with the payloads of its family.  *)
(***************************************************************************)
EXTENDS MCEvolution, GtsKeywords, GtsReferences

MCChainOf == [t \in {"t1", "t2"} |-> IF t = "t1" THEN <<"t1">> ELSE <<"t1", "t2">>]

NodeWith(f) == f @@ Node
Saying(schema) == NodeWith([schema |-> schema])
References == {LocalRef(<<>>), LocalRef(<<"x-defs/d">>), LocalRef(<<"x-defs/d", "properties/a">>),
               TypeRef("t1", <<>>), TypeRef("t2", <<>>), TypeRef("t1", <<"x-defs/d">>)}

(* Something to point at, in a place that is no schema by itself.          *)
Inside ==
    {Saying(s) : s \in {Absent, "2020-12"}}
    \cup {NodeWith([kids |-> "properties/a" :> n]) :
            n \in {Saying("draft-07"), NodeWith([words |-> {"x-gts-unknown"}]),
                   NodeWith([ref |-> TypeRef("t1", <<>>)])}}

Pointed == {NodeWith([ref |-> r]) : r \in References}
             \cup {NodeWith([ref |-> LocalRef(<<>>), id |-> "inner", schema |-> "draft-07"])}

Embedded(s) == NodeWith([id |-> "inner", schema |-> s,
                         kids |-> "properties/a" :> NodeWith([ref |-> LocalRef(<<>>)])])

Leaves ==
    {Saying(s) : s \in {Absent, "draft-07", "2020-12"}}
    \cup {Embedded(s) : s \in {Absent, "draft-07"}}
    \cup {NodeWith([words |-> {w}]) : w \in {"x-gts-unknown", "x-gts-traits"}}
    \cup {NodeWith([final |-> "true"])}

SchemaDocument(dialect, kids) == NodeWith([schema |-> dialect, kids |-> kids])

Bases ==
    {SchemaDocument(s, "x-defs/d" :> n) : s \in {"draft-07", "2020-12"}, n \in Inside}
    \cup {NodeWith([schema |-> "2020-12", final |-> f, abstract |-> a]) :
            f \in {Absent, "true", "other"}, a \in {Absent, "true"}}

Literal == NodeWith([words |-> {"x-gts-unknown"}, final |-> "true", schema |-> "draft-07",
                     ref |-> TypeRef("t2", <<>>)])

Deriving ==
    {SchemaDocument(s, slot :> n @@ "x-defs/d" :> d) :
        s \in {"draft-07", "2020-12"}, slot \in {"properties/a", TraitSlot}, n \in Pointed,
        d \in {Node, NodeWith([kids |-> "properties/a" :> Saying("draft-07")])}}
    \cup {SchemaDocument("2020-12", slot :> n @@ "const" :> Literal) :
            slot \in {"properties/a", "properties/default", "prefixItems/0", TraitSlot},
            n \in Leaves}
    \cup {SchemaDocument("draft-07", "prefixItems/0" :> n) : n \in Leaves}

Keyworded == [asks |-> {"keywords"}, values |-> {}, docs |-> Bases \cup Deriving]

Registered == "t1" :> old @@ "t2" :> new

-----------------------------------------------------------------------------
(* What a validator reads of a document: a place, and from it the          *)
(* subschemas and whatever a reference names.  A local reference is        *)
(* resolved from the innermost resource around it, and the dialect of a    *)
(* place is the nearest one declared above it.                             *)
On(at, k) == NodeAt(Registered[at.doc], SubSeq(at.path, 1, k))
DialectOf(at) ==
    On(at, Max0({k \in 0 .. Len(at.path) : k = 0 \/ On(at, k).schema # Absent})).schema
Around(at) ==
    Max0({k \in 0 .. Len(at.path) :
            k = 0 \/ StartsResource(DialectOf([at EXCEPT !.path = SubSeq(@, 1, k)]), On(at, k))})

Named(at, ref) ==
    IF ref.doc # Absent THEN [doc |-> ref.doc, path |-> ref.path]
    ELSE [doc |-> at.doc, path |-> SubSeq(at.path, 1, Around(at)) \o ref.path]

ReadNext(at) ==
    LET n == On(at, Len(at.path))
        modern == DialectOf(at) = "2020-12"
        slots == {TraitSlot : k \in {Len(at.path)} \cap {0}}
                   \cup (IF ~modern /\ n.ref # Absent THEN {}
                         ELSE {"properties/a", "properties/default"}
                                \cup (IF modern THEN {"prefixItems/0"} ELSE {}))
        places == {[at EXCEPT !.path = Append(@, slot)] : slot \in slots}
                    \cup {Named(at, ref) : ref \in {n.ref} \ {Absent}}
    IN  {place \in places : On(place, Len(place.path)) # Absent}

(* Every part of a hierarchy that a validator comes to read, by whatever   *)
(* references, is read under the dialect of the leaf and holds no GTS      *)
(* keyword that is not one (schema_dialect.rs: "no part of a type is read  *)
(* under a vocabulary other than the one its hierarchy selects").          *)
ReadAsDeclared ==
    Asked("keywords") /\ ReadableType(Registered, "t2") =>
        \A at \in Following(ReadNext, {[doc |-> t, path |-> <<>>] : t \in {"t1", "t2"}}) :
            DialectOf(at) = new.schema /\ ~Unknown(On(at, Len(at.path)))

RECURSIVE WithoutData(_)
WithoutData(n) == [n EXCEPT !.kids = [s \in DOMAIN n.kids \ {"const"} |-> WithoutData(n.kids[s])]]



-----------------------------------------------------------------------------
(* Reference keywords.                                                     *)

TypeRef0(o) == With([typeRef |-> o])
Again == With([ref |-> "#"])

Refusing ==
    {TypeRef0("t2"), With([instanceRef |-> "t1", minLength |-> 7]),
     With([not |-> TypeRef0("t2")]), Integers, With([patternRef |-> SelfId])}

Either == {With([anyOf |-> <<x, y>>]) : x, y \in Refusing}

Referred0 == Refusing \cup Either
               \cup {With([allOf |-> <<x, y>>]) : x \in Refusing, y \in {TypeRef0("t2"), StringsOnly}}
               \cup {With([anyOf |-> <<x, With([allOf |-> <<y, StringsOnly>>])>>]) : x, y \in Refusing}

Scalars0 == {Num(2)} \cup {Str(s) : s \in {"a", "t1", "t2", "t3", "i1", "i2"}}

Diagnosed ==
    Family({"diagnosis"},
        Scalars0 \cup {Obj(Props(x, y)) : x \in Scalars0, y \in {None, Num(2), Str("t1")}},
        Referred0
        \cup {With([properties |-> Props(x, y), propertyNames |-> pn]) :
                x \in Referred0, y \in {None, Integers}, pn \in {None, TypeRef0("t1")}})

(* Operands that may denote nothing, also where no value gets to.          *)
Operands ==
    Family({"operands"}, {},
        {With([typeRef |-> x, properties |-> Props(With([not |-> With([instanceRef |-> y, patternRef |-> z])]), None)]) :
            x, y, z \in {None, SelfId, "a", "i1", "t3"}})

(* Schemas that enter themselves again, with values three levels deep.     *)
Trees ==
    {Obj(Props(x, y)) : x, y \in {None, Num(2), Obj(Props(Num(2), None)),
                                  Obj(Props(Obj(Props(Num(2), Num(2))), None))}}
    \cup {Arr(<<Arr(<<Num(2)>>), Num(2)>>), Arr(<<Num(2), Arr(<<>>)>>)}

Tree(properties) == With([type |-> {"object"}, properties |-> properties])

Reentering ==
    Family({"diagnosis"}, Trees,
        {With([type |-> {"object"}, properties |-> Props(x, y), patternProperties |-> pp,
               additionalProperties |-> ap]) :
            x, y \in {None, Again, Integers}, pp, ap \in {None, Again}}
        \cup {With([type |-> {"array"}, items |-> it, prefixItems |-> p]) : it, p \in {None, Again, Integers}}
        \cup {Tree(Props(With([anyOf |-> <<Again, x>>]), None)) : x \in {Integers, Again}}
        \cup {Tree(Props(With([not |-> Again]), None)), Tree(Props(Tree(Props(Again, None)), None)),
              Tree(Props(With([ref |-> "#", minLength |-> 3]), Integers))})

-----------------------------------------------------------------------------
(* The schema with no reference keyword that a value has to satisfy.       *)
RECURSIVE Unreferring(_)
Unreferring(s) ==
    LET inside(x) == IF x = None THEN None ELSE Unreferring(x)
        all(seq) == IF seq = None THEN None ELSE [k \in DOMAIN seq |-> Unreferring(seq[k])]
    IN  [s EXCEPT !.typeRef = None, !.instanceRef = None, !.patternRef = None,
                  !.properties = IF @ = None THEN None ELSE [n \in Names |-> inside(@[n])],
                  !.patternProperties = inside(@), !.additionalProperties = inside(@),
                  !.items = inside(@), !.prefixItems = inside(@), !.allOf = all(@), !.anyOf = all(@)]

(* An operand that denotes nothing the keyword could accept.               *)
Denotes(k, operand) ==
    LET selected == Selects[Operand(old, operand)] IN
    /\ selected # None
    /\ k = "typeRef" => \E id \in selected : KindOf[id] = "type"

Denoting(s) == \A k \in ReferenceKeywords : Has(s, k) => Denotes(k, s[k])

Steps(v) == IF IsObj(v) THEN NamesIn(v) ELSE IF IsArr(v) THEN DOMAIN v.items ELSE {}
Part(v, step) == IF IsObj(v) THEN v.props[step] ELSE v.items[step]

RECURSIVE Locations(_)
Locations(v) == {<<>>} \cup UNION {{<<step>> \o at : at \in Locations(Part(v, step))} : step \in Steps(v)}

(* The schemas that judge one part of a value, each under its keyword.     *)
Judging(s, v, step) ==
    LET by(k, has, sub) == IF has THEN {[by |-> k, schema |-> sub]} ELSE {} IN
    IF IsObj(v)
    THEN by("properties", step \in Declared(s), s.properties[step])
           \cup by("patternProperties", step \in Patterned(s), s.patternProperties)
           \cup by("additionalProperties", step \notin Declared(s) \cup Patterned(s)
                        /\ Has(s, "additionalProperties"), s.additionalProperties)
    ELSE LET first == step = 1 /\ Has(s, "prefixItems")
         IN  by("prefixItems", first, s.prefixItems) \cup by("items", ~first /\ Has(s, "items"), s.items)

Total(numbers(_), S) == FoldSet(LAMBDA x, n : n + numbers(x), 0, S)

(* How often the schema is entered again for the part of v at a location.  *)
RECURSIVE Entries(_, _, _, _)
Entries(doc, s, v, at) ==
    LET branches == {[by |-> k, i |-> i] : k \in BranchKeywords, i \in 1 .. 2}
        branch(b) == IF Has(s, b.by) /\ b.i \in DOMAIN s[b.by] THEN Entries(doc, s[b.by][b.i], v, at) ELSE 0
        below(j) == Entries(doc, j.schema, Part(v, Head(at)), Tail(at))
    IN  IF Has(s, "bool") THEN 0
        ELSE (IF Has(s, "ref") THEN (IF at = <<>> THEN 1 ELSE 0) + Entries(doc, doc.root, v, at) ELSE 0)
             + Total(branch, branches)
             + (IF at = <<>> THEN 0 ELSE Total(below, Judging(s, v, Head(at))))

(* A payload is rejected exactly if the schema rejects it, however the     *)
(* rejection is explained; it is rejected for its references only if       *)
(* without them the schema accepts it (PayloadValidationError: "reported   *)
(* only when every other constraint holds"); and a schema with an operand  *)
(* that denotes nothing accepts no payload, also where a not would have    *)
(* turned it around.  Asked for the references alone (validate_instance_   *)
(* refs), the answer is the same unless another constraint is broken.      *)
(* Where a rejection is explained, the schema enters itself at most once   *)
(* for each location of the payload: explaining costs no more than the     *)
(* payload is large (has_linear_recursion).                                *)
RejectionsExplained ==
    /\ AskedOfOne("diagnosis") =>
          \A others \in {[old EXCEPT !.root = Unreferring(old.root)]}, v \in FamilyOf(family).values :
              LET outcome == CheckPayload(old, v)
              IN  /\ outcome = "ok" <=> v \in OldAccepts
                  /\ outcome = "references" => Valid(others, v)
                  /\ outcome # "constraints" => ValidateInstanceRefs(old, v) = outcome
                  /\ HasLinearRecursion(old.root) =>
                        \A at \in Locations(v) : Entries(old, old.root, v, at) <= 1
    /\ AskedOfOne("operands") =>
          (CheckPayload(old, Num(2)) = "ok"
              <=> Denoting(old.root) /\ Denoting(old.root.properties["a"].not))
=============================================================================
