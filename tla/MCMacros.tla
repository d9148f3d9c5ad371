------------------------------ MODULE MCMacros ------------------------------
(***************************************************************************)
(* Chains of up to three structs under struct_to_gts_schema: the instances *)
(* they write, the documents generated for them, and what the registry     *)
(* makes of both.  Every struct has its own member in "a" and its generic  *)
(* field, if it has one, in "b".                                           *)
(***************************************************************************)
EXTENDS MCEvolution, GtsMacros

(* What schemars emits for the type of a member, the values serde writes   *)
(* of it, and values with a member too many, which it never writes.        *)
FieldType(schema, definitions, holds, strays) ==
    [schema |-> schema, definitions |-> definitions, holds |-> holds, strays |-> strays]

DataObject(x, y) == With([type |-> {"object"}, properties |-> Props(x, y)])
RefTo(name) == With([ref |-> name])

OneMember == Obj(Props(Num(2), None))
OneMore == Obj(Props(Num(2), Num(2)))

IdMember == FieldType(RefTo("GtsInstanceId"), "GtsInstanceId" :> StringsOnly @@ "P" :> Holding(RefTo("Q")),
                   {Str("i1")}, {Str("a")})

PlainField == FieldType(Integers, <<>>, {Num(2)}, {Str("a")})

(* A struct; one that says itself what it admits; a list of structs.       *)
Nesting == FieldType(RefTo("D"), "D" :> DataObject(Integers, None), {OneMember}, {OneMore})
Stated == FieldType(RefTo("D"), "D" :> [DataObject(Integers, None) EXCEPT !.additionalProperties = Bool(TRUE)],
                 {OneMember, OneMore}, {})
Listing == FieldType(With([type |-> {"array"}, items |-> RefTo("D")]),
                  "D" :> DataObject(RefTo("E"), None) @@ "E" :> DataObject(Integers, None),
                  {Arr(<<Obj(Props(OneMember, None))>>)}, {Arr(<<Obj(Props(OneMore, None))>>), Arr(<<OneMore>>)})

(* Members flattened into an object: beside its own, from one of several   *)
(* structs, or from structs named through another.                         *)
Flattened ==
    FieldType(RefTo("D"),
           "D" :> [DataObject(Integers, None) EXCEPT !.anyOf =
                      <<DataObject(None, Integers), DataObject(None, StringsOnly)>>],
           {OneMember, OneMore}, {})
Merging ==
    FieldType(With([allOf |-> <<RefTo("D"), RefTo("E")>>]),
           "D" :> DataObject(Integers, None) @@ "E" :> RefTo("F") @@ "F" :> DataObject(None, Integers),
           {OneMore}, {})

FieldTypes == {PlainField, Nesting, Stated, Listing, Flattened, Merging}

-----------------------------------------------------------------------------
Slot(optional) == [name |-> "b", optional |-> optional]
Slots == {None, Slot(FALSE), Slot(TRUE)}

Struct(segments, member, slot, additional) ==
    LET own == IF member = None THEN {} ELSE {"a"} IN
    [segments |-> segments, version |-> 1, id_version |-> 1, nested |-> Len(segments) > 1,
     unit |-> member = None /\ slot = None,
     fields |-> own \cup (IF slot = None THEN {} ELSE {"b"}), listed |-> own,
     identity |-> {"id"}, serde |-> FALSE, slot |-> slot,
     emitted |->
        [properties |-> Props(IF member = None THEN None ELSE member.schema,
                              IF slot = None THEN None ELSE RefTo("P")),
         required |-> own \cup (IF slot # None /\ ~slot.optional THEN {"b"} ELSE {}),
         definitions |-> IF member = None THEN <<>> ELSE member.definitions,
         additional |-> additional],
     abstract |-> FALSE, final |-> FALSE, declares |-> None, sets |-> None, member |-> member,
     renamed |-> {}]

BaseStructs == {Struct(<<"t1">>, IdMember, slot, additional) : slot \in Slots, additional \in {None, Bool(TRUE)}}

MiddleStructs ==
    {Struct(<<"t1", "t2">>, member, slot, additional) :
        member \in FieldTypes \cup {None}, slot \in Slots, additional \in {None, Bool(TRUE)}}

LeafStructs == {Struct(<<"t1", "t2", "t3">>, member, None, None) : member \in {None, PlainField, Merging}}

(* Declarations the attribute refuses, and some it might.                  *)
Shapes == {None, Bool(TRUE), Bool(FALSE), With([type |-> {"object"}, properties |-> Props(Integers, None)])}
TraitSets == {None, Props(Num(2), None)}

Traiting(d, declares, sets) == [d EXCEPT !.declares = declares, !.sets = sets]

(* Structs with fields written under other names than their own.           *)
Renaming(structs) == UNION {{[d EXCEPT !.renamed = names] : names \in SUBSET d.fields} : d \in structs}

SomeBase == Struct(<<"t1">>, IdMember, Slot(FALSE), None)
SomeMiddle == Struct(<<"t1", "t2">>, PlainField, Slot(FALSE), None)
SomeLeaf == Struct(<<"t1", "t2", "t3">>, PlainField, None, None)

Modified(d) ==
    {[d EXCEPT !.abstract = x, !.final = y] : x, y \in BOOLEAN}
      \cup {[d EXCEPT !.segments = Append(@, "t3")], [d EXCEPT !.version = None], [d EXCEPT !.id_version = 2],
            [d EXCEPT !.nested = ~@], [d EXCEPT !.identity = {}], [d EXCEPT !.serde = TRUE],
            [d EXCEPT !.listed = {"a", "b"}], [d EXCEPT !.listed = {}]}

Structs ==
    [asks |-> {"generated"}, values |-> {},
     docs |-> {<<x, y>> : x \in BaseStructs, y \in MiddleStructs}
        \cup {<<x, y, z>> : x \in BaseStructs, y \in {m \in MiddleStructs : m.slot # None /\ m.member \in {None, PlainField}},
                            z \in LeafStructs}
        \cup {<<x, y, z>> : x \in Renaming({SomeBase}), z \in Renaming({SomeLeaf}),
                            y \in Renaming({Struct(<<"t1", "t2">>, PlainField, slot, None) : slot \in Slots})}
        \cup {<<x, y>> : x \in Modified(SomeBase), y \in Modified(SomeMiddle)}
        \cup {<<Traiting(SomeBase, s1, f1), Traiting(SomeMiddle, s2, f2), Traiting(SomeLeaf, s3, f3)>> :
                s1, s2, s3 \in Shapes, f1, f2, f3 \in TraitSets}]

-----------------------------------------------------------------------------
Documents(chain) == [i \in DOMAIN chain |-> GeneratedDocument(chain, i)]

(* The instances of the first m types of a chain.                          *)
Holdings(chain, m) ==
    LET own(d) == IF d.member = None THEN {Nothing} ELSE {Props(x, None) : x \in d.member.holds}
    IN  {held \in [1 .. m -> UNION {own(chain[i]) : i \in 1 .. m}] :
            \A i \in 1 .. m : held[i] \in own(chain[i])}

Arguments(slot) ==
    IF slot = None THEN {None}
    ELSE {Obj(Props(Num(2), None))} \cup (IF slot.optional THEN {None} ELSE {})

(* A value with a member more, or another one, at the level of a struct.   *)
RECURSIVE Placed(_, _, _, _)
Placed(v, level, n, x) ==
    IF level = 1 THEN Obj([v.props EXCEPT ![n] = x])
    ELSE Obj([v.props EXCEPT !["b"] = Placed(v.props["b"], level - 1, n, x)])

Strays(chain, v, m) ==
    UNION {
        (IF chain[j].member = None THEN {} ELSE {Placed(v, j, "a", x) : x \in chain[j].member.strays})
          \cup (IF chain[j].emitted.additional # None THEN {}
                ELSE {Placed(v, j, n, Num(2)) : n \in Names \ chain[j].fields})
      : j \in 1 .. m}

(* The names under which a struct writes something. *)
Written(chain, held, argument, i) ==
    NamesIn(Obj(held[i]))
        \cup IF chain[i].slot # None /\ (i < Len(held) \/ argument # None) THEN {chain[i].slot.name} ELSE {}

(* What is read back of what was written: all of it, unless a nested struct *)
(* renames a field that it writes.  Such a field is missing, and reading   *)
(* fails, but for an optional slot, which is read as empty.                *)
ReadBack(chain, held, argument) ==
    LET missed(i) == IF chain[i].nested THEN chain[i].renamed \cap Written(chain, held, argument, i) ELSE {}
        missing == {i \in DOMAIN held : missed(i) # {}}
        first == Min(missing)
    IN  IF missing = {} THEN [held |-> held, argument |-> argument]
        ELSE IF chain[first].slot # None /\ chain[first].slot.optional
                  /\ missed(first) = {chain[first].slot.name}
        THEN [held |-> SubSeq(held, 1, first), argument |-> None]
        ELSE Failure

(* Whatever the structs of a compiled chain write, as instances of the     *)
(* m-th type, is valid against the documents of that type and of those     *)
(* above it, renamed fields included; with a member more than a struct     *)
(* has, and that it does not admit, it is not valid.  It is read back as   *)
(* it was unless a nested struct renames a field, which it writes under    *)
(* one name and reads under another (ReadBack).  An empty optional slot    *)
(* belongs to the type below too, left out or null, if that type has no    *)
(* properties (struct_to_gts_schema, wrap_in_nesting_path: "exactly where  *)
(* they sit in a composed instance").                                      *)
InstancesFit ==
    Asked("generated") /\ Compiles(old) =>
        \A documents \in {Documents(old)} :
        \A m \in DOMAIN old : \A held \in Holdings(old, m), argument \in Arguments(old[m].slot) :
            LET v == Serialized(old, held, argument, 1)
                left == old[m].slot # None /\ argument = None /\ m < Len(old)
            IN  /\ \A i \in 1 .. m : Valid(documents[i], v)
                /\ \A stray \in Strays(old, v, m) : ~Valid(documents[m], stray)
                /\ \A n \in m .. Len(old) :
                       n = m \/ left =>
                           Deserialized(old, v, 1, n) = ReadBack(old, held, argument)
                /\ left => \A written \in {v, Placed(v, m, "b", Null)} :
                               Valid(documents[m + 1], written) <=> old[m + 1].listed = {}

(* What compiles the registry admits: each generated document derives from *)
(* the one of its base, which is not final, and its traits hold, unless a  *)
(* level forbids traits below one that sets or forbids some.  And traits   *)
(* that the guards refuse the registry refuses too (struct_to_gts_schema:  *)
(* "mirrors the registry's OP#13 precondition").                           *)
CompiledAdmitted ==
    Asked("generated") =>
        \A i \in DOMAIN old :
            LET levels == [j \in 1 .. i |-> Level(old[j].declares, old[j].sets, <<>>)]
                Late(j) == /\ old[j].declares = Bool(FALSE)
                           /\ \E k \in 1 .. j - 1 : old[k].sets # None \/ old[k].declares = Bool(FALSE)
            IN  /\ \A admitted \in {TraitsHold("draft-07", Last(old[i].segments), levels, TRUE)} :
                      /\ Compiles(old) => admitted \/ \E j \in 1 .. i : Late(j)
                      /\ admitted => old[i].sets = None \/ TraitGuards(old, i)
                /\ Compiles(old) /\ i > 1 =>
                      /\ ~old[i - 1].final
                      /\ \A documents \in {Documents(old)} : Derives(documents[i], documents[i - 1])
============================================================================
