----------------------------- MODULE GtsMacros ------------------------------
(***************************************************************************)
(* The attribute struct_to_gts_schema: which declarations of structs it    *)
(* compiles, the Type Schema it generates for each, and how the structs    *)
(* are written and read as JSON (src/gts-macros/src/lib.rs,                *)
(* src/gts/src/schema.rs).                                                 *)
(*                                                                         *)
(* A chain is a sequence of declarations, each naming the one before it as *)
(* its base, if it names one.  Of a declaration:                           *)
(*   segments, version, id_version   its type id, the version its name     *)
(*           ends in and the one its id ends in                            *)
(*   nested  whether base names a parent struct                            *)
(*   unit, fields, listed   whether it is a unit struct, its fields, and   *)
(*           the fields its list of properties names                       *)
(*   identity   the roles of its fields that identify: an id, a type       *)
(*   serde   whether it derives serde itself                               *)
(*   slot    the name of its generic field and whether it is optional      *)
(*   renamed the names serde writes that are not the fields' identifiers   *)
(*   emitted what schemars generates for it: properties, required,         *)
(*           definitions and the additionalProperties it declares          *)
(*   abstract, final, declares, sets   modifiers, trait schema and traits  *)
(* Fields go by the names serde writes.  A $ref names a definition, and the *)
(* identifier of a renamed field is not the name of another.               *)
(***************************************************************************)
EXTENDS GtsTraits

CONSTANT AnyEntity    \* the operand gts.*, which selects every identifier

-----------------------------------------------------------------------------
(* What compiles.                                                          *)

VersionMatches(d) == d.version # None /\ d.version = d.id_version

SegmentsFit(d) == IF d.nested THEN Len(d.segments) >= 2 ELSE Len(d.segments) = 1

(* A base struct with fields has either an id or a type among them.        *)
Identified(d) == ~d.nested /\ ~d.unit => Cardinality(d.identity) = 1

StructFits(d) ==
    /\ ~(d.abstract /\ d.final)
    /\ d.listed \subseteq d.fields
    /\ Identified(d)
    /\ VersionMatches(d)
    /\ d.nested => ~d.serde
    /\ SegmentsFit(d)

OwnTraitState(d) ==
    CASE d.declares = None -> "absent"
      [] d.declares = Bool(FALSE) -> "prohibited"
      [] OTHER -> "open"

(* Slip: a schema of a level makes up for a refusal above it.              *)
JoinOpenFirst(above, own) ==
    CASE "open" \in {above, own} -> "open"
      [] "open" \notin {above, own} /\ "prohibited" \in {above, own} -> "prohibited"
      [] OTHER -> "absent"

Join(above, own) ==
    CASE "prohibited" \in {above, own} -> "prohibited"
      [] "prohibited" \notin {above, own} /\ "open" \in {above, own} -> "open"
      [] OTHER -> "absent"

TraitState(chain, i) ==
    LET step(above, d) == Join(above, OwnTraitState(d))
    IN  FoldLeft(step, "absent", SubSeq(chain, 1, i))

(* Traits need a schema in the chain that admits some, and no schema may   *)
(* be declared below one that admits none.                                 *)
TraitGuards(chain, i) ==
    LET above == TraitState(chain, i - 1) IN
    /\ chain[i].sets # None => TraitState(chain, i) = "open"
    /\ ~(OwnTraitState(chain[i]) = "open" /\ above = "prohibited")

ParentFits(parent, d) ==
    /\ parent.segments = Front(d.segments)
    /\ parent.slot # None
    /\ ~parent.final

Compiles(chain) ==
    \A i \in DOMAIN chain :
        /\ StructFits(chain[i])
        /\ chain[i].nested => ParentFits(chain[i - 1], chain[i])
        /\ TraitGuards(chain, i)

-----------------------------------------------------------------------------
(* The passes over what schemars emits.  The branches of combinators are   *)
(* told from the other subschemas of a schema.                             *)

PlainKeywords == SubschemaKeywords \ {"not"}

PlainSchemas(s) ==
    {s[k] : k \in {p \in PlainKeywords : Has(s, p)}} \cup {s.properties[n] : n \in Declared(s)}

BranchSchemas(s) ==
    Branches(s, "allOf") \cup Branches(s, "anyOf") \cup (IF Has(s, "not") THEN {s.not} ELSE {})

(* Some or all of the properties of an object, changed.                    *)
EachProperty(properties, to) ==
    [n \in Names |-> IF properties[n] = None THEN None ELSE to[properties[n]]]

Rebuilt(s, plain, branch) ==
    [k \in DOMAIN s |->
        IF s[k] = None THEN None
        ELSE CASE k = "properties" -> EachProperty(s[k], plain)
               [] k \in PlainKeywords -> plain[s[k]]
               [] k = "not" -> branch[s[k]]
               [] k \in BranchKeywords -> [i \in DOMAIN s[k] |-> branch[s[k][i]]]
               [] OTHER -> s[k]]

IdSchemas ==
    [n \in {"GtsInstanceId", "GtsTypeId"} |->
        IF n = "GtsTypeId"
        THEN [Blank EXCEPT !.type = {"string"}, !.typeRef = AnyEntity]
        ELSE [Blank EXCEPT !.type = {"string"}, !.instanceRef = AnyEntity]]

RECURSIVE InlineIds(_)
InlineIds(s) ==
    LET inlined(schemas) == [t \in schemas |-> InlineIds(t)] IN
    IF s.ref \in DOMAIN IdSchemas THEN IdSchemas[s.ref]
    ELSE Rebuilt(s, inlined(PlainSchemas(s)), inlined(BranchSchemas(s)))

RECURSIVE RefsIn(_)
RefsIn(s) ==
    ({s.ref} \ {None}) \cup UNION {RefsIn(t) : t \in PlainSchemas(s) \cup BranchSchemas(s)}

RECURSIVE Reached(_, _)
Reached(names, definitions) ==
    LET more == names \cup UNION {RefsIn(definitions[n]) : n \in names \cap DOMAIN definitions}
    IN  IF more = names THEN names ELSE Reached(more, definitions)

(* The definitions that stand for a branch somewhere, be it through others *)
(* that are but a reference.                                               *)
RECURSIVE BranchRefs(_, _)
BranchRefs(s, is_branch) ==
    (IF is_branch THEN {s.ref} \ {None} ELSE {})
        \cup UNION {BranchRefs(t, FALSE) : t \in PlainSchemas(s)}
        \cup UNION {BranchRefs(t, TRUE) : t \in BranchSchemas(s)}

(* Slip: a definition that only names another is not followed.             *)
NotFollowed(names, definitions) == names

RECURSIVE Aliased(_, _)
Aliased(names, definitions) ==
    LET named == {definitions[n].ref : n \in names \cap DOMAIN definitions} \ {None}
    IN  IF named \subseteq names THEN names ELSE Aliased(names \cup named, definitions)

RECURSIVE Close(_, _)
Close(s, is_branch) ==
    LET closed(schemas, branch) == [t \in schemas |-> Close(t, branch)]
        opens == /\ Has(s, "properties") /\ BranchSchemas(s) = {} /\ ~is_branch
                 /\ ~Has(s, "additionalProperties") /\ ~Has(s, "unevaluatedProperties")
    IN  [Rebuilt(s, closed(PlainSchemas(s), FALSE), closed(BranchSchemas(s), TRUE))
            EXCEPT !.additionalProperties = IF opens THEN Bool(FALSE) ELSE @]

(* The generic field is a placeholder whatever the argument; identifiers   *)
(* are inlined, definitions nobody needs dropped, object levels closed.    *)
Placeholder(slot) ==
    [Blank EXCEPT !.type = IF slot.optional THEN {"object", "null"} ELSE {"object"}]

Slotted(d) ==
    [n \in Names |-> IF d.slot # None /\ n = d.slot.name /\ d.emitted.properties[n] # None
                     THEN Placeholder(d.slot) ELSE d.emitted.properties[n]]

Given(properties) == {properties[n] : n \in Names} \ {None}

Prepared(d) ==
    LET properties == EachProperty(Slotted(d), [s \in Given(Slotted(d)) |-> InlineIds(s)])
        inlined == [n \in DOMAIN d.emitted.definitions |-> InlineIds(d.emitted.definitions[n])]
        reached == Reached(UNION {RefsIn(s) : s \in Given(properties)}, inlined)
        definitions == Restrict(inlined, reached \cap DOMAIN inlined)
        branches == Aliased(UNION {BranchRefs(s, FALSE) : s \in Given(properties) \cup Range(definitions)},
                            definitions)
    IN  [properties |-> EachProperty(properties, [s \in Given(properties) |-> Close(s, FALSE)]),
         definitions |-> [n \in DOMAIN definitions \ DOMAIN IdSchemas |->
                              Close(definitions[n], n \in branches)]]

(* A schema with its definitions in place; what dangles accepts nothing.   *)
RECURSIVE Inlined(_, _)
Inlined(s, definitions) ==
    LET inlined(schemas) == [t \in schemas |-> Inlined(t, definitions)] IN
    IF ~Has(s, "ref") THEN Rebuilt(s, inlined(PlainSchemas(s)), inlined(BranchSchemas(s)))
    ELSE IF s.ref \in DOMAIN definitions THEN Inlined(definitions[s.ref], definitions)
    ELSE Bool(FALSE)

-----------------------------------------------------------------------------
(* The document of the i-th type of a chain, with its base in place of the *)
(* reference to it.                                                        *)

OwnLevel(d) ==
    LET declared == d.emitted.additional IN
    Inlined([Blank EXCEPT !.type = {"object"}, !.properties = Prepared(d).properties,
                          !.required = d.emitted.required,
                          !.additionalProperties = IF declared = None THEN Bool(FALSE) ELSE declared],
            Prepared(d).definitions)

(* Slip: the level of a type is put in the slot of its parent, wherever    *)
(* that stands.                                                            *)
ParentSlot(chain, i) == <<chain[i - 1].slot.name>>

(* The slots from the document's root to the level of the i-th type.       *)
OuterGenericPath(chain, i) == [j \in 1 .. i - 1 |-> chain[j].slot.name]

(* A parent's optional slot is required of a type with properties, and may *)
(* be null or left out of one without.                                     *)
RECURSIVE Wrapped(_, _, _, _)
Wrapped(path, level, optional, payload) ==
    LET last == Len(path) = 1
        nullable == last /\ optional /\ ~payload
        inside == CASE nullable -> [level EXCEPT !.type = {"object", "null"}]
                    [] last /\ ~nullable -> level
                    [] ~last -> Wrapped(Tail(path), level, optional, payload)
    IN  [Blank EXCEPT !.type = {"object"},
                      !.properties = [n \in Names |-> IF n = Head(path) THEN inside ELSE None],
                      !.required = IF last /\ optional /\ payload THEN {Head(path)} ELSE None]

RECURSIVE Generated(_, _)
Generated(chain, i) ==
    LET d == chain[i]
        bases == {j \in DOMAIN chain : j < i /\ chain[j].segments = Front(d.segments)}
        base == IF bases = {} THEN Bool(FALSE) ELSE Generated(chain, Max(bases))
        overlay == Wrapped(OuterGenericPath(chain, i), OwnLevel(d), chain[i - 1].slot.optional,
                           d.listed # {})
    IN  IF Len(d.segments) = 1 THEN OwnLevel(d)
        ELSE [Blank EXCEPT !.type = {"object"}, !.allOf = <<base, overlay>>]

GeneratedDocument(chain, i) ==
    Document("draft-07", Last(chain[i].segments), Generated(chain, i))

-----------------------------------------------------------------------------
(* Instances: what each struct of a chain holds of its own, outermost      *)
(* first, and what stands in the slot of the last one (or None).           *)

OwnNames(d) == Declared([Blank EXCEPT !.properties = d.emitted.properties])
                  \ (IF d.slot = None THEN {} ELSE {d.slot.name})

RECURSIVE Serialized(_, _, _, _)
Serialized(chain, held, argument, i) ==
    LET slot == chain[i].slot
        inside == IF i < Len(held) THEN Serialized(chain, held, argument, i + 1) ELSE argument
    IN  Obj([n \in Names |-> IF slot # None /\ n = slot.name THEN inside ELSE held[i][n]])

Failure == [held |-> <<>>, argument |-> None]

(* A base struct reads what serde writes, a nested one its identifiers.    *)
ReadAs(d, v, m) == IF d.nested /\ m \in d.renamed THEN None ELSE v.props[m]

(* A nested struct needs all its fields but an optional slot; a base does  *)
(* without those its schema does not require.  Unknown members are         *)
(* dropped.                                                                *)
RECURSIVE Deserialized(_, _, _, _)
Deserialized(chain, v, i, n) ==
    LET d == chain[i]
        needed == IF d.nested THEN OwnNames(d) ELSE OwnNames(d) \cap d.emitted.required
        own == [m \in Names |-> IF m \in OwnNames(d) THEN ReadAs(d, v, m) ELSE None]
        inside == IF d.slot = None THEN None ELSE ReadAs(d, v, d.slot.name)
        left == inside \in {None, Null}
        below == Deserialized(chain, inside, i + 1, n)
    IN  CASE ~IsObj(v) -> Failure
          [] IsObj(v) /\ \E m \in needed : own[m] = None -> Failure
          [] OTHER ->
               IF d.slot = None \/ (d.slot.optional /\ left)
               THEN [held |-> <<own>>, argument |-> None]
               ELSE IF inside = None \/ (i < n /\ below = Failure) THEN Failure
               ELSE IF i < n THEN [held |-> <<own>> \o below.held, argument |-> below.argument]
               ELSE [held |-> <<own>>, argument |-> inside]
=============================================================================
