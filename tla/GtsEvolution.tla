---------------------------- MODULE GtsEvolution ----------------------------
(***************************************************************************)
(* Whether every value one schema accepts another accepts too, as the      *)
(* compatibility checker decides it (src/gts/src/schema_evolution.rs).     *)
(*                                                                         *)
(* The checker walks two schemas at once and collects findings.  It is     *)
(* called with an old and a new schema and a direction, and each of its    *)
(* rules reads a source (whose values must be accepted) and a target:      *)
(* here a check has just these two.  Only the kinds of the findings are    *)
(* kept, as nothing else decides the verdict.                              *)
(***************************************************************************)
EXTENDS GtsFlatten

CONSTANTS
    Double(_),      \* a number as the nearest double
    Exhibits        \* [Strings -> SUBSET Strings], identifiers of a scope

Inconclusive == {"NotProvable", "DialectChanged"}

FromFindings(findings) ==
    CASE findings = {}                  -> "compatible"
      [] findings # {} /\ findings \subseteq Inconclusive -> "unknown"
      [] OTHER                          -> "incompatible"

(* Two directions as one verdict.                                          *)
Full(backward, forward) ==
    CASE backward = "incompatible" \/ forward = "incompatible" -> "incompatible"
      [] backward = "compatible" /\ forward = "compatible"     -> "compatible"
      [] OTHER                                                 -> "unknown"

Finding(condition, kind) == IF condition THEN {kind} ELSE {}

-----------------------------------------------------------------------------
(* Types and enumerated values.                                            *)

AcceptedValues(s) ==
    CASE Has(s, "const") /\ Has(s, "enum")   -> {s.const} \cap s.enum
      [] Has(s, "const") /\ ~Has(s, "enum")  -> {s.const}
      [] ~Has(s, "const") /\ Has(s, "enum")  -> s.enum
      [] ~Has(s, "const") /\ ~Has(s, "enum") -> None

Types(s) ==
    IF Has(s, "type") \/ AcceptedValues(s) = None THEN s.type
    ELSE {TypeOf(v) : v \in AcceptedValues(s)}

CheckType(s, t) ==
    LET included == \A name \in Types(s) :
                        name \in Types(t) \/ (name = "integer" /\ "number" \in Types(t))
    IN  Finding(Types(t) # None /\ (Types(s) = None \/ ~included), "TypeChanged")

CheckValues(s, t) ==
    LET kind == IF Has(s, "enum") \/ Has(t, "enum") THEN "EnumChanged"
                ELSE "ConstraintChanged"
        included == AcceptedValues(s) # None /\ AcceptedValues(s) \subseteq AcceptedValues(t)
    IN  Finding(AcceptedValues(t) # None /\ ~included, kind)

-----------------------------------------------------------------------------
(* Keywords that are compared one by one.                                  *)

NegationOf(s, k) == IF Has(s, "not") /\ s.not.bool = None THEN s.not[k] ELSE None

NegatesReference(s) == \E k \in ReferenceKeywords : NegationOf(s, k) # None

NegationsCompared(s, t) ==
    \A schema \in {s, t} : Has(schema, "not") => NegatesReference(schema)

CheckExact(s, t) ==
    LET compared == {"prefixItems", "patternProperties", "contains", "propertyNames", "anyOf"}
                        \cup (IF NegationsCompared(s, t) THEN {} ELSE {"not"})
    IN  Finding(\E k \in compared : s[k] # t[k], "NotProvable")

CheckRef(s, t, identical) ==
    Finding(s.ref # t.ref \/ (Has(s, "ref") /\ ~identical), "NotProvable")

Unique(s) == Has(s, "uniqueItems") /\ s.uniqueItems

CheckNarrowing(s, t) ==
    LET changed == {k \in {"pattern", "multipleOf"} : Has(t, k) /\ s[k] # t[k]}
    IN  Finding(\E k \in changed : ~Has(s, k), "NarrowingConstraintChanged")
          \cup Finding(\E k \in changed : Has(s, k), "NotProvable")
          \cup Finding(Unique(t) /\ ~Unique(s), "NarrowingConstraintChanged")

-----------------------------------------------------------------------------
(* Bounds.  Numeric bounds are compared as doubles.                        *)

(* The stricter of an inclusive and an exclusive bound.                    *)
Bounds(s, inclusive, exclusive) ==
    (IF Has(s, inclusive) THEN {[at |-> Double(s[inclusive]), open |-> FALSE]} ELSE {})
        \cup (IF Has(s, exclusive) THEN {[at |-> Double(s[exclusive]), open |-> TRUE]} ELSE {})

Stricter(a, b, lower) ==
    \/ IF lower THEN a.at > b.at ELSE a.at < b.at
    \/ a.at = b.at /\ (a.open \/ ~b.open)

EffectiveBound(s, inclusive, exclusive, lower) ==
    LET all == Bounds(s, inclusive, exclusive)
    IN  IF all = {} THEN None ELSE CHOOSE a \in all : \A b \in all : Stricter(a, b, lower)

NumericIncluded(s, t, inclusive, exclusive, lower) ==
    LET source == EffectiveBound(s, inclusive, exclusive, lower)
        target == EffectiveBound(t, inclusive, exclusive, lower)
    IN  target # None => source # None /\ Stricter(source, target, lower)

SizeIncluded(s, t) ==
    /\ \A k \in {"minLength", "minContains"} :
          Has(t, k) => Has(s, k) /\ s[k] >= t[k]
    /\ \A k \in {"maxLength", "maxContains"} :
          Has(t, k) => Has(s, k) /\ s[k] <= t[k]

(* Slip: only the inclusive bounds are compared.                           *)
CheckBoundsInclusive(s, t) ==
    Finding(\/ Has(t, "minimum") /\ (~Has(s, "minimum") \/ s.minimum < t.minimum)
            \/ Has(t, "maximum") /\ (~Has(s, "maximum") \/ s.maximum > t.maximum)
            \/ ~SizeIncluded(s, t), "BoundChanged")

CheckBounds(s, t) ==
    Finding(\/ ~NumericIncluded(s, t, "minimum", "exclusiveMinimum", TRUE)
            \/ ~NumericIncluded(s, t, "maximum", "exclusiveMaximum", FALSE)
            \/ ~SizeIncluded(s, t), "BoundChanged")

-----------------------------------------------------------------------------
(* Reference keywords, compared by what their operands select.  A break is *)
(* reported as one only where no other constraint could hide it.           *)

EntityKeywords == {"typeRef", "instanceRef"}

AdmitsStrings(s) == Has(s, "type") => "string" \in s.type

AdmitsOnlyStrings(s) == Has(s, "type") /\ s.type = {"string"}

Masks(s) == \E k \in {"pattern", "minLength", "maxLength", "const", "enum", "anyOf"} : Has(s, k)

HasAny(s, ks) == \E k \in ks : Has(s, k)

Broken(masked) == {IF masked THEN "NotProvable" ELSE "NarrowingConstraintChanged"}

(* What a negated reference excludes besides the strings it covers:        *)
(* everything that is no string, nothing, or something not compared.       *)
NegatedRest(s, k) == [s.not EXCEPT ![k] = None]

NegatedDomain(rest) ==
    CASE Present(rest) = {} -> "everything"
      [] Present(rest) = {"type"} /\ rest.type = {"string"} -> "strings"
      [] OTHER -> "uncompared"

CheckPatternRef(s, t) ==
    LET k == "patternRef"
        masked == Masks(s) \/ HasAny(s, EntityKeywords)
    IN  IF ~(AdmitsStrings(s) /\ AdmitsStrings(t) /\ Has(t, k)) \/ s[k] = t[k] THEN {}
        ELSE CASE ~Usable(k, t[k]) \/ (Has(s, k) /\ ~Usable(k, s[k])) -> {"NotProvable"}
               [] Usable(k, t[k]) /\ ~Has(s, k) -> Broken(masked)
               [] Usable(k, t[k]) /\ Has(s, k) /\ Usable(k, s[k]) ->
                     IF Covers(t[k], s[k]) THEN {} ELSE Broken(masked)

(* No identifier is of both kinds.                                         *)
AcceptsNoString(s) ==
    \/ \E k \in EntityKeywords : Has(s, k) /\ Barren(k, s[k])
    \/ \A k \in EntityKeywords : Has(s, k)

ScopesUsable(s) == \A k \in EntityKeywords : Has(s, k) => Usable(k, s[k])

AcceptsNothing(s) ==
    s.bool = None /\ AdmitsOnlyStrings(s) /\ ScopesUsable(s) /\ AcceptsNoString(s)

ScopeAdmits(k, operand, id) == KindOf[id] = KindRequired(k) /\ id \in Selects[operand]

(* Slip: an identifier that one of the references accepts is enough.       *)
ShownByOne(s, k, operand) ==
    \/ ~HasAny(s, EntityKeywords)
    \/ \E j \in EntityKeywords : Has(s, j) /\
            \E id \in Exhibits[s[j]] :
                ScopeAdmits(j, s[j], id) /\ ~ScopeAdmits(k, operand, id)

(* An identifier the source's references accept and k's operand rejects;   *)
(* without a reference, any string that is no identifier.                  *)
Shown(s, k, operand) ==
    IF ~HasAny(s, EntityKeywords) THEN ~Has(s, "patternRef")
    ELSE /\ Has(s, "patternRef") => Usable("patternRef", s.patternRef)
         /\ \E j \in EntityKeywords : Has(s, j) /\
              \E id \in Exhibits[s[j]] :
                /\ \A i \in EntityKeywords : Has(s, i) => ScopeAdmits(i, s[i], id)
                /\ Has(s, "patternRef") => id \in Selects[s.patternRef]
                /\ ~ScopeAdmits(k, operand, id)

CheckEntityRef(s, t, k) ==
    IF ~(AdmitsStrings(s) /\ AdmitsStrings(t) /\ Has(t, k)) \/ s[k] = t[k] THEN {}
    ELSE CASE ~Usable(k, t[k]) \/ ~ScopesUsable(s) -> {"NotProvable"}
           [] Usable(k, t[k]) /\ ScopesUsable(s) ->
                 IF AcceptsNoString(s) \/ (Has(s, k) /\ Includes(k, t[k], s[k])) THEN {}
                 ELSE IF Shown(s, k, t[k]) THEN Broken(Masks(s) \/ Has(s, "not"))
                 ELSE {"NotProvable"}

(* Below a not the directions reverse.                                     *)
CheckNegatedRef(s, t, k) ==
    LET declared == NegationOf(s, k)
        excluded == NegationOf(t, k)
        domain   == NegatedDomain(NegatedRest(t, k))
        nothing  == k # "patternRef" /\ Usable(k, excluded) /\ Barren(k, excluded)
        harmless == (domain = "strings" /\ (nothing \/ ~AdmitsStrings(s)))
                        \/ (domain = "everything" /\ nothing /\ AdmitsOnlyStrings(s))
        added    == IF domain = "uncompared" THEN {"NotProvable"}
                    ELSE IF harmless THEN {}
                    ELSE Broken(Masks(s) \/ Has(s, "not") \/ HasAny(s, ReferenceKeywords))
        witness  == k = "patternRef" \/ \E id \in Exhibits[excluded] :
                        ScopeAdmits(k, excluded, id) /\ ~ScopeAdmits(k, declared, id)
        comparable == /\ Usable(k, declared) /\ Usable(k, excluded)
                      /\ NegatedRest(s, k) = NegatedRest(t, k)
        changed  == IF ~comparable THEN {"NotProvable"}
                    ELSE IF Includes(k, declared, excluded) THEN {}
                    ELSE IF ~witness \/ domain = "uncompared" THEN {"NotProvable"}
                    ELSE IF AdmitsStrings(s) THEN Broken(Masks(s) \/ HasAny(s, ReferenceKeywords))
                    ELSE Finding(domain = "everything", "NotProvable")
    IN  CASE excluded = None                       -> {}
          [] excluded # None /\ declared = None    -> added
          [] excluded # None /\ declared # None    -> IF s.not = t.not THEN {} ELSE changed

CheckReferences(s, t) ==
    CheckPatternRef(s, t)
        \cup UNION {CheckEntityRef(s, t, k) : k \in EntityKeywords}
        \cup UNION {CheckNegatedRef(s, t, k) : k \in ReferenceKeywords}

-----------------------------------------------------------------------------
(* The walk.  lost holds the locations an ancestor could not reduce to one *)
(* level.                                                                  *)

Walk(sourceDialect, targetDialect, identical) ==
    [source |-> sourceDialect, target |-> targetDialect, identical |-> identical, depth |-> 0]

Deeper(walk) == [walk EXCEPT !.depth = @ + 1]

IsObjectSchema(s) ==
    \/ s.type = {"object"}
    \/ HasAny(s, {"properties", "required", "additionalProperties",
                  "unevaluatedProperties", "patternProperties", "propertyNames"})

(* What an object level says of the names it does not declare, if that is  *)
(* more than yes or no.                                                    *)
Counterpart(s) ==
    IF Has(s, "additionalProperties") /\ BooleanValue(s.additionalProperties) = None
    THEN s.additionalProperties ELSE None

Normal(s, k, supported) == IF supported /\ Has(s, k) THEN s[k] ELSE Bool(TRUE)

PartialsEqual(s, t, walk) ==
    /\ \A k \in {"patternProperties", "propertyNames"} : s[k] = t[k]
    /\ Normal(s, "additionalProperties", TRUE) = Normal(t, "additionalProperties", TRUE)
    /\ Normal(s, "unevaluatedProperties", Modern(walk.source))
         = Normal(t, "unevaluatedProperties", Modern(walk.target))

RECURSIVE Check(_, _, _, _)

CheckObject(s, t, walk, lost) ==
    LET sourceModel == ContentModel(s, Modern(walk.source))
        targetModel == ContentModel(t, Modern(walk.target))
        moved(model, permitted) ==
            CASE model = permitted -> {}
              [] model # permitted /\ model = "partial" -> {"NotProvable"}
              [] OTHER -> {"PropertyAddedOrRemoved"}
        property(n) ==
            CASE n \in Declared(s) \cap Declared(t) ->
                   Check(s.properties[n], t.properties[n], Deeper(walk), Below(lost, n))
              [] n \in Declared(s) \ Declared(t) ->
                   IF Counterpart(t) # None
                   THEN Check(s.properties[n], Counterpart(t), Deeper(walk), {})
                   ELSE moved(targetModel, "open")
              [] n \in Declared(t) \ Declared(s) ->
                   IF Counterpart(s) # None
                   THEN Check(Counterpart(s), t.properties[n], Deeper(walk), {})
                   ELSE moved(sourceModel, "closed")
    IN  Finding(~(Required(t) \subseteq Required(s)), "RequiredChanged")
          \cup Finding(~ModelIncluded(sourceModel, targetModel), "ContentModelChanged")
          \cup Finding(sourceModel = "partial" /\ targetModel = "partial"
                         /\ ~PartialsEqual(s, t, walk), "NotProvable")
          \cup UNION {property(n) : n \in Declared(s) \cup Declared(t)}

CheckItems(s, t, walk, lost) ==
    CASE ~Has(t, "items") -> {}
      [] Has(t, "items") /\ ~Has(s, "items") -> {"ConstraintChanged"}
      [] Has(t, "items") /\ Has(s, "items") ->
            Check(s.items, t.items, Deeper(walk), Below(lost, Elements))

(* A changed anyOf on one side only: a union includes what one of its      *)
(* branches includes and is included if each of its branches is.           *)
Conjoined(s, flat, depth) ==
    Losing(flat.lost, Merge([s EXCEPT !.anyOf = None], flat.value, <<>>, depth))

UnionIncluded(s, t, walk, lost) ==
    LET below == walk.depth + 1
        conjoined(x) == {Conjoined(x, Flatten(b, below), below) : b \in Branches(x, "anyOf")}
    IN  /\ walk.depth + 1 < MaxDepth
        /\ \/ /\ ~Has(s, "anyOf") /\ Has(t, "anyOf")
              /\ \E b \in conjoined(t) :
                    b.lost = {} /\ Check(s, b.value, Deeper(walk), lost) = {}
           \/ /\ Has(s, "anyOf") /\ ~Has(t, "anyOf") /\ Len(s.anyOf) > 0
              /\ \A b \in conjoined(s) :
                    b.lost = {} /\ Check(b.value, t, Deeper(walk), lost) = {}

(* A node with finitely many values is included if the validator accepts   *)
(* each, whatever the keywords say.                                        *)
EnumerationIncluded(s, t, walk) ==
    /\ AcceptedValues(s) # None
    /\ \A v \in AcceptedValues(s) : Valid(Document(walk.target, None, t), v)

CheckLevel(s, t, walk, lost) ==
    LET findings ==
            CheckType(s, t) \cup CheckValues(s, t) \cup CheckExact(s, t)
              \cup CheckRef(s, t, walk.identical) \cup CheckNarrowing(s, t)
              \cup CheckReferences(s, t) \cup CheckBounds(s, t)
              \cup (IF IsObjectSchema(s) \/ IsObjectSchema(t)
                    THEN CheckObject(s, t, walk, lost) ELSE {})
              \cup CheckItems(s, t, walk, lost)
    IN  {finding \in findings : ~EnumerationIncluded(s, t, walk)}

CheckNode(s, t, walk, lost) ==
    IF \/ <<>> \notin lost /\ AcceptsNothing(s)
       \/ BooleanValue(s) = FALSE
       \/ BooleanValue(t) = TRUE
    THEN {}
    ELSE IF BooleanValue(s) = TRUE \/ BooleanValue(t) = FALSE THEN {"ConstraintChanged"}
    ELSE IF <<>> \in lost THEN {"NotProvable"}
    ELSE IF UnionIncluded(s, t, walk, lost) THEN {}
    ELSE CheckLevel(s, t, walk, lost)

CheckFlattened(s, t, walk, inherited) ==
    CheckNode(s.value, t.value, walk, inherited \cup s.lost \cup t.lost)

Check(source, target, walk, inherited) ==
    IF walk.depth >= MaxDepth THEN {"NotProvable"}
    ELSE CheckFlattened(Flatten(source, walk.depth), Flatten(target, walk.depth), walk, inherited)

-----------------------------------------------------------------------------
(* Whole documents.                                                        *)

(* /$id names the document's own identifier.                               *)
RECURSIVE Substituted(_, _)
Substituted(s, id) ==
    LET operand(k) ==
            CASE k \in ReferenceKeywords -> IF s[k] = SelfId THEN id ELSE s[k]
              [] k \in SubschemaKeywords -> Substituted(s[k], id)
              [] k \in BranchKeywords -> [i \in DOMAIN s[k] |-> Substituted(s[k][i], id)]
              [] k = "properties" ->
                    [n \in Names |-> IF s[k][n] = None THEN None ELSE Substituted(s[k][n], id)]
              [] OTHER -> s[k]
    IN  IF Has(s, "bool") THEN s
        ELSE [k \in DOMAIN s |-> IF Has(s, k) THEN operand(k) ELSE None]

WithSelfOperands(doc) ==
    IF doc.id = None THEN doc.root ELSE Substituted(doc.root, doc.id)

(* A document that declares no dialect is read in the other one's.         *)
Inclusion(subset, superset) ==
    LET s == WithSelfOperands(subset)
        t == WithSelfOperands(superset)
        both == subset.dialect # None /\ superset.dialect # None
        walk == Walk(IF subset.dialect = None THEN superset.dialect ELSE subset.dialect,
                     IF superset.dialect = None THEN subset.dialect ELSE superset.dialect,
                     s = t)
    IN  Finding(both /\ subset.dialect # superset.dialect, "DialectChanged")
          \cup Check(s, t, walk, {})

(* The verdicts on two revisions of a type.                                *)
Both(backward, forward) ==
    [backward |-> backward, forward |-> forward, full |-> Full(backward, forward)]

Compare(old, new) ==
    Both(FromFindings(Inclusion(old, new)), FromFindings(Inclusion(new, old)))
=============================================================================
