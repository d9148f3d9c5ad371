----------------------------- MODULE GtsSchemas -----------------------------
(***************************************************************************)
(* JSON values, resolved JSON Schemas and the values a schema accepts.     *)
(*                                                                         *)
(* The checkers of src/gts/src read schemas keyword by keyword; what the   *)
(* keywords mean is decided by the jsonschema crate, which is outside the  *)
(* repository.  This module states that meaning once, for the keywords the *)
(* checkers tell apart, so that what they claim about accepted values can  *)
(* be compared with the values accepted.                                   *)
(*                                                                         *)
(* A number is an integer count of half units, so that 3 is the number     *)
(* 1.5.  A string is a token; what a schema can see of it is its length,   *)
(* the expressions it matches, the kind of identifier it is and, when it   *)
(* is a GTS pattern, the identifiers it selects.                           *)
(***************************************************************************)
EXTENDS Integers, Sequences, FiniteSets

CONSTANTS
    None,           \* an absent keyword or property
    Names,          \* property names; they are strings too
    PatternNames,   \* the names the one key of patternProperties matches
    Strings,        \* string tokens
    LengthOf,       \* [Strings -> Nat]
    MatchedBy,      \* [expressions -> SUBSET Strings]
    KindOf,         \* [Strings -> {"type", "instance", "none"}]
    Selects,        \* [Strings -> SUBSET identifiers, or None if no pattern]
    SelfId          \* the reserved operand /$id

ASSUME NamesAreStrings ==
    /\ PatternNames \subseteq Names
    /\ Names \subseteq Strings
    /\ None \notin Strings
    /\ SelfId \notin Strings

-----------------------------------------------------------------------------
(* Values.                                                                 *)

Num(n) == [num |-> n]
Str(s) == [str |-> s]
Arr(seq) == [items |-> seq]
Obj(f) == [props |-> f]

Null == [null |-> TRUE]

IsNum(v) == "num" \in DOMAIN v
IsStr(v) == "str" \in DOMAIN v
IsArr(v) == "items" \in DOMAIN v
IsObj(v) == "props" \in DOMAIN v

NamesIn(v) == {n \in Names : v.props[n] # None}

TypeOf(v) ==
    CASE IsStr(v) -> "string"
      [] IsArr(v) -> "array"
      [] IsObj(v) -> "object"
      [] v = Null -> "null"
      [] OTHER    -> IF v.num % 2 = 0 THEN "integer" ELSE "number"

TypeNames == {"string", "array", "object", "integer", "number", "null"}

-----------------------------------------------------------------------------
(* Schemas.  bool is TRUE or FALSE for a boolean schema and None for an    *)
(* object schema, whose absent keywords are None.                          *)

SubschemaKeywords ==
    {"additionalProperties", "unevaluatedProperties", "patternProperties",
     "propertyNames", "items", "prefixItems", "contains", "not"}

BranchKeywords == {"allOf", "anyOf"}

ReferenceKeywords == {"typeRef", "instanceRef", "patternRef"}

Keywords ==
    SubschemaKeywords \cup BranchKeywords \cup ReferenceKeywords
        \cup {"type", "const", "enum", "minimum", "exclusiveMinimum",
              "maximum", "exclusiveMaximum", "multipleOf", "minLength",
              "maxLength", "pattern", "minContains", "maxContains",
              "uniqueItems", "properties", "required", "default", "ref"}

Blank == [k \in Keywords \cup {"bool"} |-> None]

Bool(b) == [Blank EXCEPT !.bool = b]

Has(s, k) == s[k] # None

Present(s) == {k \in Keywords : Has(s, k)}

Declared(s) ==
    IF Has(s, "properties") THEN {n \in Names : s.properties[n] # None} ELSE {}

Patterned(s) == IF Has(s, "patternProperties") THEN PatternNames ELSE {}

Required(s) == IF Has(s, "required") THEN s.required ELSE {}

Branches(s, k) == IF Has(s, k) THEN {s[k][i] : i \in DOMAIN s[k]} ELSE {}

-----------------------------------------------------------------------------
(* A document is a schema read as a root: its dialect decides which        *)
(* keywords exist, "#" names the root and /$id its identifier.             *)

Document(dialect, id, root) == [dialect |-> dialect, id |-> id, root |-> root]

Modern(dialect) == dialect # "draft-07"

Operand(doc, o) == IF o = SelfId THEN doc.id ELSE o

(* A string satisfies a reference keyword if it is an identifier of the    *)
(* required kind that the operand selects, or a pattern it covers.         *)
Referred(kind, operand, s) ==
    /\ KindOf[s] = kind
    /\ s \in Selects[operand]

CoveredBy(operand, s) ==
    /\ Selects[s] # None
    /\ Selects[s] \subseteq Selects[operand]

RECURSIVE Accepts(_, _, _)
RECURSIVE Evaluated(_, _, _)

(* The names of an object that a schema evaluates when it accepts it.      *)
Evaluated(doc, s, v) ==
    IF \/ Has(s, "additionalProperties") \/ Has(s, "unevaluatedProperties")
    THEN Names
    ELSE Declared(s) \cup Patterned(s)
            \cup (IF Has(s, "ref") THEN Evaluated(doc, doc.root, v) ELSE {})
            \cup UNION {Evaluated(doc, b, v) :
                          b \in {c \in Branches(s, "allOf") \cup Branches(s, "anyOf") :
                                     Accepts(doc, c, v)}}

AcceptsScalar(doc, s, v) ==
    /\ Has(s, "type") =>
          \/ TypeOf(v) \in s.type
          \/ TypeOf(v) = "integer" /\ "number" \in s.type
    /\ Has(s, "const") => v = s.const
    /\ Has(s, "enum") => v \in s.enum
    /\ IsNum(v) =>
          /\ Has(s, "minimum") => v.num >= s.minimum
          /\ Has(s, "exclusiveMinimum") => v.num > s.exclusiveMinimum
          /\ Has(s, "maximum") => v.num <= s.maximum
          /\ Has(s, "exclusiveMaximum") => v.num < s.exclusiveMaximum
          /\ Has(s, "multipleOf") => v.num % s.multipleOf = 0
    /\ IsStr(v) =>
          /\ Has(s, "minLength") => LengthOf[v.str] >= s.minLength
          /\ Has(s, "maxLength") => LengthOf[v.str] <= s.maxLength
          /\ Has(s, "pattern") => v.str \in MatchedBy[s.pattern]
          /\ Has(s, "typeRef") => Referred("type", Operand(doc, s.typeRef), v.str)
          /\ Has(s, "instanceRef") =>
                 Referred("instance", Operand(doc, s.instanceRef), v.str)
          /\ Has(s, "patternRef") => CoveredBy(Operand(doc, s.patternRef), v.str)

AcceptsArray(doc, s, v) ==
    LET prefix == IF Has(s, "prefixItems") /\ Modern(doc.dialect) THEN 1 ELSE 0
        Contained == {i \in DOMAIN v.items : Accepts(doc, s.contains, v.items[i])}
        Counted(k, n) == Has(s, k) /\ Modern(doc.dialect) => n
    IN  /\ \A i \in DOMAIN v.items :
              IF i <= prefix THEN Accepts(doc, s.prefixItems, v.items[i])
              ELSE Has(s, "items") => Accepts(doc, s.items, v.items[i])
        /\ Has(s, "contains") =>
              /\ IF Has(s, "minContains") /\ Modern(doc.dialect)
                 THEN Cardinality(Contained) >= s.minContains
                 ELSE Contained # {}
              /\ Counted("maxContains", Cardinality(Contained) <= s.maxContains)
        /\ Has(s, "uniqueItems") /\ s.uniqueItems =>
              \A i, j \in DOMAIN v.items : v.items[i] = v.items[j] => i = j

AcceptsObject(doc, s, v) ==
    /\ Required(s) \subseteq NamesIn(v)
    /\ \A n \in NamesIn(v) :
          /\ n \in Declared(s) => Accepts(doc, s.properties[n], v.props[n])
          /\ n \in Patterned(s) => Accepts(doc, s.patternProperties, v.props[n])
          /\ Has(s, "propertyNames") => Accepts(doc, s.propertyNames, Str(n))
          /\ Has(s, "additionalProperties") /\ n \notin Declared(s) \cup Patterned(s)
                => Accepts(doc, s.additionalProperties, v.props[n])
          /\ Has(s, "unevaluatedProperties") /\ Modern(doc.dialect)
                /\ n \notin Evaluated(doc, [s EXCEPT !.unevaluatedProperties = None], v)
                => Accepts(doc, s.unevaluatedProperties, v.props[n])

(* Under Draft-07 a reference hides the keywords beside it.                *)
Accepts(doc, s, v) ==
    IF Has(s, "bool") THEN s.bool
    ELSE
      /\ Has(s, "ref") => Accepts(doc, doc.root, v)
      /\ ~(Has(s, "ref") /\ ~Modern(doc.dialect)) =>
            /\ AcceptsScalar(doc, s, v)
            /\ IsArr(v) => AcceptsArray(doc, s, v)
            /\ IsObj(v) => AcceptsObject(doc, s, v)
            /\ Has(s, "not") => ~Accepts(doc, s.not, v)
            /\ \A b \in Branches(s, "allOf") : Accepts(doc, b, v)
            /\ Has(s, "anyOf") => \E b \in Branches(s, "anyOf") : Accepts(doc, b, v)

Valid(doc, v) == Accepts(doc, doc.root, v)
=============================================================================
