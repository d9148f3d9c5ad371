---------------------------- MODULE GtsReferences -----------------------------
(***************************************************************************)
(* The reference keywords of a schema (x_gts_ref.rs, x_gts_pattern_ref.rs) *)
(* and what a rejected payload is told: which errors are references, and   *)
(* whether there are any to tell (json_schema.rs, PayloadValidator and     *)
(* check_payload of store.rs).                                             *)
(*                                                                         *)
(* An operand is a text, or SelfId for /$id.  Targets are not looked up:   *)
(* that is the part of GtsValidity.                                        *)
(***************************************************************************)
EXTENDS GtsSchemas, SequencesExt

-----------------------------------------------------------------------------
(* Operands.                                                               *)

KindOfKeyword == [typeRef |-> "type", instanceRef |-> "instance"]

(* The text an operand denotes for the type selected, or None: a schema    *)
(* error wherever it stands.                                               *)
ResolveDeclaration(keyword, operand, selected) ==
    LET text == IF operand = SelfId THEN selected ELSE operand
    IN  IF \/ text = None
           \/ operand = SelfId /\ KindOf[text] # "type"
           \/ Selects[text] = None
           \/ keyword = "typeRef" /\ KindOf[text] = "instance"
        THEN None ELSE text

(* The schemas below a schema, each at the path that leads to it: keywords, *)
(* with the property or the branch where there are several.                *)
RECURSIVE Positions(_)
Positions(s) ==
    LET below(step, sub) == {<<<<step>> \o p[1], p[2]>> : p \in Positions(sub)}
    IN  {<<<<>>, s>>}
          \cup UNION {below(<<k>>, s[k]) : k \in {k \in SubschemaKeywords : Has(s, k)}}
          \cup UNION {below(<<"properties", n>>, s.properties[n]) : n \in Declared(s)}
          \cup UNION {UNION {below(<<k, i>>, s[k][i]) : i \in DOMAIN s[k]} :
                          k \in {k \in BranchKeywords : Has(s, k)}}

Unusable(doc, selected) ==
    {<<p[1], k>> : <<p, k>> \in
        {<<p, k>> \in Positions(doc.root) \X ReferenceKeywords :
            Has(p[2], k) /\ ResolveDeclaration(k, p[2][k], selected) = None}}

-----------------------------------------------------------------------------
(* What the validator of the jsonschema crate reports of a value, all      *)
(* branches of a failed anyOf included.                                    *)

Standard == [of |-> "standard"]
Violated(keyword, s, v) == [of |-> keyword, operand |-> s[keyword], value |-> v]
NoBranch(causes) == [of |-> "anyOf", causes |-> causes]

Plain(s) == [s EXCEPT !.typeRef = None, !.instanceRef = None, !.patternRef = None]

(* The value without its parts, which are reported each on its own.        *)
Shallow(s) ==
    [Plain(s) EXCEPT !.items = None, !.prefixItems = None, !.properties = None,
                     !.patternProperties = None, !.additionalProperties = None,
                     !.allOf = None, !.anyOf = None, !.ref = None]

ShallowRejects(doc, s, v) ==
    \/ ~Accepts(doc, [Shallow(s) EXCEPT !.unevaluatedProperties = None], v)
    \/ /\ IsObj(v) /\ Has(s, "unevaluatedProperties") /\ Modern(doc.dialect)
       /\ \E n \in NamesIn(v) \ Evaluated(doc, [s EXCEPT !.unevaluatedProperties = None], v) :
             ~Accepts(doc, s.unevaluatedProperties, v.props[n])

(* The schemas a part of a value is judged by.                             *)
PartsOf(doc, s, v) ==
    CASE IsObj(v) ->
            {<<s.properties[n], v.props[n]>> : n \in Declared(s) \cap NamesIn(v)}
              \cup {<<s.patternProperties, v.props[n]>> : n \in Patterned(s) \cap NamesIn(v)}
              \cup (IF Has(s, "additionalProperties")
                    THEN {<<s.additionalProperties, v.props[n]>> :
                             n \in NamesIn(v) \ (Declared(s) \cup Patterned(s))}
                    ELSE {})
      [] IsArr(v) ->
            LET prefix == IF Has(s, "prefixItems") /\ Modern(doc.dialect) THEN 1 ELSE 0
            IN  {<<IF i <= prefix THEN s.prefixItems ELSE s.items, v.items[i]>> :
                    i \in {i \in DOMAIN v.items : i <= prefix \/ Has(s, "items")}}
      [] OTHER -> {}

RECURSIVE IterErrors(_, _, _)
IterErrors(doc, s, v) ==
    LET branches(k) == {IterErrors(doc, b, v) : b \in Branches(s, k)} IN
    IF Has(s, "bool") THEN (IF s.bool THEN {} ELSE {Standard})
    ELSE (IF Has(s, "ref") THEN IterErrors(doc, doc.root, v) ELSE {})
         \cup (IF Has(s, "ref") /\ ~Modern(doc.dialect) THEN {}
               ELSE {Standard : x \in {TRUE} \cap {ShallowRejects(doc, s, v)}}
                    \cup {Violated(k, s, v) :
                            k \in {k \in ReferenceKeywords :
                                     Has(s, k) /\ ~Accepts(doc, [Blank EXCEPT ![k] = s[k]], v)}}
                    \cup UNION {IterErrors(doc, p[1], p[2]) : p \in PartsOf(doc, s, v)}
                    \cup UNION branches("allOf")
                    \cup (IF Has(s, "anyOf") /\ {} \notin branches("anyOf")
                          THEN {NoBranch(UNION branches("anyOf"))} ELSE {}))

-----------------------------------------------------------------------------
(* Which of them are references.                                           *)

(* Slip: one cause that is a reference makes the branches one.             *)
RECURSIVE AttributedToAny(_)
AttributedToAny(error) ==
    CASE error.of \in ReferenceKeywords -> {error}
      [] error.of = "anyOf" -> UNION {AttributedToAny(cause) : cause \in error.causes}
      [] OTHER -> {}

(* The references that fully explain an error, or none.                    *)
RECURSIVE AttributedRefs(_)
AttributedRefs(error) ==
    CASE error.of \in ReferenceKeywords -> {error}
      [] error.of = "anyOf" ->
            LET attributed == {AttributedRefs(cause) : cause \in error.causes}
            IN  IF {} \in attributed THEN {} ELSE UNION attributed
      [] OTHER -> {}

SplitErrors(errors) ==
    [standard |-> {e \in errors : AttributedRefs(e) = {}},
     references |-> UNION {AttributedRefs(e) : e \in errors}]

-----------------------------------------------------------------------------
(* Whether there are any to tell.                                          *)

Descending == {"properties", "patternProperties", "items", "prefixItems", "additionalProperties"}

Reentries(s) == {p[1] : p \in {p \in Positions(s) : Has(p[2], "ref")}}

DescendsTo(path) == path # <<>> /\ \A step \in ToSet(path) : Head(step) \in Descending

HasLinearRecursion(s) ==
    /\ Cardinality(Reentries(s)) <= 1
    /\ \A path \in Reentries(s) : DescendsTo(path)

Clean == [standard |-> {}, references |-> {}, unexplained |-> FALSE]

(* resolved: the schema with its references inlined.                       *)
DiagnoseRejection(doc, resolved, v) ==
    IF ~HasLinearRecursion(resolved) THEN [Clean EXCEPT !.unexplained = TRUE]
    ELSE LET split == SplitErrors(IterErrors(doc, doc.root, v))
         IN  [Clean EXCEPT !.standard = split.standard, !.references = split.references]

Diagnose(doc, v) ==
    IF Valid(doc, v) THEN Clean ELSE DiagnoseRejection(doc, doc.root, v)

(* Slip: references are told first.                                        *)
OutcomeOfReferences(diagnosis) ==
    CASE diagnosis.unexplained -> "unexplained"
      [] diagnosis.references # {} -> "references"
      [] diagnosis.standard # {} -> "constraints"
      [] OTHER -> "ok"

(* PayloadValidator::validate.                                             *)
Outcome(diagnosis) ==
    CASE diagnosis.unexplained -> "unexplained"
      [] diagnosis.standard # {} -> "constraints"
      [] diagnosis.references # {} -> "references"
      [] OTHER -> "ok"

(* check_payload, with the schema as its references leave it.              *)
CheckPayload(doc, v) ==
    IF Unusable(doc, doc.id) # {} THEN "schema"
    ELSE IF Valid(doc, v) THEN "ok"
    ELSE Outcome(DiagnoseRejection(doc, doc.root, v))

(* validate_instance_refs: the references alone.                           *)
ValidateInstanceRefs(doc, v) ==
    IF Unusable(doc, doc.id) # {} THEN "schema"
    ELSE LET diagnosis == Diagnose(doc, v)
         IN  IF diagnosis.unexplained THEN "unexplained"
             ELSE IF diagnosis.references = {} THEN "ok" ELSE "references"
=============================================================================
