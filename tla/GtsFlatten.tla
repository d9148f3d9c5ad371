----------------------------- MODULE GtsFlatten -----------------------------
(***************************************************************************)
(* Reducing a schema with allOf to one level: the intersection of its      *)
(* branches and its own keywords, and the locations where no single level  *)
(* expresses it (src/gts/src/schema_evolution.rs); with the equivalence of *)
(* schemas to true and false and the content model of an object level.     *)
(*                                                                         *)
(* A location is a sequence of property names and Elements, from the node  *)
(* being flattened.                                                        *)
(***************************************************************************)
EXTENDS GtsSchemas, SequencesExt

CONSTANTS
    MaxDepth,       \* MAX_RECURSION_DEPTH
    MaxLength,      \* the longest identifier
    ShortestTail,   \* the shortest segment an instance identifier adds
    Elements        \* the location of array items

ASSUME DepthAssumption == MaxDepth \in Nat \ {0}

(* A schema that is true or false in all but spelling.                     *)
RECURSIVE BooleanValue(_)
BooleanValue(s) ==
    LET assertions == Present(s) \ {"default"}
    IN  CASE Has(s, "bool")         -> s.bool
          [] ~Has(s, "bool") /\ assertions = {}      -> TRUE
          [] ~Has(s, "bool") /\ assertions = {"not"} ->
                IF BooleanValue(s.not) = None THEN None ELSE ~BooleanValue(s.not)
          [] OTHER -> None

-----------------------------------------------------------------------------
(* Reference keywords are compared by what their literal operands select.  *)

Usable(k, o) ==
    /\ o # SelfId
    /\ Selects[o] # None
    /\ k = "typeRef" => KindOf[o] # "instance"

KindRequired(k) == IF k = "typeRef" THEN "type" ELSE "instance"

(* No instance identifier below a type fits the length limit.              *)
Barren(k, o) ==
    /\ k = "instanceRef"
    /\ KindOf[o] = "type"
    /\ LengthOf[o] + ShortestTail > MaxLength

Covers(a, b) == Selects[b] \subseteq Selects[a]

(* Every string keyword k accepts with operand b it accepts with a.        *)
Includes(k, a, b) == (k # "patternRef" /\ Barren(k, b)) \/ Covers(a, b)

-----------------------------------------------------------------------------
(* Intersection.                                                           *)

Minimums == {"minimum", "exclusiveMinimum", "minLength", "minContains"}
Maximums == {"maximum", "exclusiveMaximum", "maxLength", "maxContains"}

Proven(v) == [value |-> v, lost |-> {}]
Unproven(v, path) == [value |-> v, lost |-> {path}]

(* Slip: only names the first level lacks are looked at.                   *)
MovesScopeOneWay(a, b) ==
    /\ Has(a, "additionalProperties")
    /\ a.additionalProperties \notin {Bool(TRUE), Blank}
    /\ Declared(b) \ Declared(a) # {}

(* Merging would take a name that one level constrains as an additional    *)
(* property out of that constraint, because the other level declares it.   *)
MovesScope(a, b) ==
    LET constrains(s) ==
            Has(s, "additionalProperties") /\ s.additionalProperties \notin {Bool(TRUE), Blank}
        beyond(s, other) ==
            \/ Declared(s) \ Declared(other) # {}
            \/ Has(s, "patternProperties") /\ ~Has(other, "patternProperties")
    IN  \/ constrains(a) /\ beyond(b, a)
        \/ constrains(b) /\ beyond(a, b)

RECURSIVE Merge(_, _, _, _)

MergeProperties(a, b, path, depth) ==
    LET both == {n \in Names : a[n] # None /\ b[n] # None}
        merged == [n \in both |-> Merge(a[n], b[n], Append(path, n), depth + 1)]
    IN  [value |-> [n \in Names |->
                       CASE n \in both -> merged[n].value
                         [] a[n] = None -> b[n]
                         [] OTHER -> a[n]],
         lost  |-> UNION {merged[n].lost : n \in both}]

(* One keyword that both levels carry, with different operands.            *)
MergeKeyword(k, a, b, path, depth) ==
    CASE k = "properties" -> MergeProperties(a, b, path, depth)
      [] k = "required"   -> Proven(a \cup b)
      [] k = "items"      -> Merge(a, b, Append(path, Elements), depth + 1)
      [] k \in {"additionalProperties", "unevaluatedProperties",
                "patternProperties", "propertyNames", "contains"} ->
            Merge(a, b, path, depth + 1)
      [] k = "enum" ->
            [value |-> a \cap b, lost |-> IF a \cap b = {} THEN {path} ELSE {}]
      [] k \in Minimums -> Proven(IF b > a THEN b ELSE a)
      [] k \in Maximums -> Proven(IF b < a THEN b ELSE a)
      [] k \in ReferenceKeywords ->
            IF ~(Usable(k, a) /\ Usable(k, b)) THEN Unproven(a, path)
            ELSE IF Includes(k, a, b) THEN Proven(b)
            ELSE IF Includes(k, b, a) THEN Proven(a)
            ELSE Unproven(a, path)
      [] k = "type" /\ {a, b} = {{"number"}, {"integer"}} -> Proven({"integer"})
      [] k = "default" -> Proven(b)
      [] OTHER -> Unproven(a, path)

Reassembled(a, parts) ==
    [value |-> [k \in DOMAIN a |-> IF k \in DOMAIN parts THEN parts[k].value ELSE a[k]],
     lost  |-> UNION {parts[k].lost : k \in DOMAIN parts}]

(* What was lost before, and what a merge loses.                           *)
Losing(lost, merged) == [merged EXCEPT !.lost = @ \cup lost]

(* The keywords of b folded into a.                                        *)
MergeLevel(a, b, path, depth) ==
    LET part(k) == IF ~Has(a, k) \/ a[k] = b[k] THEN Proven(b[k])
                   ELSE MergeKeyword(k, a[k], b[k], path, depth)
    IN  Losing(IF MovesScope(a, b) THEN {path} ELSE {},
               Reassembled(a, [k \in Present(b) |-> part(k)]))

Merge(a, b, path, depth) ==
    IF depth >= MaxDepth THEN Unproven(a, path)
    ELSE CASE a.bool = FALSE \/ b.bool = TRUE -> Proven(a)
           [] a.bool = TRUE /\ b.bool # TRUE  -> Proven(b)
           [] a.bool = None /\ b.bool = FALSE -> Proven(b)
           [] a.bool = None /\ b.bool = None  -> MergeLevel(a, b, path, depth)

-----------------------------------------------------------------------------
(* allOf is folded branch by branch, then the level's own keywords.        *)
WithBranch(acc, flat, depth) ==
    Losing(acc.lost \cup flat.lost, Merge(acc.value, flat.value, <<>>, depth))

WithOwn(folded, own, depth) ==
    IF Has(folded.value, "bool") THEN folded
    ELSE Losing(folded.lost, MergeLevel(folded.value, own, <<>>, depth))

RECURSIVE Flatten(_, _)
Flatten(s, depth) ==
    LET step(acc, branch) == WithBranch(acc, Flatten(branch, depth + 1), depth)
        branches == IF Has(s, "allOf") THEN s.allOf ELSE <<>>
    IN  CASE Has(s, "bool") -> Proven(s)
          [] ~Has(s, "bool") /\ depth >= MaxDepth -> Unproven(s, <<>>)
          [] ~Has(s, "bool") /\ depth < MaxDepth ->
                WithOwn(FoldLeft(step, Proven(Blank), branches), [s EXCEPT !.allOf = None], depth)

(* The unproven locations inside a child, as seen from the child.          *)
Below(lost, child) ==
    {Tail(path) : path \in {p \in lost : p # <<>> /\ Head(p) = child}}

-----------------------------------------------------------------------------
(* Content models.                                                         *)

ContentModels == {"open", "closed", "partial"}

BooleanAt(s, k) == IF Has(s, k) THEN BooleanValue(s[k]) ELSE TRUE

(* Slip: the names a pattern lets through are forgotten.                   *)
ContentModelUnpatterned(s, modern) ==
    LET fallback == IF Has(s, "additionalProperties") \/ ~modern
                    THEN BooleanAt(s, "additionalProperties")
                    ELSE BooleanAt(s, "unevaluatedProperties")
    IN  IF fallback = FALSE THEN "closed" ELSE IF fallback = TRUE THEN "open" ELSE "partial"

(* How a level treats the names it does not declare.                       *)
ContentModel(s, modern) ==
    LET fallback == IF Has(s, "additionalProperties") \/ ~modern
                    THEN BooleanAt(s, "additionalProperties")
                    ELSE BooleanAt(s, "unevaluatedProperties")
        names    == BooleanAt(s, "propertyNames")
        pattern  == BooleanAt(s, "patternProperties")
        closed   == \/ names = FALSE
                    \/ fallback = FALSE /\ (Has(s, "patternProperties") => pattern = FALSE)
    IN  IF closed THEN "closed"
        ELSE IF fallback = TRUE /\ names = TRUE /\ pattern = TRUE THEN "open"
        ELSE "partial"

ModelIncluded(source, target) ==
    source = "closed" \/ target = "open" \/ source = target

(* Only a closed level can gain an optional property in place.             *)
Evolvable(model) == model = "closed"

(* Every object level of a document with its content model.                *)
RECURSIVE LevelsAt(_, _, _, _)
LevelsAt(flat, path, modern, depth) ==
    LET isObject ==
            \/ flat.type = {"object"}
            \/ \E k \in {"properties", "additionalProperties", "unevaluatedProperties",
                         "patternProperties", "propertyNames"} : Has(flat, k)
        below(s, step) == LevelsAt(Flatten(s, 0).value, Append(path, step), modern, depth + 1)
    IN  IF depth >= MaxDepth \/ Has(flat, "bool") THEN {}
        ELSE (IF isObject THEN {[path |-> path, model |-> ContentModel(flat, modern)]}
              ELSE {})
             \cup UNION {below(flat.properties[n], n) : n \in Declared(flat)}
             \cup (IF Has(flat, "items") THEN below(flat.items, Elements) ELSE {})

Levels(doc) == LevelsAt(Flatten(doc.root, 0).value, <<>>, Modern(doc.dialect), 0)
=============================================================================
