--------------------------- MODULE GtsDerivation ----------------------------
(***************************************************************************)
(* Whether a type may derive from its base: what the derived document      *)
(* declares must be included in what the base declares, and it must leave  *)
(* the base's properties usable (src/gts/src/schema_derivation.rs).        *)
(***************************************************************************)
EXTENDS GtsEvolution

Structural == {"properties", "required", "additionalProperties"}

-----------------------------------------------------------------------------
(* Declarations: branches folded in order, the last one wins, except that  *)
(* references narrow, requirements add up and closed levels stay closed.   *)

MergeAdditional(current, candidate) ==
    IF current # None /\ (BooleanValue(current) = FALSE \/ BooleanValue(candidate) = TRUE)
    THEN current ELSE candidate

Comparable(k, a, b) == Usable(k, a) /\ Usable(k, b)

Narrower(k, held, candidate) ==
    IF Comparable(k, held, candidate) /\ Includes(k, held, candidate) THEN candidate ELSE held

(* References of which neither includes the other stay side by side.       *)
Conflicting(acc, source) ==
    {k \in ReferenceKeywords :
        /\ Has(acc, k) /\ Has(source, k) /\ acc[k] # source[k]
        /\ ~(/\ Comparable(k, acc[k], source[k])
             /\ \E p \in {<<acc[k], source[k]>>, <<source[k], acc[k]>>} : Includes(k, p[1], p[2]))}

RECURSIVE Declaration(_, _)
RECURSIVE Absorb(_, _, _)

(* Restating a property declares its values anew; its structure composes.  *)
AbsorbProperty(inherited, overlay, depth) ==
    LET composed == [k \in DOMAIN overlay |->
                        IF k \in Structural \/ (k \in ReferenceKeywords /\ Has(inherited, k))
                        THEN inherited[k] ELSE overlay[k]]
    IN  IF inherited = None \/ Has(inherited, "bool") \/ Has(overlay, "bool") \/ depth >= MaxDepth
        THEN overlay ELSE Absorb(composed, overlay, depth)

AbsorbProperties(held, source, depth) ==
    [n \in Names |->
        IF source[n] = None THEN held[n]
        ELSE AbsorbProperty(held[n], Declaration(source[n], depth + 1), depth + 1)]

Absorb(acc, source, depth) ==
    LET held(k) == IF Has(acc, k) THEN acc[k] ELSE [n \in Names |-> None]
        aside == [k \in DOMAIN Blank |->
                     IF k \in Conflicting(acc, source) THEN source[k] ELSE None]
        merged(k) ==
            CASE k = "additionalProperties" -> MergeAdditional(acc[k], source[k])
              [] k = "properties" -> AbsorbProperties(held(k), source[k], depth)
              [] k = "required" -> Required(acc) \cup source[k]
              [] k \in ReferenceKeywords /\ Has(acc, k) -> Narrower(k, acc[k], source[k])
              [] OTHER -> source[k]
    IN  [k \in DOMAIN acc |->
            IF k = "allOf"
            THEN IF aside = Blank THEN acc[k]
                 ELSE IF Has(acc, k) THEN Append(acc[k], aside) ELSE <<aside>>
            ELSE IF Has(source, k) THEN merged(k) ELSE acc[k]]

Declaration(s, depth) ==
    LET absorbed(acc, level) ==
            IF Has(level, "bool") THEN acc ELSE Absorb(acc, level, depth)
        branches == IF Has(s, "allOf") THEN s.allOf ELSE <<>>
        declared == [i \in DOMAIN branches |-> Declaration(branches[i], depth + 1)]
    IN  IF Has(s, "bool") \/ depth >= MaxDepth THEN s
        ELSE FoldLeft(absorbed, Blank, Append(declared, s))

-----------------------------------------------------------------------------
(* Admission.                                                              *)

(* Slip: what the level says of other names itself is overridden.          *)
InheritingAlways(derived, base) ==
    IF derived.bool = None /\ base.bool = None
    THEN [derived EXCEPT !.additionalProperties = base.additionalProperties]
    ELSE derived

(* A level that says nothing of other names inherits what its base says.   *)
Inheriting(derived, base) ==
    IF derived.bool = None /\ base.bool = None /\ ~Has(derived, "additionalProperties")
    THEN [derived EXCEPT !.additionalProperties = base.additionalProperties]
    ELSE derived

Loosened(base, raw) ==
    /\ base.bool = None /\ Has(base, "additionalProperties")
    /\ BooleanValue(base.additionalProperties) = FALSE
    /\ raw.bool = None /\ Has(raw, "additionalProperties")
    /\ BooleanValue(raw.additionalProperties) # FALSE

(* The base's properties that a derived document switches off.             *)
SwitchedOff(s) == {n \in Declared(s) : s.properties[n] = Bool(FALSE)}

Disabled(base, derived) ==
    Declared(Flatten(base, 0).value) \cap SwitchedOff(Flatten(derived, 0).value)

(* A document is admitted only on proof: whatever is left unproven counts. *)
CompareDeclarations(base, derived, raw) ==
    Finding(Loosened(base.root, raw), "Loosened")
      \cup (Inclusion(derived, base) \ {"DialectChanged"})
      \cup Finding(Disabled(base.root, derived.root) # {}, "Disabled")

Declaring(doc) == [doc EXCEPT !.root = Declaration(WithSelfOperands(doc), 0)]

ValidateDerivation(base, derived) ==
    LET inheriting(d, b) == [d EXCEPT !.root = Inheriting(d.root, b.root)]
        compare(b, d) == CompareDeclarations(b, inheriting(d, b), derived.root)
    IN  compare(Declaring(base), Declaring(derived))

(* Slip: only the level itself is looked at, not its branches.             *)
OrphansAtLevel(ancestor, descendant, depth) ==
    Finding(/\ Has(descendant, "additionalProperties")
            /\ BooleanValue(descendant.additionalProperties) = FALSE
            /\ Declared(ancestor) \ Declared(descendant) # {}, "Orphaned")

(* A branch that closes a level without restating the properties of the    *)
(* ancestor's level makes them unusable.                                   *)
RECURSIVE OrphansBelow(_, _, _)
OrphansBelow(ancestor, descendant, depth) ==
    LET closed == /\ Has(descendant, "additionalProperties")
                  /\ BooleanValue(descendant.additionalProperties) = FALSE
    IN  IF depth >= MaxDepth THEN {"TooDeep"}
        ELSE IF Has(descendant, "bool") THEN {}
        ELSE Finding(closed /\ Declared(ancestor) \ Declared(descendant) # {}, "Orphaned")
               \cup UNION {OrphansBelow(Flatten(ancestor.properties[n], 0).value,
                                        descendant.properties[n], depth + 1) :
                             n \in Declared(ancestor) \cap Declared(descendant)}
               \cup UNION {OrphansBelow(ancestor, branch, depth + 1) :
                             branch \in Branches(descendant, "allOf")}

ClosedBranches(base, derived) == OrphansBelow(Flatten(base.root, 0).value, derived.root, 0)

Derives(derived, base) == ValidateDerivation(base, derived) \cup ClosedBranches(base, derived) = {}
=============================================================================
