------------------------------ MODULE MCSearch ------------------------------
(***************************************************************************)
(* One validation: over every graph of concrete and wildcard operands      *)
(* among three unrelated types, cycles included, each type either sound by *)
(* itself or not; and over a type, one derived from it, a type apart and   *)
(* an instance, each absent or in one of a few variants: $ref cycles       *)
(* across documents, dialects, final and abstract types, references of     *)
(* traits and payloads, documents stored under an id of the other kind.    *)
(* And one registry in which a reference counts against the document it    *)
(* stands in (MCNegated.cfg).                                              *)
(***************************************************************************)
EXTENDS GtsValidation

CONSTANTS base, leaf, peer, other, item

MCTypeIds == {base, leaf, peer, other}
MCInstanceIds == {item}
MCBase == [t \in MCTypeIds |-> IF t = leaf THEN base ELSE NoType]
MCAncestors == [t \in MCTypeIds |-> IF t = leaf THEN {base} ELSE {}]

Type ==
    [is_schema |-> TRUE, fault |-> "none", dialect |-> "draft-07",
     operands |-> <<>>, refs |-> {}, candidates |-> {}, required |-> {},
     forbidden |-> {}, conforms |-> TRUE, is_abstract |-> FALSE,
     is_final |-> FALSE, type |-> NoType]

Faulty(fault, operands) == [Type EXCEPT !.fault = fault, !.operands = operands]

Item(type, candidates, required) ==
    [Type EXCEPT !.is_schema = FALSE, !.type = type,
                 !.candidates = candidates, !.required = required]

---------------------------------------------------------------------------
(* Graphs. *)

Apart == {base, peer, other}

Concrete == {<<{x}>> : x \in Apart}
Pairs == {<<{x}, {y}>> : x, y \in Apart} \ {<<{x}, {x}>> : x \in Apart}
Wild == {<<{x, y}>> : x, y \in Apart} \ Concrete

Shapes == {<<>>} \cup Concrete \cup Pairs \cup Wild

(* At most one type is unsound by itself, and peer is always registered.  *)
GraphRegistries ==
    {[t \in S |-> Faulty(IF t = bad THEN "late" ELSE "none", shape[t])] :
        S \in {S \in SUBSET Apart : peer \in S},
        bad \in Apart \cup {NoType},
        shape \in [Apart -> Shapes]}

---------------------------------------------------------------------------
(* Hierarchies. *)

BaseVariants ==
    {Type,
     [Type EXCEPT !.is_abstract = TRUE, !.fault = "incomplete"],
     [Type EXCEPT !.is_final = TRUE],
     [Type EXCEPT !.fault = "early"],
     [Type EXCEPT !.operands = <<{item}>>],
     [Type EXCEPT !.refs = {base}],
     Item(peer, {}, {})}

LeafVariants ==
    {Type,
     [Type EXCEPT !.fault = "incomplete"],
     [Type EXCEPT !.conforms = FALSE],
     [Type EXCEPT !.dialect = "2020-12"],
     [Type EXCEPT !.refs = {peer}],
     [Type EXCEPT !.operands = <<{base, item}, {peer}>>],
     [Type EXCEPT !.is_abstract = TRUE]}

PeerVariants ==
    {Type,
     [Type EXCEPT !.refs = {leaf}],
     [Type EXCEPT !.refs = {base}, !.dialect = "2020-12"],
     [Type EXCEPT !.candidates = {item, base}, !.required = {item}],
     Faulty("traits", <<{leaf}>>),
     [Type EXCEPT !.is_abstract = TRUE]}

ItemVariants ==
    {Item(leaf, {}, {}),
     Item(peer, {base, leaf}, {leaf}),
     Item(peer, {item, peer}, {item, peer}),
     [Item(leaf, {peer}, {peer}) EXCEPT !.conforms = FALSE],
     Item(NoType, {}, {}),
     Type}

HierarchyRegistries ==
    {[id \in S |-> CASE id = base -> x [] id = leaf -> y
                     [] id = peer -> z [] id = item -> w] :
        S \in SUBSET {base, leaf, peer, item},
        x \in BaseVariants, y \in LeafVariants,
        z \in PeerVariants, w \in ItemVariants}

MCRegistries == GraphRegistries \cup HierarchyRegistries

MCRequests ==
    [op : {"schema"}, id : {leaf, peer}, mode : Modes]
        \cup [op : {"instance"}, id : {item, base}, mode : {"any-present", "any-valid"}]
        \cup [op : {"payload"}, id : {leaf}, mode : {"none", "any-valid"},
              doc : {Item(NoType, {item, peer}, {item})}]
---------------------------------------------------------------------------
(* The payload of instance item holds culprit below a `not`, while culprit, *)
(* a type derived from the type of item, requires item and is unsound by    *)
(* itself. host needs other and one of culprit and item; holder, the type   *)
(* of item, negates a keyword with a wildcard operand that all but host     *)
(* match.                                                                   *)

CONSTANTS host, culprit, holder

NegatedTypeIds == {host, culprit, other, holder}
NegatedInstanceIds == {item}
NegatedBase == [u \in NegatedTypeIds |-> IF u = culprit THEN holder ELSE NoType]
NegatedAncestors == [u \in NegatedTypeIds |-> IF u = culprit THEN {holder} ELSE {}]

NegatedDocument(id) ==
    CASE id = host -> Faulty("none", <<{other}, {culprit, item}>>)
      [] id = culprit -> Faulty("late", <<{item}>>)
      [] id = other -> Faulty("none", <<>>)
      [] id = holder -> Faulty("none", <<{culprit, other, holder, item}>>)
      [] id = item -> [Faulty("none", <<>>) EXCEPT !.is_schema = FALSE, !.type = holder,
                       !.candidates = {item, culprit}, !.forbidden = {culprit}]

NegatedRegistries ==
    {[id \in NegatedTypeIds \cup NegatedInstanceIds |-> NegatedDocument(id)]}

NegatedRequests == {[op |-> "schema", id |-> host, mode |-> "any-valid"]}
=============================================================================
