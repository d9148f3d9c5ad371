----------------------------- MODULE GtsKeywords -----------------------------
(***************************************************************************)
(* What a schema document is read as: which of its parts are schemas,      *)
(* under which dialect, and which GTS keywords may stand where             *)
(* (schema_modifiers.rs, schema_dialect.rs, the walk of schema_regex.rs,   *)
(* schema_refs.rs, check_schema_positions of json_schema.rs).              *)
(*                                                                         *)
(* A node is an object of a document.  Its kids are the objects below it,  *)
(* by the slot they stand in; a path is a sequence of slots.               *)
(***************************************************************************)
EXTENDS Integers, Sequences, SequencesExt

CONSTANTS
    Absent,    \* a keyword that is not there
    ChainOf    \* the chain of a type id, its root first and itself last

Dialects == {"draft-07", "2019-09", "2020-12"}

Node == [schema |-> Absent, id |-> Absent, ref |-> Absent, final |-> Absent,
         abstract |-> Absent, words |-> {}, kids |-> <<>>]

(* A $ref: to a place in the resource it stands in, or in a document.      *)
LocalRef(path) == [doc |-> Absent, path |-> path]
TypeRef(doc, path) == [doc |-> doc, path |-> path]

TraitSlot == "x-gts-traits-schema"


(* The subschemas a dialect defines, in the slots modelled; the rest is    *)
(* data or a keyword the dialect does not know.                            *)
Subresources(dialect) ==
    {"properties/a", "properties/default"}
        \cup (IF dialect = "2020-12" THEN {"prefixItems/0"} ELSE {})

Max0(S) == CHOOSE k \in S : \A j \in S : j <= k

NodeAt(root, path) ==
    LET step(n, slot) == IF n = Absent \/ slot \notin DOMAIN n.kids THEN Absent ELSE n.kids[slot]
    IN  FoldLeft(step, root, path)

Detect(dialect, n) == IF n.schema = Absent THEN dialect ELSE n.schema

DefaultDialect == "2020-12"

(* Draft-07 ignores what stands beside $ref and takes #name for an anchor. *)
StartsResource(dialect, n) ==
    /\ n.id # Absent
    /\ dialect = "draft-07" => n.ref = Absent /\ n.id # "anchor"

-----------------------------------------------------------------------------
(* The structural walk: the document and its subschemas, each with its     *)
(* scope.                                                                  *)

Scope(dialect, resource, resource_dialect) ==
    [dialect |-> dialect, resource |-> resource, resource_dialect |-> resource_dialect]

Entered(scope, n, path) ==
    LET dialect == Detect(scope.dialect, n) IN
    IF StartsResource(dialect, n) THEN Scope(dialect, path, dialect)
    ELSE [scope EXCEPT !.dialect = dialect]

RECURSIVE NodesBelow(_, _, _, _)
NodesBelow(n, path, scope, traits) ==
    LET slots == DOMAIN n.kids
                   \cap (Subresources(scope.dialect) \cup (IF traits THEN {TraitSlot} ELSE {}))
        entered(slot) == Entered(scope, n.kids[slot], Append(path, slot))
    IN  {[node |-> n, path |-> path, scope |-> scope]}
          \cup UNION {NodesBelow(n.kids[slot], Append(path, slot), entered(slot), traits) : slot \in slots}

SchemaNodes(root, traits) ==
    LET dialect == Detect(DefaultDialect, root)
    IN  NodesBelow(root, <<>>, Scope(dialect, <<>>, dialect), traits)

Unknown(n) == "x-gts-unknown" \in n.words

KnownGtsKeywords(root) == \A at \in SchemaNodes(root, TRUE) : ~Unknown(at.node)

SchemaModifiers(root) ==
    /\ root.final \in {Absent, "true", "false"} /\ root.abstract \in {Absent, "true", "false"}
    /\ ~(root.final = "true" /\ root.abstract = "true")
    /\ \A at \in SchemaNodes(root, TRUE) :
           at.path # <<>> => at.node.final = Absent /\ at.node.abstract = Absent

TraitPlacement(root) ==
    \A at \in SchemaNodes(root, FALSE) :
        at.path # <<>> => TraitSlot \notin DOMAIN at.node.kids /\ "x-gts-traits" \notin at.node.words

ValidateGtsKeywords(root) ==
    KnownGtsKeywords(root) /\ SchemaModifiers(root) /\ TraitPlacement(root)

-----------------------------------------------------------------------------
(* One dialect.                                                            *)

(* The dialect at a path: the nearest one declared on the way down.        *)
DialectAt(n, dialect, path) ==
    LET on(k) == NodeAt(n, SubSeq(path, 1, k))
        declared == {k \in 1 .. Len(path) : on(k) # Absent /\ on(k).schema # Absent}
    IN  CASE NodeAt(n, path) = Absent -> Absent
          [] NodeAt(n, path) # Absent /\ declared = {} -> dialect
          [] OTHER -> on(Max0(declared)).schema

TargetDialect(reg, root, at) ==
    LET ref == at.node.ref IN
    CASE ref.doc = Absent ->
            DialectAt(NodeAt(root, at.scope.resource), at.scope.resource_dialect, ref.path)
      [] ref.doc \in DOMAIN reg ->
            DialectAt(reg[ref.doc], Detect(DefaultDialect, reg[ref.doc]), ref.path)
      [] OTHER -> Absent

CheckDialectReferences(reg, root) ==
    \A at \in SchemaNodes(root, TRUE) :
        at.node.ref # Absent => TargetDialect(reg, root, at) \in {Absent, at.scope.dialect}

CheckSubschemas(root, dialect) ==
    \A at \in SchemaNodes(root, TRUE) : at.scope.dialect = dialect

(* Slip: the root of the hierarchy is not asked.                           *)
CheckDialectAlone(reg, id) ==
    /\ reg[id].schema \in Dialects
    /\ CheckSubschemas(reg[id], reg[id].schema)
    /\ CheckDialectReferences(reg, reg[id])

CheckDialect(reg, id) ==
    /\ reg[id].schema \in Dialects
    /\ ChainOf[id][1] \in DOMAIN reg => Detect(DefaultDialect, reg[ChainOf[id][1]]) = reg[id].schema
    /\ CheckSubschemas(reg[id], reg[id].schema)
    /\ CheckDialectReferences(reg, reg[id])

-----------------------------------------------------------------------------
(* The types a type refers to, by a scan of all but data.                  *)

(* The scan goes by names alone: a property may have the name of one.      *)
NamedAsData(slot) == slot \in {"const", "properties/default"}

RECURSIVE ExtractGtsRefs(_)
ExtractGtsRefs(n) ==
    {doc \in (IF n.ref = Absent THEN {} ELSE {n.ref.doc}) : doc # Absent}
        \cup UNION {ExtractGtsRefs(n.kids[s]) : s \in {slot \in DOMAIN n.kids : ~NamedAsData(slot)}}

RelatedTypes(reg, id) ==
    ({ChainOf[id][k] : k \in {Len(ChainOf[id]) - 1} \ {0}} \cup ExtractGtsRefs(reg[id])) \ {id}

(* All that a relation leads to; what is not registered leads nowhere.     *)
RECURSIVE Following(_, _)
Following(next(_), met) ==
    LET more == met \cup UNION {next(x) : x \in met}
    IN  IF more = met THEN met ELSE Following(next, more)

-----------------------------------------------------------------------------
(* The reaching walk: what a validator of documents gets to, references    *)
(* into data included.                                                     *)

Place(doc, path, dialect, resource) ==
    [doc |-> doc, path |-> path, dialect |-> dialect, resource |-> resource]

RootPlace(reg, doc) == Place(doc, <<>>, Detect(DefaultDialect, reg[doc]), <<>>)

Through(reg, at, slot) ==
    LET path == Append(at.path, slot)
        n == NodeAt(reg[at.doc], path)
        dialect == Detect(at.dialect, n)
    IN  Place(at.doc, path, dialect, IF StartsResource(dialect, n) THEN path ELSE at.resource)

Target(reg, at, ref) ==
    LET doc == IF ref.doc = Absent THEN at.doc ELSE ref.doc
        base == IF ref.doc = Absent THEN at.resource ELSE <<>>
        path == base \o ref.path
        dialect == DialectAt(reg[doc], Detect(DefaultDialect, reg[doc]), path)
    IN  IF dialect = Absent THEN {} ELSE {Place(doc, path, dialect, base)}

(* Slip: references are not followed.                                      *)
GoesOnInside(reg, documents, at) ==
    LET n == NodeAt(reg[at.doc], at.path)
        slots == Subresources(at.dialect) \cup (IF at.path = <<>> THEN {TraitSlot} ELSE {})
    IN  {Through(reg, at, slot) : slot \in slots \cap DOMAIN n.kids}

GoesOn(reg, documents, at) ==
    LET n == NodeAt(reg[at.doc], at.path)
        traits == IF at.path = <<>> THEN {TraitSlot} ELSE {}
        slots == IF n.ref # Absent /\ at.dialect = "draft-07" THEN traits
                 ELSE Subresources(at.dialect) \cup traits
    IN  {Through(reg, at, slot) : slot \in slots \cap DOMAIN n.kids}
          \cup (IF n.ref # Absent /\ n.ref.doc \in documents \cup {Absent}
                THEN Target(reg, at, n.ref) ELSE {})

ReadFrom(reg, documents, from) ==
    LET next(at) == GoesOn(reg, documents, at)
    IN  Following(next, {RootPlace(reg, doc) : doc \in from})

(* The documents a validator of id is built with.                          *)
Resources(reg, id) ==
    LET next(doc) == IF doc \in DOMAIN reg THEN ExtractGtsRefs(reg[doc]) ELSE {}
    IN  Following(next, {id})

CheckSchemaPositions(reg, id) ==
    LET documents == Resources(reg, id) IN
    /\ documents \subseteq DOMAIN reg
    /\ \A at \in ReadFrom(reg, documents, {id}) : at.dialect = reg[id].schema
    /\ \A at \in ReadFrom(reg, documents, documents) : ~Unknown(NodeAt(reg[at.doc], at.path))

-----------------------------------------------------------------------------
ValidateLocally(reg, id) ==
    CheckDialect(reg, id) /\ ValidateGtsKeywords(reg[id]) /\ CheckSchemaPositions(reg, id)

(* The keywords and dialects of a type and of all that it relates to.      *)
ReadableType(reg, id) ==
    LET next(t) == IF t \in DOMAIN reg THEN RelatedTypes(reg, t) ELSE {}
        related == Following(next, {id})
    IN  related \subseteq DOMAIN reg /\ \A t \in related : ValidateLocally(reg, t)
=============================================================================
