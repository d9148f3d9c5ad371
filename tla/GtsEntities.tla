----------------------------- MODULE GtsEntities -----------------------------
(***************************************************************************)
(* From files to entities and what is asked of them without validating:    *)
(* which id a document has (entities.rs), which documents a directory      *)
(* holds (files_reader.rs), what refers to what (build_schema_graph),      *)
(* which entities a query finds (query) and what stands at a path in one   *)
(* (path_resolver.rs).                                                     *)
(*                                                                         *)
(* A document is what its id and type fields hold: a text, with or without *)
(* the gts:// prefix, or None.                                             *)
(***************************************************************************)
EXTENDS GtsSchemas, SequencesExt

CONSTANTS
    ParentOf,    \* [identifiers -> the id of all segments but the last, or None]
    Prefixed     \* the other texts that begin as an identifier does

Bare(text) == [text |-> text, uri |-> FALSE]
Uri(text) == [text |-> text, uri |-> TRUE]

IsId(text) == text # None /\ KindOf[text] # "none"
IsTypeId(text) == text # None /\ KindOf[text] = "type"

EntityIdFields == <<"$id", "gtsId", "id">>
TypeIdFields == <<"gtsTid", "type">>
Fields == {"$schema", "$id", "gtsId", "id", "gtsTid", "type"}

-----------------------------------------------------------------------------
(* GtsEntity::new.                                                         *)

HasSchemaField(content) == content["$schema"] # None

(* Stands for every text that is no identifier, a URI among them.          *)
NoIdentifier == CHOOSE t \in Strings : KindOf[t] = "none"

BareId(v) == ~v.uri /\ (IsId(v.text) \/ v.text \in Prefixed)

(* What a field holds, the prefix dropped in $id only: elsewhere it keeps  *)
(* the text from being an identifier.                                      *)
FieldValue(content, f) ==
    LET v == content[f] IN
    CASE v = None -> None
      [] v # None /\ f = "$id" ->
            IF HasSchemaField(content) /\ BareId(v) THEN None ELSE v.text
      [] OTHER -> IF v.uri THEN NoIdentifier ELSE v.text

(* The first of the fields that holds a text of one of these kinds.        *)
FirstField(content, fields, kinds) ==
    LET admitted(text) == text # None /\ KindOf[text] \in kinds
        values == SelectSeq([k \in DOMAIN fields |-> FieldValue(content, fields[k])], admitted)
    IN  IF values = <<>> THEN None ELSE Head(values)

AnyId == {"type", "instance"}
AnyText == AnyId \cup {"none"}

Identified(gts_id, type_id) ==
    [gts_id |-> gts_id, instance_id |-> gts_id, type_id |-> type_id]
Nameless == Identified(None, None)

(* Slip: what the other fields say is asked before $id.                    *)
ExtractTypeIdsLegacy(content) ==
    LET id == FirstField(content, <<"gtsId", "id", "$id">>, AnyId)
    IN  Identified(id, IF id = None THEN None ELSE ParentOf[id])

(* A schema has the type id its $id is a URI of; with an $id of another    *)
(* kind of identifier it has none, and without one the first identifier    *)
(* among the other fields.                                                 *)
ExtractTypeIds(content) ==
    LET v == content["$id"] IN
    CASE v # None /\ BareId(v) -> Nameless
      [] v # None /\ ~BareId(v) /\ IsId(v.text) ->
            IF IsTypeId(v.text) THEN Identified(v.text, ParentOf[v.text]) ELSE Nameless
      [] OTHER -> Identified(FirstField(content, EntityIdFields, AnyId), None)

(* The type a chained identifier names: up to its last tilde.              *)
ChainType(id) ==
    IF id = None \/ ParentOf[id] = None THEN None
    ELSE IF IsTypeId(id) THEN id ELSE ParentOf[id]

ExtractInstanceIds(content, file) ==
    LET id == FirstField(content, EntityIdFields, AnyText)
        gts_id == IF IsId(id) THEN id ELSE None
    IN  [gts_id |-> gts_id,
         instance_id |-> IF id # None THEN id ELSE file,
         type_id |-> IF ChainType(gts_id) # None THEN ChainType(gts_id)
                     ELSE FirstField(content, TypeIdFields, {"type"})]

(* file: where the document was read from, or None.                        *)
Entity(content, file) ==
    LET ids == IF HasSchemaField(content) THEN ExtractTypeIds(content)
               ELSE ExtractInstanceIds(content, file)
    IN  [content |-> content, is_schema |-> HasSchemaField(content), gts_id |-> ids.gts_id,
         type_id |-> ids.type_id,
         effective_id |-> IF ids.gts_id # None THEN ids.gts_id ELSE ids.instance_id]

(* What add_schemas and register_schema require of a document.             *)
DeclaredTypeId(content) ==
    LET v == content["$id"] IN
    IF HasSchemaField(content) /\ v # None /\ v.uri /\ IsTypeId(v.text) THEN v.text ELSE None

(* The identifiers in a document, by where they stand.                     *)
GtsRefs(content) ==
    {[under |-> f, id |-> content[f].text] :
        f \in {f \in Fields : content[f] # None /\ ~content[f].uri /\ IsId(content[f].text)}}

-----------------------------------------------------------------------------
(* GtsFileReader.  What a walk meets: a directory or file, the directories *)
(* on the way to it, the file it is in truth, the documents in it and      *)
(* where each stands: at the file's path, or at the path and its index.    *)

Excluded == {"node_modules", "dist", "build"}

Met(kind, way, file, contents, places) ==
    [kind |-> kind, way |-> way, file |-> file, contents |-> contents, places |-> places]

(* collect_files: each file once, whatever leads to it.                    *)
CollectFiles(walk) ==
    LET step(acc, met) ==
            IF \/ met.kind = "dir" /\ met.way # <<>> /\ Last(met.way) \in Excluded
               \/ met.kind # "file"
               \/ \E k \in DOMAIN acc : acc[k].file = met.file
            THEN acc ELSE Append(acc, met)
    IN  FoldLeft(step, <<>>, walk)

(* process_file: the items of a list apart; what has no id is left out.    *)
ProcessFile(met) ==
    SelectSeq([k \in DOMAIN met.contents |-> Entity(met.contents[k], met.places[k])],
              LAMBDA entity : entity.effective_id # None)

Populated(entities) ==
    LET bind(R, entity) ==
            [id \in DOMAIN R \cup {entity.effective_id} |->
                IF id = entity.effective_id THEN entity ELSE R[id]]
    IN  FoldLeft(bind, <<>>, entities)

-----------------------------------------------------------------------------
(* build_schema_graph: the nodes in the order they are made, each below    *)
(* the one that leads to it.                                               *)

Edges(R, id) ==
    SetToSeq({[under |-> id, by |-> r.under, id |-> r.id] :
                r \in {r \in GtsRefs(R[id].content) : r.id # id}})
      \o (IF R[id].type_id = None THEN <<>>
          ELSE <<[under |-> id, by |-> "type_id", id |-> R[id].type_id]>>)

(* Slip: only what is above a node counts as seen.                         *)
RECURSIVE NodesByPath(_, _, _)
NodesByPath(R, edge, acc) ==
    LET again == edge.id \in acc.seen
        opened == [seen |-> acc.seen \cup {edge.id},
                   nodes |-> Append(acc.nodes, [edge |-> edge, expanded |-> ~again])]
        step(a, next) == [a EXCEPT !.nodes = NodesByPath(R, next, a).nodes]
    IN  IF again \/ edge.id \notin DOMAIN R THEN opened
        ELSE [FoldLeft(step, opened, Edges(R, edge.id)) EXCEPT !.seen = acc.seen]

RECURSIVE Gts2Node(_, _, _)
Gts2Node(R, edge, acc) ==
    LET again == edge.id \in acc.seen
        opened == [seen |-> acc.seen \cup {edge.id},
                   nodes |-> Append(acc.nodes, [edge |-> edge, expanded |-> ~again])]
        step(a, next) == Gts2Node(R, next, a)
    IN  IF again \/ edge.id \notin DOMAIN R THEN opened
        ELSE FoldLeft(step, opened, Edges(R, edge.id))

SchemaGraph(R, id) ==
    Gts2Node(R, [under |-> None, by |-> None, id |-> id], [seen |-> {}, nodes |-> <<>>]).nodes

-----------------------------------------------------------------------------
(* query: the entities the expression selects, in the order of the store,  *)
(* which is arbitrary, up to a limit.                                      *)

Star == [mark |-> "any"]

(* A filter compares the text of a member, * asks for its presence.        *)
MatchesFilters(content, filters) ==
    \A f \in DOMAIN filters :
        /\ content[f] # None
        /\ filters[f] \in {Star, content[f]}

(* Slip: the limit counts entities looked at.                              *)
QueryLookingAt(R, order, pattern, filters, limit) ==
    SelectSeq(SubSeq(order, 1, limit),
              LAMBDA id : /\ R[id].gts_id # None /\ R[id].gts_id \in Selects[pattern]
                          /\ MatchesFilters(R[id].content, filters))

Query(R, order, pattern, filters, limit) ==
    LET step(acc, id) ==
            IF /\ Len(acc) < limit
               /\ R[id].gts_id # None /\ R[id].gts_id \in Selects[pattern]
               /\ MatchesFilters(R[id].content, filters)
            THEN Append(acc, id) ELSE acc
    IN  FoldLeft(step, <<>>, order)

-----------------------------------------------------------------------------
(* JsonPathResolver.  A segment is a name, or a number in brackets or not. *)

Key(n) == [name |-> n]
Index(i, bracketed) == [index |-> i, bracketed |-> bracketed]

ChildAt(v, segment) ==
    CASE v # None /\ IsArr(v) ->
            IF "index" \in DOMAIN segment /\ segment.index < Len(v.items)
            THEN v.items[segment.index + 1] ELSE None
      [] v # None /\ IsObj(v) ->
            IF "name" \in DOMAIN segment THEN v.props[segment.name] ELSE None
      [] OTHER -> None

(* The value at a path, or None for a failure.                             *)
Resolve(v, path) == FoldLeft(ChildAt, v, path)

(* Slip: arrays are listed, what is in them is not.                        *)
RECURSIVE ListAvailableFlat(_)
ListAvailableFlat(v) ==
    CASE IsObj(v) ->
            UNION {{<<Key(n)>>} \cup {<<Key(n)>> \o p : p \in ListAvailableFlat(v.props[n])} :
                      n \in NamesIn(v)}
      [] IsArr(v) -> {<<Index(i - 1, TRUE)>> : i \in DOMAIN v.items}
      [] OTHER -> {}

RECURSIVE ListAvailable(_)
ListAvailable(v) ==
    CASE IsObj(v) ->
            UNION {{<<Key(n)>>} \cup {<<Key(n)>> \o p : p \in ListAvailable(v.props[n])} :
                      n \in NamesIn(v)}
      [] IsArr(v) ->
            UNION {{<<Index(i - 1, TRUE)>>}
                     \cup {<<Index(i - 1, TRUE)>> \o p : p \in ListAvailable(v.items[i])} :
                      i \in DOMAIN v.items}
      [] OTHER -> {}
=============================================================================
