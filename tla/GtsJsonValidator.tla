--------------------------- MODULE GtsJsonValidator ---------------------------
(***************************************************************************)
(* The command that validates a directory of JSON files (json_validation   *)
(* .rs): read all, register what is related, validate types and then       *)
(* instances, and report every issue.                                      *)
(*                                                                         *)
(* A file is where its documents stand and what they say, or None where it *)
(* cannot be read.  A document has the fields of GtsEntities; of the rest  *)
(* counts whether $schema holds something else than a text, and whether    *)
(* the document is at fault by itself.  The identifier made of the place   *)
(* of a nameless document is that place.                                   *)
(***************************************************************************)
EXTENDS GtsEntities

Submitted(content, odd, fault) == [content |-> content, odd |-> odd, fault |-> fault]

Issue(stage, at) == [stage |-> stage, at |-> at]

(* A path is a directory or a file with JSON ("dir", "json"), another file *)
(* or nothing at all; a walk may meet one file several times.              *)
CollectJsonFiles(path) ==
    LET once(acc, file) == IF file \in ToSet(acc) THEN acc ELSE Append(acc, file)
    IN  IF path.kind \in {"dir", "json"} THEN FoldLeft(once, <<>>, path.met) ELSE <<>>

Undiscovered(path) ==
    {Issue("discovery", kind) : kind \in {path.kind} \ {"dir", "json"}}

ReadFile(file) ==
    IF file.documents = None THEN <<>>
    ELSE [k \in DOMAIN file.documents |->
            [document |-> file.documents[k], at |-> file.places[k],
             entity |-> Entity(file.documents[k].content, file.places[k])]]

Unreadable(files) ==
    {Issue("json", Head(f.places)) : f \in {f \in ToSet(files) : f.documents = None}}

ValidateJsonSchemas(read) ==
    {Issue("json-schema", r.at) : r \in {r \in ToSet(read) : r.document.odd}}

IsGtsRelated(content) ==
    \E f \in Fields : content[f] # None /\ (IsId(content[f].text) \/ content[f].text \in Prefixed)

(* None where the document cannot be registered.                           *)
RegistryKey(entity) ==
    IF entity.gts_id # None \/ (~entity.is_schema /\ entity.type_id # None)
    THEN entity.effective_id ELSE None

Related(read) == SelectSeq(read, LAMBDA r : IsGtsRelated(r.document.content))
Registrable(read) == SelectSeq(Related(read), LAMBDA r : RegistryKey(r.entity) # None)

(* Slip: what has no identifier to go by is passed over.                   *)
UnregistrableNone(read) == {}

Unregistrable(read) ==
    {Issue("registry", r.at) : r \in {r \in ToSet(Related(read)) : RegistryKey(r.entity) = None}}

(* Slip: a second document of a key takes the place of the first.          *)
RegisterReplacing(read) ==
    LET step(acc, r) ==
            LET key == RegistryKey(r.entity)
            IN  [acc EXCEPT !.store = [k \in DOMAIN @ \cup {key} |-> IF k = key THEN r ELSE @[k]]]
    IN  FoldLeft(step, [store |-> <<>>, issues |-> Unregistrable(read)], Registrable(read))

(* The first document of a key is registered, the others are duplicates.   *)
RegisterGtsEntities(read) ==
    LET step(acc, r) ==
            LET key == RegistryKey(r.entity) IN
            IF key \in DOMAIN acc.store
            THEN [acc EXCEPT !.issues = @ \cup {Issue("registry", r.at)}]
            ELSE [acc EXCEPT !.store = [k \in DOMAIN @ \cup {key} |-> IF k = key THEN r ELSE @[k]]]
    IN  FoldLeft(step, [store |-> <<>>, issues |-> Unregistrable(read)], Registrable(read))

(* What validate_schema and validate_instance answer, as far as it depends *)
(* on what is registered (GtsValidity has the whole of it).                *)
RECURSIVE SchemaHolds(_, _)
SchemaHolds(store, id) ==
    /\ id \in DOMAIN store /\ store[id].entity.is_schema /\ IsTypeId(id)
    /\ ~store[id].document.fault
    /\ ParentOf[id] # None => SchemaHolds(store, ParentOf[id])

InstanceHolds(store, key) ==
    /\ key \in DOMAIN store
    /\ ~store[key].document.fault
    /\ store[key].entity.type_id # None
    /\ SchemaHolds(store, store[key].entity.type_id)

ValidateSchemas(store) ==
    {Issue(IF ParentOf[id] = None THEN "base-type" ELSE "derived-type", store[id].at) :
        id \in {id \in DOMAIN store : store[id].entity.is_schema /\ ~SchemaHolds(store, id)}}

ValidateInstances(store, read) ==
    {Issue("instance", r.at) :
        r \in {r \in ToSet(Registrable(read)) :
                  ~r.entity.is_schema /\ ~InstanceHolds(store, RegistryKey(r.entity))}}

Report(path) ==
    LET files == CollectJsonFiles(path)
        read == FlattenSeq([k \in DOMAIN files |-> ReadFile(files[k])])
        registered == RegisterGtsEntities(read)
        issues == Undiscovered(path) \cup Unreadable(files) \cup ValidateJsonSchemas(read)
                    \cup registered.issues \cup ValidateSchemas(registered.store)
                    \cup ValidateInstances(registered.store, read)
    IN  [ok |-> issues = {}, issues |-> issues,
         gts_entities |-> Len(Registrable(read)), store |-> registered.store]
=============================================================================
