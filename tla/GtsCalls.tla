------------------------------ MODULE GtsCalls ------------------------------
(***************************************************************************)
(* The calls that change a registry, the documents they submit, and the    *)
(* registrations and checks they are made of (ops.rs, store.rs).           *)
(***************************************************************************)
EXTENDS GtsValidity

CONSTANTS
    NoId,      \* "the document carries no usable id"
    Calls,     \* the calls clients may make
    Disks      \* what a reload may find: each a set of [id, doc] records

(***************************************************************************)
(* A submitted document.  defect is the first check that fails at ingest:  *)
(* no id, misplaced or malformed GTS keywords, or malformed references.    *)
(* canonical: a schema whose top-level $id is a gts:// URI naming id.      *)
(***************************************************************************)
Submission ==
    [id : Ids \cup {NoId}, doc : Document, canonical : BOOLEAN,
     defect : {"none", "id", "keywords", "refs"}]

IsSubmission(sub) ==
    /\ sub \in Submission
    /\ IsDocument(sub.doc)
    /\ sub.id = NoId <=> sub.defect = "id"
    /\ sub.doc.is_schema /\ sub.defect # "id" => sub.id \in TypeIds
    /\ sub.canonical => sub.doc.is_schema /\ sub.defect # "id"
    /\ sub.doc.is_schema /\ sub.defect # "none" => sub.doc.fault = "early"
    /\ ~sub.doc.is_schema => sub.defect \in {"none", "id"}

Kinds == {"register", "entity", "entities", "schemas", "transient"}

(***************************************************************************)
(* An id and a doc stand for one content, of which defect and canonical    *)
(* are read: of one call's items, those that agree in both are the same.   *)
(***************************************************************************)
Call == [kind : Kinds, items : Seq(Submission), validate : BOOLEAN, mode : Modes]

ASSUME RegistryAssumption ==
    /\ NoId \notin Ids
    /\ Calls # {}
    /\ \A call \in Calls :
          /\ call \in Call
          /\ \A k \in DOMAIN call.items : IsSubmission(call.items[k])
          /\ \A j, k \in DOMAIN call.items :
                /\ call.items[j].id = call.items[k].id
                /\ call.items[j].doc = call.items[k].doc
                => call.items[j] = call.items[k]
          /\ call.kind \in {"register", "entity", "transient"} => Len(call.items) = 1
          /\ call.kind \in {"register", "entities"} => ~call.validate
          /\ call.kind = "transient" =>
                call.items[1].doc.is_schema /\ call.validate /\ call.mode = "any-valid"
    /\ \A disk \in Disks : \A file \in disk : file.id \in Ids /\ IsDocument(file.doc)

---------------------------------------------------------------------------
(* Registries. *)

Bound(R, id) == id \in DOMAIN R

Bind(R, id, doc) == [i \in DOMAIN R \cup {id} |-> IF i = id THEN doc ELSE R[i]]

Unbind(R, id) == [i \in DOMAIN R \ {id} |-> R[i]]

(* Slip: an equal document counts as another. *)
ConflictsById(R, sub) == Bound(R, sub.id)

(* Ids are immutable: an id bound to other content cannot be rebound. *)
Conflicts(R, sub) == Bound(R, sub.id) /\ R[sub.id] # sub.doc

Subject(sub, mode) ==
    [op |-> IF sub.doc.is_schema THEN "schema" ELSE "instance", id |-> sub.id, mode |-> mode]

(* The check that follows the registration of a document: full validation, *)
(* or for a schema its reference syntax alone.                             *)
Passes(R, sub, validate, mode) ==
    IF validate THEN Holds(R, Subject(sub, mode))
    ELSE sub.doc.is_schema => sub.defect # "refs"

(* The registries reading the files in some order may leave. *)
Loads(disk) ==
    {R \in [{file.id : file \in disk} -> {file.doc : file \in disk}] :
        \A id \in DOMAIN R : [id |-> id, doc |-> R[id]] \in disk}
=============================================================================
