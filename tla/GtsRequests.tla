---------------------------- MODULE GtsRequests -----------------------------
(***************************************************************************)
(* What clients ask of the HTTP server and what they are answered          *)
(* (src/gts-cli/src/server.rs).                                            *)
(***************************************************************************)
EXTENDS GtsCalls

CONSTANTS
    Clients,    \* connections
    Requests,   \* what they may ask
    None        \* "no request", "no reply"

(***************************************************************************)
(* A request that changes the registry or registers a transient entity     *)
(* carries a call; the others read.  A malformed one names a               *)
(* gts-ref-validation mode that does not exist.                            *)
(***************************************************************************)
Request ==
    [kind : {"change"}, call : Calls]
        \cup [kind : {"get", "validate"}, id : Ids, mode : Modes]
        \cup [kind : {"list", "malformed"}]

ASSUME ServerAssumption ==
    /\ None \notin Clients
    /\ Requests \subseteq Request
    /\ \A r \in Requests : r.kind = "change" => r.call.kind # "register"

Changes(r) == r.kind = "change"

Lost == [status |-> 0, body |-> None]              \* the connection is gone
Corrupted == [status |-> 500, body |-> None]
Unprocessable == [status |-> 422, body |-> None]

(* Every item of a call is accepted.                                       *)
AllOk(answers) == \A k \in DOMAIN answers : answers[k] = "ok"

(* add_entity turns its rejections into a status; batches carry them item  *)
(* by item, and validate_json says so in the body.                         *)
Status(call, answers) ==
    IF call.kind # "entity" \/ answers[1] = "ok" THEN 200
    ELSE IF answers[1] = "conflict" THEN 409 ELSE 422

Response(call, answers) == [status |-> Status(call, answers), body |-> answers]

(* validate_entity_with: an id that ends in `~` names a schema.            *)
Reading(R, r) ==
    [status |-> 200,
     body |-> CASE r.kind = "get" -> [id \in DOMAIN R \cap {r.id} |-> R[id]]
                [] r.kind = "list" -> DOMAIN R
                [] r.kind = "validate" ->
                     Holds(R, [op |-> IF r.id \in TypeIds THEN "schema" ELSE "instance",
                               id |-> r.id, mode |-> r.mode])]

(* What a panic can come from.                                             *)
Validates(r) == r.kind = "validate" \/ (Changes(r) /\ r.call.validate)
=============================================================================
