------------------------------ MODULE MCServer ------------------------------
(***************************************************************************)
(* Two connections and a handful of requests over the documents of         *)
(* MCStore: a batch that is valid as a whole only, an entity it conflicts  *)
(* with, an invalid transient entity, and reads.                           *)
(***************************************************************************)
EXTENDS GtsServer, MCStore

CONSTANTS c1, c2

ServerCalls ==
    Many("schemas", TRUE, {<<LeafPeer, BaseDoc, PeerLeaf>>}, {"any-valid"})
    \cup One("entity", TRUE, {BaseFinal}, {"any-valid"})
    \cup One("transient", TRUE, {BaseBad}, {"any-valid"})

MCServerRequests ==
    [kind : {"change"}, call : ServerCalls]
        \cup [kind : {"list", "malformed"}]
        \cup [kind : {"validate"}, id : {item}, mode : {"any-valid"}]

(* What the server finds on disk: an instance whose type comes later.       *)
MCFiles == {{File(Item)}}
=============================================================================
