----------------------------- MODULE MCResolver -----------------------------
(***************************************************************************)
(* Every way three positions of a host and two of a registered document    *)
(* may refer to each other, to the host as a registered document, or to    *)
(* nothing.  The host is the registered document itself (is_compatible     *)
(* resolves it in place), a copy of it, or not registered; it is resolved  *)
(* whole, or its fragment h1 is (a document's trait schema is one).  And   *)
(* two recursive documents that partial resolution changes.                *)
(***************************************************************************)
EXTENDS GtsSchemaResolver

CONSTANTS h0, h1, h2, h3, f0, f1, c0, c1, c2, host, foreign

HostNodes == {h0, h1, h2}
CopyNodes == {c0, c1, c2}
MCNodes == HostNodes \cup {f0, f1} \cup CopyNodes

Copied == (h0 :> c0) @@ (h1 :> c1) @@ (h2 :> c2)
Original == (c0 :> h0) @@ (c1 :> h1) @@ (c2 :> h2)

Pointer(n) == [kind |-> "local", id |-> Nowhere, pointer |-> n]
External(t, n) == [kind |-> "gts", id |-> t, pointer |-> n]

HostRefs ==
    {Nowhere, External(foreign, "whole"), External(foreign, f1), External(host, "whole")}
        \cup {Pointer(n) : n \in HostNodes}

(* f1 refers to its own document or to the host, from its body or from the *)
(* trait values that inlining omits.                                       *)
FarEnds ==
    [ref : {Nowhere, Pointer(f0), External(host, "whole")}, place : {"key"}]
        \cup [ref : {External(host, "whole")}, place : {"traits"}]

(* h1 and h2 beside each other, or h2 below h1. *)
Shapes ==
    {[n \in HostNodes |-> IF n = h0 THEN <<h1, h2>> ELSE <<>>],
     [n \in HostNodes |-> IF n = h0 THEN <<h1>> ELSE IF n = h1 THEN <<h2>> ELSE <<>>]}

Place(n) == IF n \in {h2, c2} THEN "allOf" ELSE "key"

(* A document of its own: positions ref and subschemas below, root first. *)
Holding(root, ref, below, n) ==
    [root |-> root, ref |-> ref, subs |-> below, place |-> Place(n),
     alone |-> ref # Nowhere /\ below = <<>>]

CopyRef(ref) ==
    IF ref # Nowhere /\ ref.kind = "local" THEN Pointer(Copied[ref.pointer]) ELSE ref

Positions(ref, shape, far) ==
    [n \in HostNodes |-> Holding(h0, ref[n], shape[n], n)]
    @@ [n \in CopyNodes |->
          LET m == Original[n]
          IN Holding(c0, CopyRef(ref[m]), [k \in DOMAIN shape[m] |-> Copied[shape[m][k]]], n)]
    @@ (f0 :> Holding(f0, Nowhere, <<f1>>, f0))
    @@ (f1 :> [Holding(f0, far.ref, <<>>, f1) EXCEPT !.place = far.place])

Registry(root) == (host :> root) @@ (foreign :> f0)

Parts(fragment, uri, refs, ends, registries, dialects) ==
    {[node |-> Positions(ref, shape, far), stored |-> registry, dialect |-> dialect,
      fragment |-> fragment, uri |-> (h0 :> uri) @@ (c0 :> host) @@ (f0 :> foreign)] :
        ref \in refs, shape \in Shapes, far \in ends,
        registry \in registries, dialect \in dialects}

Documents(refs, ends, registries, dialects) == Parts(h0, host, refs, ends, registries, dialects)

(* h1 is the document's trait schema. *)
Traited(doc) ==
    [doc EXCEPT !.node = [n \in DOMAIN @ |->
        IF n \in {h1, c1} THEN [@[n] EXCEPT !.place = "traits"] ELSE @[n]]]

(* Resolved in place, a document may hide recursion through its own URI    *)
(* in what is dropped: beside a reference in Draft-07, in a trait schema.  *)
MCCases ==
    LET refs == [HostNodes -> HostRefs] IN
    Documents(refs, {far \in FarEnds : far.place = "key" /\ ~IsLocal(far.ref)}, {Registry(h0)}, {"later"})
    \cup Documents(refs, FarEnds, {Registry(c0)}, {"later"})
    \cup Documents(refs, {far \in FarEnds : far.ref = External(host, "whole")},
                   {Registry(c0)}, {"draft-07"})
    \cup Documents(refs, {[ref |-> Nowhere, place |-> "key"]}, {[t \in {} |-> f0]},
                   {"draft-07", "later"})
    \cup Parts(h1, host, refs, {far \in FarEnds : far.place = "key"}, {Registry(c0)}, {"later"})
    \cup Parts(h1, host, refs, {[ref |-> External(host, "whole"), place |-> "key"]},
               {Registry(h0)}, {"later"})
    \cup Parts(h1, host, refs, {[ref |-> Nowhere, place |-> "key"]},
               {Registry(c0), [t \in {} |-> f0]}, {"draft-07"})
    \cup Parts(h1, Nowhere, refs, {[ref |-> Pointer(f0), place |-> "key"]},
               {foreign :> f0}, {"later"})
    \cup {Traited(doc) : doc \in Documents(refs, {[ref |-> Nowhere, place |-> "key"]},
                                           {Registry(c0)}, {"later"})}

-----------------------------------------------------------------------------
Placed(root, ref, place, below) ==
    [Holding(root, ref, below, root) EXCEPT !.place = place]

Against(nodes) ==
    {[node |-> nodes @@ (f0 :> Placed(f0, Nowhere, "key", <<>>)),
      stored |-> (foreign :> f0), dialect |-> "later",
      fragment |-> h0, uri |-> (h0 :> Nowhere) @@ (f0 :> foreign)]}

(* {$ref: gts://foreign, allOf: [{properties: {p: {$ref: #/allOf/0}}}]}    *)
Moved ==
    Against((h0 :> Placed(h0, External(foreign, "whole"), "key", <<h1>>))
            @@ (h1 :> Placed(h0, Nowhere, "allOf", <<h2>>))
            @@ (h2 :> Placed(h0, Pointer(h1), "key", <<>>)))

(* {properties: {p: {$ref: #, allOf: [{$ref: gts://foreign}]},             *)
(*               q: {$ref: #}}}                                            *)
Left ==
    Against((h0 :> Placed(h0, Nowhere, "key", <<h1, h3>>))
            @@ (h1 :> Placed(h0, Pointer(h0), "key", <<h2>>))
            @@ (h2 :> Placed(h0, External(foreign, "whole"), "allOf", <<>>))
            @@ (h3 :> Placed(h0, Pointer(h0), "key", <<>>)))
=============================================================================
