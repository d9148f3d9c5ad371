------------------------------ MODULE MCStore ------------------------------
(***************************************************************************)
(* The calls that change the registry, over a base type, a type derived    *)
(* from it, a type that names the derived one and may be named by it, and  *)
(* an instance; with documents that fail, conflict, resubmit and arrive in *)
(* any order.                                                              *)
(***************************************************************************)
EXTENDS GtsStore

CONSTANTS base, leaf, peer, item

MCTypeIds == {base, leaf, peer}
MCInstanceIds == {item}
MCBase == [t \in MCTypeIds |-> IF t = leaf THEN base ELSE NoType]
MCAncestors == [t \in MCTypeIds |-> IF t = leaf THEN {base} ELSE {}]

Plain ==
    [is_schema |-> TRUE, fault |-> "none", dialect |-> "draft-07",
     operands |-> <<>>, refs |-> {}, candidates |-> {}, required |-> {},
     forbidden |-> {}, conforms |-> TRUE, is_abstract |-> FALSE,
     is_final |-> FALSE, type |-> NoType]

Good(t, doc) == [id |-> t, doc |-> doc, canonical |-> TRUE, defect |-> "none"]

Names(t) == [Plain EXCEPT !.operands = <<{t}>>]

BaseDoc   == Good(base, Plain)
BaseFinal == Good(base, [Plain EXCEPT !.is_final = TRUE])
BaseBad   == Good(base, [Plain EXCEPT !.fault = "late"])
LeafDoc   == Good(leaf, Plain)
LeafPeer  == Good(leaf, Names(peer))
PeerLeaf  == Good(peer, Names(leaf))
PeerBad   == Good(peer, [Names(leaf) EXCEPT !.fault = "traits"])
PeerRefs  == [Good(peer, [Plain EXCEPT !.fault = "early"]) EXCEPT !.defect = "refs"]
PeerLoose == [Good(peer, Plain) EXCEPT !.canonical = FALSE]
Anonymous == [Good(NoId, [Plain EXCEPT !.fault = "early"])
                 EXCEPT !.defect = "id", !.canonical = FALSE]
Item      == [Good(item, [Plain EXCEPT !.is_schema = FALSE, !.type = leaf,
                                       !.candidates = {peer}, !.required = {peer}])
                 EXCEPT !.canonical = FALSE]

One(kind, validate, subs, modes) ==
    {[kind |-> kind, items |-> <<sub>>, validate |-> validate, mode |-> mode] :
        sub \in subs, mode \in modes}

Many(kind, validate, arrays, modes) ==
    {[kind |-> kind, items |-> items, validate |-> validate, mode |-> mode] :
        items \in arrays, mode \in modes}

Arrays ==
    {<<LeafDoc, BaseDoc>>, <<LeafDoc, BaseFinal>>, <<LeafDoc, BaseBad, BaseDoc>>,
     <<LeafPeer, PeerLeaf, BaseDoc>>, <<LeafPeer, BaseDoc, PeerBad, LeafPeer>>,
     <<BaseDoc, LeafPeer, PeerLeaf, BaseFinal>>, <<PeerRefs, BaseDoc, PeerLoose>>}

MCCalls ==
    One("register", FALSE, {BaseBad, Anonymous}, {"any-valid"})
    \cup One("entity", FALSE, {LeafDoc, PeerRefs}, {"any-valid"})
    \cup One("entity", TRUE, {BaseFinal, LeafPeer, PeerBad, Item, Anonymous}, {"any-valid"})
    \cup One("entity", TRUE, {PeerLeaf}, {"any-present"})
    \cup Many("entities", FALSE, {<<Item, PeerBad>>}, {"none"})
    \cup Many("schemas", TRUE, Arrays, {"any-valid"})
    \cup Many("schemas", TRUE, {<<PeerLeaf, LeafPeer>>}, {"any-present"})
    \cup Many("schemas", FALSE, {<<PeerLeaf, PeerLoose>>}, {"none"})
    \cup One("transient", TRUE, {BaseBad, LeafPeer, PeerLeaf, Anonymous}, {"any-valid"})

File(sub) == [id |-> sub.id, doc |-> sub.doc]

MCDisks == {{File(BaseDoc), File(BaseFinal), File(LeafDoc)}}
============================================================================
