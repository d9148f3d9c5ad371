---------------------------- MODULE GtsRegistry ----------------------------
(***************************************************************************)
(* What the registry promises its clients: a map from ids to documents     *)
(* that each call changes in one step, by everything the call commits or   *)
(* by nothing.  A validated batch commits the largest part of itself that  *)
(* stands on its own, whatever the order of its entries.                   *)
(***************************************************************************)
EXTENDS GtsCalls

(* The effect of a call. *)

(* What a document must meet before it is registered or staged. *)
Enters(call, sub) ==
    /\ sub.defect # "id"
    /\ call.kind # "register" => sub.defect # "keywords"
    /\ call.kind = "schemas" => sub.canonical
    /\ call.kind = "register" \/ (call.kind = "entity" /\ call.validate) \/ sub.defect # "refs"

(* The new bindings of a call: of several for one id the first. *)
Candidates(R, call) ==
    {k \in DOMAIN call.items :
        /\ Enters(call, call.items[k])
        /\ ~Bound(R, call.items[k].id)
        /\ \A j \in 1 .. k - 1 :
              ~(Enters(call, call.items[j]) /\ call.items[j].id = call.items[k].id)}

Added(R, call, S) ==
    [id \in DOMAIN R \cup {call.items[k].id : k \in S} |->
        IF id \in DOMAIN R THEN R[id]
        ELSE call.items[CHOOSE k \in S : call.items[k].id = id].doc]

(* Those of S that hold once exactly S is added. *)
Standing(R, call, S) ==
    \A k \in S : Passes(Added(R, call, S), call.items[k], TRUE, call.mode)

Effect(R, call) ==
    LET new == Candidates(R, call) IN
    IF call.kind = "transient" THEN R
    ELSE IF call.validate
    THEN Added(R, call, UNION {S \in SUBSET new : Standing(R, call, S)})
    ELSE Added(R, call, new)

(* A call that panics leaves any part of what it had registered. *)
Torn(R, call) ==
    IF call.kind = "transient" THEN {R}
    ELSE {Added(R, call, S) : S \in SUBSET Candidates(R, call)}

---------------------------------------------------------------------------
VARIABLES
    committed,   \* the registry as callers find it
    call, busy,  \* the call being served, or the last one
    answered     \* how many of its items were answered: none if it panicked

vars == <<committed, call, busy, answered>>

Init ==
    /\ committed = <<>>
    /\ call \in Calls
    /\ busy = FALSE
    /\ answered = 0

Begin(c) ==
    /\ ~busy
    /\ call' = c /\ busy' = TRUE /\ answered' = 0
    /\ UNCHANGED committed

Commit ==
    /\ busy
    /\ committed' = Effect(committed, call)
    /\ busy' = FALSE /\ answered' = Len(call.items)
    /\ UNCHANGED call

(* A validation panics. *)
Tear ==
    /\ busy /\ call.validate
    /\ committed' \in Torn(committed, call)
    /\ busy' = FALSE /\ answered' = 0
    /\ UNCHANGED call

Reload ==
    /\ ~busy
    /\ \E disk \in Disks : committed' \in Loads(disk)
    /\ answered' = 0
    /\ UNCHANGED <<call, busy>>

Next == (\E c \in Calls : Begin(c)) \/ Commit \/ Tear \/ Reload

Spec == Init /\ [][Next]_vars
===========================================================================
