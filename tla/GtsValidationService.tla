----------------------- MODULE GtsValidationService -----------------------
(***************************************************************************)
(* What the validator promises its callers: every top-level validation     *)
(* that returns gives the answer the definition of validity prescribes for *)
(* the registry it ran against.  No cache, no search order, no recursion.  *)
(***************************************************************************)
EXTENDS GtsValidity

CONSTANTS Registries, Requests, MaxCalls

VARIABLES by_id, request, outcome, calls

vars == <<by_id, request, outcome, calls>>

Init ==
    /\ by_id \in Registries
    /\ request \in Requests
    /\ outcome = "idle"
    /\ calls = 0

Begin(req) ==
    /\ outcome # "running"
    /\ calls < MaxCalls
    /\ calls' = calls + 1
    /\ request' = req
    /\ outcome' = "running"
    /\ UNCHANGED by_id

Answer ==
    /\ outcome = "running"
    /\ outcome' = IF Holds(by_id, request) THEN "accepted" ELSE "rejected"
    /\ UNCHANGED <<by_id, request, calls>>

(* The call panics: the caller gets no answer. *)
Panic ==
    /\ outcome = "running"
    /\ outcome' = "idle"
    /\ UNCHANGED <<by_id, request, calls>>

Change ==
    /\ outcome # "running"
    /\ by_id' \in Registries
    /\ outcome' = "idle"
    /\ UNCHANGED <<request, calls>>

Next ==
    \/ \E req \in Requests : Begin(req)
    \/ Answer \/ Panic \/ Change

Spec == Init /\ [][Next]_vars

FairSpec == Spec /\ WF_vars(Answer)
===========================================================================
