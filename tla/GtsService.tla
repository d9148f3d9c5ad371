----------------------------- MODULE GtsService -----------------------------
(***************************************************************************)
(* What the server promises its clients: each request takes effect in one  *)
(* step between being sent and being answered, on a registry that all of   *)
(* them share.  A reply that does not arrive says nothing; once a request  *)
(* failed for good the registry is closed and every answer says so, until  *)
(* the server is started anew.                                             *)
(***************************************************************************)
EXTENDS GtsRequests

VARIABLES
    committed,   \* the registry
    corrupted,   \* a request failed for good
    request,     \* what each client asked last
    reply        \* and the answer, once there is one

Registry == INSTANCE GtsRegistry WITH
    call <- None, busy <- FALSE, answered <- 0

vars == <<committed, corrupted, request, reply>>

Waiting(c) == request[c] # None /\ reply[c] = None

Init ==
    /\ \E disk \in Disks : committed \in Loads(disk)
    /\ corrupted = FALSE
    /\ request = [c \in Clients |-> None]
    /\ reply = [c \in Clients |-> None]

Send(c) ==
    /\ ~Waiting(c)
    /\ \E r \in Requests : request' = [request EXCEPT ![c] = r]
    /\ reply' = [reply EXCEPT ![c] = None]
    /\ UNCHANGED <<committed, corrupted>>

Answered(c, answer) == reply' = [reply EXCEPT ![c] = answer]

(* The answers a call may get that leaves the registry R: an item is       *)
(* accepted exactly if it may enter, is stored and, if that was asked,     *)
(* valid together with all the call commits.                               *)
Honest(R, call, answers) ==
    LET stored(sub) == Bound(R, sub.id) /\ R[sub.id] = sub.doc
        accepted(sub) ==
            /\ Registry!Enters(call, sub)
            /\ stored(sub)
            /\ call.validate => Passes(R, sub, TRUE, call.mode)
    IN  call.kind = "transient" \/
        \A k \in DOMAIN answers :
            /\ answers[k] = "ok" <=> accepted(call.items[k])
            /\ answers[k] = "conflict" => ~stored(call.items[k])

Verdicts(call) == [DOMAIN call.items -> {"ok", "rejected", "conflict"}]

Change(c) ==
    LET call == request[c].call IN
    /\ Waiting(c) /\ Changes(request[c]) /\ ~corrupted
    /\ UNCHANGED <<corrupted, request>>
    /\ \/ Answered(c, Lost) /\ committed' = Registry!Effect(committed, call)
       \/ \E answers \in Verdicts(call) :
             /\ Answered(c, Response(call, answers))
             /\ committed' = Registry!Effect(committed, call)
             /\ Honest(committed', call, answers)

Read(c) ==
    /\ Waiting(c) /\ ~Changes(request[c]) /\ request[c].kind # "malformed" /\ ~corrupted
    /\ Answered(c, Reading(committed, request[c])) \/ Answered(c, Lost)
    /\ UNCHANGED <<committed, corrupted, request>>

Refuse(c) ==
    /\ Waiting(c)
    /\ \/ request[c].kind = "malformed" /\ Answered(c, Unprocessable)
       \/ request[c].kind # "malformed" /\ corrupted /\ Answered(c, Corrupted)
    /\ UNCHANGED <<committed, corrupted, request>>

Lose(c) ==
    /\ Waiting(c) /\ Answered(c, Lost)
    /\ UNCHANGED <<committed, corrupted, request>>

Crash(c) ==
    /\ Waiting(c) /\ Validates(request[c]) /\ ~corrupted
    /\ Answered(c, Lost)
    /\ corrupted' = TRUE
    /\ UNCHANGED <<committed, request>>

Restart ==
    /\ \E disk \in Disks : committed' \in Loads(disk)
    /\ corrupted' = FALSE
    /\ reply' = [c \in Clients |-> IF Waiting(c) THEN Lost ELSE reply[c]]
    /\ UNCHANGED request

Next ==
    \/ \E c \in Clients : Send(c) \/ Lose(c) \/ Refuse(c) \/ Crash(c) \/ Read(c) \/ Change(c)
    \/ Restart

Spec == Init /\ [][Next]_vars
=============================================================================
