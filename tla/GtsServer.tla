----------------------------- MODULE GtsServer ------------------------------
(***************************************************************************)
(* The HTTP server: handlers on several threads over one GtsOps behind a   *)
(* mutex (src/gts-cli/src/server.rs).                                      *)
(*                                                                         *)
(* A handler has no await once it runs: it takes the lock, makes its call  *)
(* and answers.  A panic inside it unwinds through the guard, which        *)
(* poisons the mutex, and through the connection; from then on lock_ops    *)
(* refuses every request.  A connection may close at any time: a request   *)
(* whose handler did not start is dropped, a running handler goes on and   *)
(* nobody hears its answer.  Nothing is written back to disk: started      *)
(* again, the server loads what it finds there.                            *)
(***************************************************************************)
EXTENDS GtsStore, GtsRequests

VARIABLES
    request,    \* what each client asked last
    reply,      \* and the answer, once there is one
    holder,     \* the client whose handler holds the lock over several steps
    poisoned,   \* a handler panicked with the lock
    unheard,    \* clients that left while their handler may yet run
    accepted    \* history: calls accepted in full since the start

serverVars == <<request, reply, holder, poisoned, unheard, accepted>>
allVars == <<vars, serverVars>>

Waiting(c) == request[c] # None /\ reply[c] = None
Free == holder = None /\ ~poisoned

(* The handler ends; if its client left, the answer goes nowhere.          *)
Answer(c, answer) ==
    /\ reply' = [reply EXCEPT ![c] = IF c \in unheard THEN Lost ELSE answer]
    /\ unheard' = unheard \ {c}

---------------------------------------------------------------------------
(* GtsOps::new loads what the reader finds; nothing is asked yet.          *)
ServerInit ==
    /\ \E disk \in Disks : \E R \in Loads(disk) : Opened(R)
    /\ request = [c \in Clients |-> None] /\ reply = [c \in Clients |-> None]
    /\ holder = None /\ poisoned = FALSE /\ unheard = {} /\ accepted = {}

Send(c) ==
    /\ ~Waiting(c)
    /\ \E r \in Requests : request' = [request EXCEPT ![c] = r]
    /\ reply' = [reply EXCEPT ![c] = None]
    /\ UNCHANGED <<vars, holder, poisoned, unheard, accepted>>

(* The connection closes: before the handler started, or after.            *)
Disconnect(c) ==
    /\ Waiting(c) /\ c \notin unheard
    /\ \/ /\ holder # c
          /\ reply' = [reply EXCEPT ![c] = Lost]
          /\ UNCHANGED unheard
       \/ /\ unheard' = unheard \cup {c}
          /\ UNCHANGED reply
    /\ UNCHANGED <<vars, request, holder, poisoned, accepted>>

---------------------------------------------------------------------------
(* Handlers.                                                               *)

(* GtsRefValidationQuery::resolve fails: the lock is not asked for.        *)
RefuseMode(c) ==
    /\ Waiting(c) /\ request[c].kind = "malformed"
    /\ Answer(c, Unprocessable)
    /\ UNCHANGED <<vars, request, holder, poisoned, accepted>>

(* lock_ops on a poisoned mutex.                                           *)
RefuseCorrupted(c) ==
    /\ Waiting(c) /\ request[c].kind # "malformed"
    /\ poisoned
    /\ Answer(c, Corrupted)
    /\ UNCHANGED <<vars, request, holder, poisoned, accepted>>

(* add_entity, add_entities, add_schemas, validate_json: the call begins.  *)
Acquire(c) ==
    /\ Waiting(c) /\ Changes(request[c])
    /\ Free
    /\ Begin(request[c].call)
    /\ holder' = c
    /\ UNCHANGED <<request, reply, poisoned, unheard, accepted>>

(* One step of the call; with the last one the handler answers.            *)
Work ==
    /\ holder # None
    /\ Step
    /\ IF busy' THEN UNCHANGED <<reply, holder, unheard, accepted>>
       ELSE /\ Answer(holder, Response(call, results'))
            /\ holder' = None
            /\ accepted' = IF AllOk(results') THEN accepted \cup {call} ELSE accepted
    /\ UNCHANGED <<request, poisoned>>

(* Slip: a read does not ask for the lock.                                 *)
ReadUnlocked(c) ==
    /\ Waiting(c) /\ ~Changes(request[c]) /\ request[c].kind # "malformed"
    /\ ~poisoned
    /\ Answer(c, Reading(by_id, request[c]))
    /\ UNCHANGED <<vars, request, holder, poisoned, accepted>>

(* A request that only reads holds the lock for one step.                  *)
Read(c) ==
    /\ Waiting(c) /\ ~Changes(request[c]) /\ request[c].kind # "malformed"
    /\ Free
    /\ Answer(c, Reading(by_id, request[c]))
    /\ UNCHANGED <<vars, request, holder, poisoned, accepted>>

(* Slip: the lock stays taken.                                             *)
CrashLocked ==
    /\ holder # None
    /\ Panic
    /\ reply' = [reply EXCEPT ![holder] = Lost]
    /\ unheard' = unheard \ {holder}
    /\ UNCHANGED <<request, holder, poisoned, accepted>>

(* A validation panics in the middle of a call...                          *)
Crash ==
    /\ holder # None
    /\ Panic
    /\ reply' = [reply EXCEPT ![holder] = Lost]
    /\ unheard' = unheard \ {holder}
    /\ holder' = None /\ poisoned' = TRUE
    /\ UNCHANGED <<request, accepted>>

(* ... or under a request that only reads.                                 *)
CrashReading(c) ==
    /\ Waiting(c) /\ request[c].kind = "validate"
    /\ Free
    /\ reply' = [reply EXCEPT ![c] = Lost]
    /\ unheard' = unheard \ {c}
    /\ poisoned' = TRUE
    /\ before' = by_id
    /\ UNCHANGED <<by_id, call, busy, results, staged, scan, shrunk, displaced, vetted>>
    /\ UNCHANGED <<request, holder, accepted>>

---------------------------------------------------------------------------
(* The process ends, in the middle of calls as may be, and is started.     *)
Restart ==
    /\ by_id' \in UNION {Loads(disk) : disk \in Disks}
    /\ before' = by_id'
    /\ busy' = FALSE
    /\ results' = <<>> /\ staged' = <<>> /\ scan' = 1 /\ shrunk' = FALSE
    /\ displaced' = <<>> /\ vetted' = {}
    /\ reply' = [c \in Clients |-> IF Waiting(c) THEN Lost ELSE reply[c]]
    /\ holder' = None /\ poisoned' = FALSE /\ unheard' = {} /\ accepted' = {}
    /\ UNCHANGED <<call, request>>

Serve ==
    \/ Work
    \/ \E c \in Clients : RefuseMode(c) \/ RefuseCorrupted(c) \/ Acquire(c) \/ Read(c)

ServerNext ==
    \/ \E c \in Clients : Send(c) \/ Disconnect(c) \/ CrashReading(c)
    \/ Serve \/ Crash
    \/ Restart

(* A handler that runs goes on running, and a free lock goes to one of     *)
(* those that wait for it; std::sync::Mutex does not say to whom.          *)
ServerSpec == ServerInit /\ [][ServerNext]_allVars /\ WF_allVars(Serve)
---------------------------------------------------------------------------
(* Properties.                                                             *)

(* Handlers on different threads are atomic to each other: whatever is     *)
(* answered is true of a registry made of whole calls, and after a panic   *)
(* the half-made one is never seen (lock_ops).                             *)
Service == INSTANCE GtsService WITH
    committed <- IF busy \/ poisoned THEN before ELSE by_id,
    corrupted <- poisoned

ServiceSpec == Service!Spec

(* When no more requests come, everyone who waits is answered or loses the *)
(* connection, whoever panicked and left before.                           *)
EveryoneAnswered ==
    <>[][\A c \in Clients : ~Send(c)]_allVars
        => \A c \in Clients : Waiting(c) ~> ~Waiting(c)

(* A client that got no answer may repeat its request: what was accepted   *)
(* once, by whomever it was sent, is accepted again, until the server is   *)
(* started anew.                                                           *)
RepeatAccepted ==
    [][\A c \in Clients :
          (/\ Waiting(c) /\ Changes(request[c]) /\ request[c].call \in accepted
           /\ reply'[c] \notin {None, Lost, Corrupted})
          => AllOk(reply'[c].body)]_allVars
=============================================================================
