------------------------------ MODULE GtsStore ------------------------------
(***************************************************************************)
(* The registry of GtsStore (store.rs) under the calls of GtsOps (ops.rs). *)
(*                                                                         *)
(* Each call holds the store exclusively (&mut self), so calls do not      *)
(* interleave, but a call is several steps: it registers before it         *)
(* validates and undoes on rejection, stages a batch and unstages what     *)
(* fails, displaces a stored document and puts it back; and validation may *)
(* panic between any two of them, with the caller going on afterwards.     *)
(*                                                                         *)
(* A validation answers Holds of GtsValidity, which is what GtsValidation  *)
(* is shown to answer.  The store has no lazy reader: read_by_id of the    *)
(* only reader, GtsFileReader, returns None.                               *)
(***************************************************************************)
EXTENDS GtsCalls, SequencesExt

VARIABLES
    by_id,      \* the registered entities
    call,       \* the call being served, or the last one served
    busy,       \* whether it still runs
    results,    \* its answers so far: "ok", "conflict" or "rejected" by item
    staged,     \* entries registered by the call that await validation
    scan,       \* the staged entry to validate next
    shrunk,     \* an entry was unstaged in the running pass
    displaced,  \* what the transient entity took the place of
    before,     \* history: the registry when the call began
    vetted      \* history: ids accepted by an any-valid validation on entry

vars == <<by_id, call, busy, results, staged, scan, shrunk, displaced, before, vetted>>

Staged == [index : Nat, id : Ids, inserted : BOOLEAN]

Sub(k) == call.items[k]
Schemas == busy /\ call.kind = "schemas"

---------------------------------------------------------------------------
(* A new store that holds R, and no call made yet. *)
Opened(R) ==
    /\ by_id = R
    /\ call = CHOOSE c \in Calls : TRUE
    /\ busy = FALSE
    /\ results = <<>> /\ staged = <<>>
    /\ scan = 1 /\ shrunk = FALSE
    /\ displaced = <<>>
    /\ before = R /\ vetted = {}

Init == Opened(<<>>)

Begin(c) ==
    /\ ~busy
    /\ call' = c /\ busy' = TRUE
    /\ results' = <<>>
    /\ before' = by_id
    /\ UNCHANGED <<by_id, staged, scan, shrunk, displaced, vetted>>

(* The ids that answers admits after an any-valid validation. *)
Admitted(answers) ==
    IF call.validate /\ call.mode = "any-valid" /\ call.kind # "transient"
    THEN {Sub(k).id : k \in {j \in DOMAIN answers :
             /\ answers[j] = "ok"
             /\ Sub(j).doc.is_schema <=> Sub(j).id \in TypeIds}}
    ELSE {}

(* The locals of the running call are gone with it. *)
Ended ==
    /\ busy' = FALSE
    /\ staged' = <<>> /\ scan' = 1 /\ shrunk' = FALSE /\ displaced' = <<>>
    /\ UNCHANGED <<call, before>>

Return(answers) ==
    /\ results' = answers
    /\ vetted' = vetted \cup Admitted(answers)
    /\ Ended

---------------------------------------------------------------------------
(* register and register_schema: no validation. *)
Register ==
    /\ busy /\ call.kind = "register"
    /\ LET sub == Sub(1) IN
       IF sub.defect = "id"
       THEN Return(<<"rejected">>) /\ UNCHANGED by_id
       ELSE IF Conflicts(by_id, sub)
       THEN Return(<<"conflict">>) /\ UNCHANGED by_id
       ELSE Return(<<"ok">>) /\ by_id' = Bind(by_id, sub.id, sub.doc)

---------------------------------------------------------------------------
(* add_entity_with: the checks before registration, then registration. *)

RefuseEntity ==
    /\ busy /\ call.kind = "entity" /\ staged = <<>>
    /\ \/ Sub(1).defect \in {"id", "keywords"} /\ Return(<<"rejected">>)
       \/ /\ Sub(1).defect \notin {"id", "keywords"}
          /\ Conflicts(by_id, Sub(1))
          /\ Return(<<"conflict">>)
    /\ UNCHANGED by_id

RegisterEntity ==
    /\ busy /\ call.kind = "entity" /\ staged = <<>>
    /\ Sub(1).defect \notin {"id", "keywords"}
    /\ ~Conflicts(by_id, Sub(1))
    /\ by_id' = Bind(by_id, Sub(1).id, Sub(1).doc)
    /\ staged' = <<[index |-> 1, id |-> Sub(1).id,
                    inserted |-> ~Bound(by_id, Sub(1).id)]>>
    /\ UNCHANGED <<call, busy, results, scan, shrunk, displaced, before, vetted>>

(* Slip: rejection removes an entity that was stored before. *)
CheckEntityRemoving ==
    /\ busy /\ call.kind = "entity" /\ staged # <<>>
    /\ IF Passes(by_id, Sub(1), call.validate, call.mode)
       THEN Return(<<"ok">>) /\ UNCHANGED by_id
       ELSE Return(<<"rejected">>) /\ by_id' = Unbind(by_id, staged[1].id)

(* The check, and reject_registration when it fails. *)
CheckEntity ==
    /\ busy /\ call.kind = "entity" /\ staged # <<>>
    /\ IF Passes(by_id, Sub(1), call.validate, call.mode)
       THEN Return(<<"ok">>) /\ UNCHANGED by_id
       ELSE /\ Return(<<"rejected">>)
            /\ by_id' = IF staged[1].inserted THEN Unbind(by_id, staged[1].id)
                        ELSE by_id

---------------------------------------------------------------------------
(* add_entities and add_schemas_with. *)

(* add_entity without validation, its own undo included; the answer. *)
AddUnvalidated(sub) ==
    IF \/ sub.defect \in {"id", "keywords"}
       \/ call.kind = "schemas" /\ ~sub.canonical
    THEN "rejected"
    ELSE IF Conflicts(by_id, sub) THEN "conflict"
    ELSE IF Passes(by_id, sub, FALSE, call.mode) THEN "ok"
    ELSE "rejected"

(* The next item of the array. *)
Stage ==
    /\ busy /\ call.kind \in {"entities", "schemas"}
    /\ Len(results) < Len(call.items)
    /\ LET k == Len(results) + 1
           existed == Bound(by_id, Sub(k).id)
           answer == AddUnvalidated(Sub(k))
       IN /\ results' = Append(results, answer)
          /\ by_id' = IF answer = "ok" THEN Bind(by_id, Sub(k).id, Sub(k).doc)
                      ELSE by_id
          /\ staged' = IF answer = "ok" /\ call.validate
                       THEN Append(staged, [index |-> k, id |-> Sub(k).id,
                                            inserted |-> ~existed])
                       ELSE staged
    /\ UNCHANGED <<call, busy, scan, shrunk, displaced, before, vetted>>

AllStaged == Len(results) = Len(call.items)

(* Slip: the entry after an unstaged one is skipped. *)
ValidateSkipping ==
    /\ Schemas /\ AllStaged
    /\ scan <= Len(staged)
    /\ LET entry == staged[scan] IN
       IF Passes(by_id, Sub(entry.index), TRUE, call.mode)
       THEN UNCHANGED <<by_id, results, staged, shrunk>>
       ELSE /\ by_id' = IF entry.inserted THEN Unbind(by_id, entry.id) ELSE by_id
            /\ results' = [results EXCEPT ![entry.index] = "rejected"]
            /\ staged' = RemoveAt(staged, scan)
            /\ shrunk' = TRUE
    /\ scan' = scan + 1
    /\ UNCHANGED <<call, busy, displaced, before, vetted>>

(* One entry of a validation pass: it stays, or is unstaged. *)
Validate ==
    /\ Schemas /\ AllStaged
    /\ scan <= Len(staged)
    /\ LET entry == staged[scan] IN
       IF Passes(by_id, Sub(entry.index), TRUE, call.mode)
       THEN /\ scan' = scan + 1
            /\ UNCHANGED <<by_id, results, staged, shrunk>>
       ELSE /\ by_id' = IF entry.inserted THEN Unbind(by_id, entry.id) ELSE by_id
            /\ results' = [results EXCEPT ![entry.index] = "rejected"]
            /\ staged' = RemoveAt(staged, scan)
            /\ shrunk' = TRUE
            /\ UNCHANGED scan
    /\ UNCHANGED <<call, busy, displaced, before, vetted>>

(* Slip: the count of the last pass is not taken again. *)
NextPassForever ==
    /\ Schemas /\ AllStaged
    /\ scan > Len(staged)
    /\ shrunk
    /\ scan' = 1
    /\ UNCHANGED <<by_id, call, busy, results, staged, shrunk, displaced, before, vetted>>

(* A pass that unstaged something is followed by another. *)
NextPass ==
    /\ Schemas /\ AllStaged
    /\ scan > Len(staged)
    /\ shrunk
    /\ scan' = 1 /\ shrunk' = FALSE
    /\ UNCHANGED <<by_id, call, busy, results, staged, displaced, before, vetted>>

(* Slip: one pass is held to be enough. *)
ReturnAfterOnePass ==
    /\ busy /\ call.kind \in {"entities", "schemas"} /\ AllStaged
    /\ scan > Len(staged)
    /\ Return(results)
    /\ UNCHANGED by_id

ReturnResults ==
    /\ busy /\ call.kind \in {"entities", "schemas"} /\ AllStaged
    /\ scan > Len(staged)
    /\ ~shrunk
    /\ Return(results)
    /\ UNCHANGED by_id

---------------------------------------------------------------------------
(* validate_json of a schema: validate_transient_type_schema. *)

RefuseTransient ==
    /\ busy /\ call.kind = "transient" /\ staged = <<>>
    /\ \/ Sub(1).defect \in {"id", "keywords"}
       \/ /\ Sub(1).defect \notin {"id", "keywords"}
          /\ Base[Sub(1).id] # NoType
          /\ ~Bound(by_id, Base[Sub(1).id])
    /\ Return(<<"rejected">>)
    /\ UNCHANGED by_id

(* with_transient_entity: in... *)
Displace ==
    /\ busy /\ call.kind = "transient" /\ staged = <<>>
    /\ Sub(1).defect \notin {"id", "keywords"}
    /\ Base[Sub(1).id] # NoType => Bound(by_id, Base[Sub(1).id])
    /\ by_id' = Bind(by_id, Sub(1).id, Sub(1).doc)
    /\ displaced' = [id \in DOMAIN by_id \cap {Sub(1).id} |-> by_id[id]]
    /\ staged' = <<[index |-> 1, id |-> Sub(1).id, inserted |-> TRUE]>>
    /\ UNCHANGED <<call, busy, results, scan, shrunk, before, vetted>>

(* Slip: the transient entity is removed, what it displaced is not put back. *)
RestoredByRemoval == Unbind(by_id, Sub(1).id)

(* ... and out again, whatever the action did. *)
Restored ==
    IF displaced = <<>> THEN Unbind(by_id, Sub(1).id)
    ELSE Bind(by_id, Sub(1).id, displaced[Sub(1).id])

Restore ==
    /\ busy /\ call.kind = "transient" /\ staged # <<>>
    /\ Return(<<IF Passes(by_id, Sub(1), TRUE, "any-valid") THEN "ok" ELSE "rejected">>)
    /\ by_id' = Restored

---------------------------------------------------------------------------
(* A validation panics; only with_transient_entity puts anything back. *)
Validating ==
    /\ busy /\ call.validate
    /\ \/ call.kind \in {"entity", "transient"} /\ staged # <<>>
       \/ call.kind = "schemas" /\ AllStaged /\ scan <= Len(staged)

Panic ==
    /\ Validating
    /\ results' = <<>>
    /\ by_id' = IF call.kind = "transient" THEN Restored ELSE by_id
    /\ UNCHANGED vetted
    /\ Ended

(* reload_from_path: a fresh store, populated by the reader; of several     *)
(* files for one id the last one read stays.                               *)
Reload ==
    /\ ~busy
    /\ \E disk \in Disks : by_id' \in Loads(disk)
    /\ before' = by_id'
    /\ vetted' = {}
    /\ results' = <<>>
    /\ UNCHANGED <<call, busy, staged, scan, shrunk, displaced>>

---------------------------------------------------------------------------
Step ==
    \/ Register
    \/ RefuseEntity \/ RegisterEntity \/ CheckEntity
    \/ Stage \/ Validate \/ NextPass \/ ReturnResults
    \/ RefuseTransient \/ Displace \/ Restore

Next ==
    \/ \E c \in Calls : Begin(c)
    \/ Step
    \/ Panic
    \/ Reload

Spec == Init /\ [][Next]_vars

(* A call that runs keeps running. *)
FairSpec == Spec /\ WF_vars(Step)
---------------------------------------------------------------------------
(* Properties. *)

TypeOK ==
    /\ IsRegistry(by_id) /\ IsRegistry(before)
    /\ call \in Calls /\ busy \in BOOLEAN
    /\ results \in Seq({"ok", "conflict", "rejected"})
    /\ staged \in Seq(Staged)
    /\ scan \in 1 .. Len(staged) + 1
    /\ shrunk \in BOOLEAN
    /\ IsRegistry(displaced)
    /\ vetted \subseteq Ids

(* Every answer a client gets is true of the registry it finds afterwards: *)
(* an accepted item is stored and, if it was validated, still passes with  *)
(* the rest of the batch as it ended; a rejected one was not stored unless *)
(* it already was (add_schemas_with: "nothing is committed on top of a     *)
(* rejected sibling", "a rejected entry is never committed").              *)
AnswersHonest ==
    (~busy /\ call.kind # "transient") =>
        \A k \in DOMAIN results :
            LET sub == Sub(k)
                stored(R) == Bound(R, sub.id) /\ R[sub.id] = sub.doc
            IN /\ results[k] = "ok" =>
                     stored(by_id) /\ (call.validate => Passes(by_id, sub, TRUE, call.mode))
               /\ results[k] = "rejected" => (stored(by_id) <=> stored(before))
               /\ results[k] = "conflict" => ~stored(by_id)

(* What an any-valid validation accepted on entry stays valid however the  *)
(* registry goes on, through rejected, transient, unvalidated and panicked *)
(* calls, until it is reloaded.                                            *)
VettedStayValid == ~busy => vetted \subseteq Valid(by_id)

(* Every call returns, the passes over a batch included. *)
Returns == busy ~> ~busy

(* The calls are atomic: each commits exactly what GtsRegistry says, or    *)
(* when a validation panics some part of it.                               *)
Registry == INSTANCE GtsRegistry WITH
    committed <- IF busy THEN before ELSE by_id,
    answered <- IF busy THEN 0 ELSE Len(results)

RegistrySpec == Registry!Spec
============================================================================
