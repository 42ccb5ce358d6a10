---------------------------- MODULE WeatherActions ----------------------------
(***************************************************************************)
(* The weather action gate: START and STOP of the display, each authorised *)
(* by a nonce and recorded in a table of receipts that outlives the        *)
(* process.  An action is a row of its own for as long as it is served:    *)
(*     admit -> begin -> check -> serve -> finish -> validate              *)
(* All of it runs under the service's lock, so nothing but time and the    *)
(* end of the process comes between two steps; every step that touches the *)
(* database may fail or be slow.                                           *)
(*                                                                         *)
(* Of the service only what the gate and its callers see is kept; the rest *)
(* of it is WeatherControl.  A write of the durable record advances the    *)
(* control revision, to which every nonce is bound: the nonces issued      *)
(* before it are dead.  The revision a receipt records tells one execution *)
(* of a request id from another, and its nonce stands for it here.         *)
(***************************************************************************)
EXTENDS Sequences, Integers

CONSTANTS Ids,         \* request ids, chosen by the clients
          Nonces,      \* every nonce any process ever issues
          NonceLife,   \* NONCE_SECONDS
          Capacity     \* receipts the table holds, 128 in the code

ASSUME GateAssumption == NonceLife \in Nat \ {0} /\ Capacity \in Nat \ {0}

VARIABLES
    phase,      \* of the process: "down", "recover" during its start, "up"
    svc,        \* the service: in memory, on record, and at the valve
    receipts,   \* weather_action_receipts, oldest first
    nonces,     \* _nonces: age of a live nonce
    validated,  \* _validated: the executions that were answered in time
    op,         \* the action being executed
    told,       \* history: the last answer to a request that was executed
    effects,    \* history: calls of the service a nonce has authorised
    doubt       \* history: an action's outcome is unknown, no person has cleared it

vars == <<phase, svc, receipts, nonces, validated, op, told, effects, doubt>>

Services == [fault : BOOLEAN,       \* the state is FAULT
             latched : BOOLEAN,     \* _persistence_fault_latched
             inhibited : BOOLEAN,   \* fault_inhibited of the durable record
             supply : BOOLEAN]      \* the last command sent was SUPPLY

(* "done": control_revision is not NULL.  Pending and done is provisional. *)
Receipts == [id : Ids, nonce : Nonces, action : {"start", "stop"}, done : BOOLEAN,
             state : {"pending", "success", "rejected", "unknown"}]

(* A live nonce has an age; -1 is one that is not issued, -2 one that is   *)
(* used, expired, or bound to an earlier revision or process.              *)
Unissued == 0 - 1
Dead == 0 - 2
Requests == Ids \X Nonces
Steps == {"idle", "begin", "check", "serve", "finish", "validate"}
Idle == [pc |-> "idle"]

Pending(r) == r.state = "pending"
Unfinished(r) == Pending(r) /\ ~r.done
Has(rows, P(_)) == \E n \in DOMAIN rows : P(rows[n])
RowOf(id) == CHOOSE n \in DOMAIN receipts : receipts[n].id = id
Recorded(id) == Has(receipts, LAMBDA r : r.id = id)

(* The rows once every one that P picks is changed by F. *)
Update(rows, P(_), F(_)) == [n \in DOMAIN rows |-> IF P(rows[n]) THEN F(rows[n]) ELSE rows[n]]
ThisRow(r) == r.id = op.id

Killed == [n \in Nonces |-> IF nonces[n] >= 0 THEN Dead ELSE nonces[n]]

-----------------------------------------------------------------------------
(* handle_persistence_failure: the fault is put on record if the disk lets *)
(* it, DRAIN is sent, and only a new process gets rid of the latch.        *)
HandlePersistenceFailure ==
    \/ svc.latched /\ UNCHANGED <<svc, nonces>>
    \/ /\ ~svc.latched
       /\ \/ /\ svc' = [svc EXCEPT !.fault = TRUE, !.latched = TRUE, !.supply = FALSE,
                                   !.inhibited = TRUE]
             /\ nonces' = Killed
          \/ /\ svc' = [svc EXCEPT !.fault = TRUE, !.latched = TRUE, !.supply = FALSE]
             /\ UNCHANGED nonces

(* The end of an execution: the answer goes out. *)
Answered(answer) ==
    /\ op' = Idle
    /\ told' = [told EXCEPT ![<<op.id, op.nonce>>] = answer]

(* A WeatherStateError anywhere in execute: the rows stay as they are. *)
StorageFails ==
    /\ HandlePersistenceFailure /\ Answered("failed")
    /\ doubt' = (doubt \/ Has(receipts, Unfinished))
    /\ UNCHANGED <<phase, receipts, validated, effects>>

Init ==
    /\ phase = "down"
    /\ svc = [fault |-> FALSE, latched |-> FALSE, inhibited |-> FALSE, supply |-> FALSE]
    /\ receipts = <<>> /\ nonces = [n \in Nonces |-> Unissued]
    /\ validated = {} /\ op = Idle
    /\ told = [r \in Requests |-> "none"] /\ effects = [n \in Nonces |-> 0]
    /\ doubt = FALSE

-----------------------------------------------------------------------------
(* The life of the process. *)

(* service.startup: the pair is drained, and a recorded fault is taken     *)
(* over; the record's new revision may fail to be written.                 *)
Startup ==
    /\ phase = "down" /\ phase' = "recover"
    /\ \/ svc' = [svc EXCEPT !.supply = FALSE, !.fault = svc.inhibited] /\ UNCHANGED nonces
       \/ HandlePersistenceFailure
    /\ UNCHANGED <<receipts, validated, op, told, effects, doubt>>

\* Mutant: the rows are closed first, and the fault is left to the latch.
RecoverRows ==
    /\ phase = "recover" /\ phase' = "up"
    /\ receipts' = Update(receipts, Pending, LAMBDA r : [r EXCEPT !.state = "unknown"])
    /\ svc' = IF Has(receipts, Pending) THEN [svc EXCEPT !.fault = TRUE, !.latched = TRUE] ELSE svc
    /\ UNCHANGED <<nonces, validated, op, told, effects, doubt>>

(* recover_pending and reconcile_pending_action_receipts: what the last    *)
(* process left pending becomes unknown in the very transaction that puts  *)
(* the fault on record.                                                    *)
Recover ==
    /\ phase = "recover" /\ phase' = "up"
    /\ \/ ~Has(receipts, Pending) /\ UNCHANGED <<svc, receipts>>
       \/ /\ Has(receipts, Pending)
          /\ receipts' = Update(receipts, Pending, LAMBDA r : [r EXCEPT !.state = "unknown"])
          /\ svc' = [svc EXCEPT !.fault = TRUE, !.latched = TRUE, !.inhibited = TRUE]
    /\ UNCHANGED <<nonces, validated, op, told, effects, doubt>>

RecoverFails ==
    /\ phase = "recover" /\ phase' = "up"
    /\ HandlePersistenceFailure
    /\ UNCHANGED <<receipts, validated, op, told, effects, doubt>>

(* Everything in memory is lost; the service may have been half way.  A    *)
(* supply under way runs into the end of its lease or into the next start. *)
Crash(supply) ==
    /\ phase # "down" /\ phase' = "down"
    /\ op.pc # "serve" => supply = svc.supply
    /\ svc' = [svc EXCEPT !.fault = FALSE, !.latched = FALSE, !.supply = supply]
    /\ nonces' = Killed /\ validated' = {} /\ op' = Idle
    /\ doubt' = (doubt \/ Has(receipts, Unfinished))
    /\ UNCHANGED <<receipts, told, effects>>

\* Mutant: every provisional row is promoted.
PromotedAll == Update(receipts, LAMBDA r : Pending(r) /\ r.done,
                      LAMBDA r : [r EXCEPT !.state = "success"])

(* promote_action_receipts: only what this process has validated. *)
Promoted == Update(receipts, LAMBDA r : Pending(r) /\ r.done /\ <<r.id, r.nonce>> \in validated,
                   LAMBDA r : [r EXCEPT !.state = "success"])

(* service.shutdown, then promote_completed. *)
Shutdown(stored, inhibited) ==
    /\ phase = "up" /\ op.pc = "idle" /\ phase' = "down"
    /\ receipts' = IF stored THEN Promoted ELSE receipts
    /\ stored => inhibited = svc.inhibited
    /\ svc' = [fault |-> FALSE, latched |-> FALSE, supply |-> FALSE,
               inhibited |-> svc.inhibited \/ inhibited]
    /\ nonces' = Killed /\ validated' = {}
    /\ UNCHANGED <<op, told, effects, doubt>>

-----------------------------------------------------------------------------
(* Between two actions. *)

Ready == phase = "up" /\ op.pc = "idle"

(* GET display/status promotes what was answered in time and issues a      *)
(* nonce bound to the current revision.                                    *)
Status(n) ==
    /\ Ready /\ nonces[n] = Unissued
    /\ receipts' = Promoted /\ validated' = {}
    /\ nonces' = [nonces EXCEPT ![n] = 0]
    /\ UNCHANGED <<phase, svc, op, told, effects, doubt>>

StatusFails ==
    /\ Ready
    /\ HandlePersistenceFailure
    /\ UNCHANGED <<phase, receipts, validated, op, told, effects, doubt>>

(* The control loop and the settings write the record on their own; a      *)
(* driver that fails is a fault, recorded if the disk lets it: if not, the *)
(* revision is what it was, and so are the nonces bound to it.             *)
OtherWrite(supply, fault, inhibited) ==
    /\ Ready
    /\ supply => ~fault /\ ~svc.inhibited
    /\ svc.fault => fault
    /\ inhibited => svc.inhibited \/ fault
    /\ svc.inhibited => inhibited
    /\ svc' = [svc EXCEPT !.supply = supply, !.fault = fault, !.inhibited = inhibited]
    /\ (nonces' = Killed \/ (fault /\ nonces' = nonces))
    /\ UNCHANGED <<phase, receipts, validated, op, told, effects, doubt>>

(* A person's CLEAR_FAULT: the pair is drained and the record rewritten. *)
ClearFault ==
    /\ Ready /\ svc.fault /\ ~svc.latched
    /\ svc' = [svc EXCEPT !.fault = FALSE, !.inhibited = FALSE, !.supply = FALSE]
    /\ nonces' = Killed /\ doubt' = FALSE
    /\ UNCHANGED <<phase, receipts, validated, op, told, effects>>

(* A request whose id has a receipt.  With another body it is a conflict   *)
(* and nothing happens; with its own it is told what is on record, and a   *)
(* provisional outcome counts if this process validated it.                *)
Replayed(r) ==
    IF \/ r.state = "success"
       \/ Pending(r) /\ r.done /\ <<r.id, r.nonce>> \in validated
    THEN "success" ELSE "failed"

Replay(id, nonce) ==
    /\ Ready /\ Recorded(id)
    /\ LET r == receipts[RowOf(id)]
       IN r.nonce = nonce /\ told' = [told EXCEPT ![<<id, nonce>>] = Replayed(r)]
    /\ UNCHANGED <<phase, svc, receipts, nonces, validated, op, effects, doubt>>

-----------------------------------------------------------------------------
(* One action. *)

\* Mutant: the nonce is left to its age.
AdmitAgain(id, nonce, action) ==
    /\ Ready /\ ~Recorded(id)
    /\ 0 <= nonces[nonce] /\ nonces[nonce] < NonceLife
    /\ action = "start" => ~svc.fault /\ ~svc.inhibited
    /\ op' = [pc |-> "begin", id |-> id, nonce |-> nonce, action |-> action,
              age |-> nonces[nonce], ok |-> TRUE]
    /\ UNCHANGED <<phase, svc, nonces, receipts, validated, told, effects, doubt>>

(* _execute up to the nonce's end: no receipt yet, a live nonce of the     *)
(* current revision, and no START in FAULT.                                *)
Admit(id, nonce, action) ==
    /\ Ready /\ ~Recorded(id)
    /\ 0 <= nonces[nonce] /\ nonces[nonce] < NonceLife
    /\ action = "start" => ~svc.fault /\ ~svc.inhibited
    /\ nonces' = [nonces EXCEPT ![nonce] = Dead]
    /\ op' = [pc |-> "begin", id |-> id, nonce |-> nonce, action |-> action,
              age |-> nonces[nonce], ok |-> TRUE]
    /\ UNCHANGED <<phase, svc, receipts, validated, told, effects, doubt>>

Fresh == op.age < NonceLife
Prunable(rows) == {n \in DOMAIN rows : ~Unfinished(rows[n])}
Without(rows, n) == SubSeq(rows, 1, n - 1) \o SubSeq(rows, n + 1, Len(rows))

(* begin_action_receipt: a full table gives up its oldest finished row. *)
Pruned(rows) ==
    IF Len(rows) < Capacity \/ Prunable(rows) = {} THEN rows
    ELSE Without(rows, CHOOSE n \in Prunable(rows) : \A m \in Prunable(rows) : n <= m)

\* Mutant: what is left after pruning is not counted again.
BeginAnyhow ==
    /\ op.pc = "begin"
    /\ receipts' = Append(Pruned(receipts),
                          [id |-> op.id, nonce |-> op.nonce, action |-> op.action,
                           done |-> FALSE, state |-> "pending"])
    /\ op' = [op EXCEPT !.pc = "check"]
    /\ UNCHANGED <<phase, svc, nonces, validated, told, effects, doubt>>

Begin ==
    /\ op.pc = "begin" /\ Len(Pruned(receipts)) < Capacity
    /\ receipts' = Append(Pruned(receipts),
                          [id |-> op.id, nonce |-> op.nonce, action |-> op.action,
                           done |-> FALSE, state |-> "pending"])
    /\ op' = [op EXCEPT !.pc = "check"]
    /\ UNCHANGED <<phase, svc, nonces, validated, told, effects, doubt>>

\* Mutant: an action without a receipt is only refused.
BeginRefused ==
    /\ op.pc = "begin" /\ Answered("failed")
    /\ UNCHANGED <<phase, svc, receipts, nonces, validated, effects, doubt>>

(* No row is to be had, or the insert fails. *)
BeginFails == op.pc = "begin" /\ StorageFails

(* The intent may have taken longer than the authorisation lasts. *)
Expire ==
    /\ op.pc = "check" /\ ~Fresh
    /\ receipts' = Update(receipts, ThisRow, LAMBDA r : [r EXCEPT !.done = TRUE, !.state = "rejected"])
    /\ Answered("failed")
    /\ UNCHANGED <<phase, svc, nonces, validated, effects, doubt>>

ExpireFails == op.pc = "check" /\ ~Fresh /\ StorageFails

Enter ==
    /\ op.pc = "check" /\ Fresh
    /\ op' = [op EXCEPT !.pc = "serve"]
    /\ effects' = [effects EXCEPT ![op.nonce] = @ + 1]
    /\ UNCHANGED <<phase, svc, receipts, nonces, validated, told, doubt>>

(* start_weather_shower or stop_weather_shower: a START supplies, is not   *)
(* accepted, or faults; a STOP drains or faults.  A fault may be latched,  *)
(* and may fail to get on record.                                          *)
Serve(out) ==
    /\ op.pc = "serve"
    /\ svc.fault => out.fault
    /\ svc.latched => out.latched
    /\ out.latched \/ out.supply = FALSE \/ ~out.fault
    /\ out.latched => out.fault
    /\ out.supply => op.action = "start" /\ ~out.fault /\ ~svc.inhibited
    /\ IF out.fault THEN svc.inhibited => out.inhibited ELSE out.inhibited = svc.inhibited
    /\ svc' = out
    /\ nonces' \in {nonces, Killed}
    /\ op' = [op EXCEPT !.pc = "finish",
                        !.ok = ~out.fault /\ (op.action = "start" => out.supply)]
    /\ UNCHANGED <<phase, receipts, validated, told, effects, doubt>>

ServeRaises == op.pc = "serve" /\ StorageFails

(* finish_action_receipt.  An answer that comes too late is a failure, and *)
(* the fault is latched before its row is closed.                          *)
Finish ==
    /\ op.pc = "finish"
    /\ IF Fresh THEN UNCHANGED <<svc, nonces>> ELSE HandlePersistenceFailure
    /\ IF Fresh /\ op.ok
       THEN /\ receipts' = Update(receipts, ThisRow, LAMBDA r : [r EXCEPT !.done = TRUE])
            /\ op' = [op EXCEPT !.pc = "validate"]
            /\ UNCHANGED told
       ELSE /\ receipts' = Update(receipts, ThisRow,
                                  LAMBDA r : [r EXCEPT !.done = TRUE, !.state = "rejected"])
            /\ Answered("failed")
    /\ UNCHANGED <<phase, validated, effects, doubt>>

FinishFails == op.pc = "finish" /\ StorageFails

(* Nothing durable follows the last check of a success. *)
Validate ==
    /\ op.pc = "validate" /\ Fresh
    /\ validated' = {v \in validated : v[1] # op.id} \cup {<<op.id, op.nonce>>}
    /\ Answered("success")
    /\ UNCHANGED <<phase, svc, receipts, nonces, effects, doubt>>

(* mark_action_unknown, which may fail like any other write. *)
Withdraw ==
    /\ op.pc = "validate" /\ ~Fresh
    /\ HandlePersistenceFailure
    /\ receipts' = Update(receipts, ThisRow, LAMBDA r : [r EXCEPT !.state = "unknown"])
    /\ Answered("failed")
    /\ UNCHANGED <<phase, validated, effects, doubt>>

ValidateFails == op.pc = "validate" /\ StorageFails

-----------------------------------------------------------------------------
(* A nonce that reaches its age is as good as gone. *)
Tick ==
    /\ phase = "up"
    /\ \/ \E n \in Nonces : nonces[n] >= 0
       \/ op.pc # "idle" /\ Fresh
    /\ nonces' = [n \in Nonces |-> IF nonces[n] < 0 THEN nonces[n]
                                   ELSE IF nonces[n] + 1 < NonceLife THEN nonces[n] + 1 ELSE Dead]
    /\ op' = IF op.pc # "idle" /\ Fresh THEN [op EXCEPT !.age = @ + 1] ELSE op
    /\ UNCHANGED <<phase, svc, receipts, validated, told, effects, doubt>>

Next ==
    \/ Startup \/ Recover \/ RecoverFails
    \/ \E supply \in BOOLEAN : Crash(supply)
    \/ \E stored, inhibited \in BOOLEAN : Shutdown(stored, inhibited)
    \/ \E n \in Nonces : Status(n)
    \/ StatusFails
    \/ \E supply, fault, inhibited \in BOOLEAN : OtherWrite(supply, fault, inhibited)
    \/ ClearFault
    \/ \E id \in Ids, n \in Nonces : Replay(id, n)
    \/ \E id \in Ids, n \in Nonces, action \in {"start", "stop"} : Admit(id, n, action)
    \/ Begin \/ BeginFails \/ Expire \/ ExpireFails \/ Enter
    \/ \E out \in Services : Serve(out)
    \/ ServeRaises \/ Finish \/ FinishFails \/ Validate \/ Withdraw \/ ValidateFails
    \/ Tick

Spec == Init /\ [][Next]_vars

-----------------------------------------------------------------------------
(* Properties *)

(* Every variable stays within its type, and no id has two receipts. *)
TypeOK ==
    /\ phase \in {"down", "recover", "up"} /\ svc \in Services
    /\ receipts \in Seq(Receipts) /\ Len(receipts) <= Capacity
    /\ \A m, n \in DOMAIN receipts : receipts[m].id = receipts[n].id => m = n
    /\ nonces \in [Nonces -> Dead..NonceLife] /\ validated \subseteq Requests
    /\ \/ op = Idle
       \/ op \in [pc : Steps, id : Ids, nonce : Nonces, action : {"start", "stop"},
                 age : 0..NonceLife, ok : BOOLEAN]
    /\ told \in [Requests -> {"none", "failed", "success"}]
    /\ effects \in [Nonces -> Nat] /\ doubt \in BOOLEAN

(* One press, one effect: a nonce authorises one call of the service at    *)
(* most, however often its request is repeated, whichever ids it comes     *)
(* under, when its receipt has been pruned and after a restart; and what   *)
(* is answered as a success did happen.                                    *)
AtMostOnce ==
    /\ \A n \in Nonces : effects[n] <= 1
    /\ \A r \in Requests : told[r] = "success" => effects[r[2]] = 1

(* A failure is final: a request whose execution was once answered with    *)
(* an error is never answered with a success, not even by a replay after   *)
(* its provisional row was left behind and a later status promoted others. *)
FailureIsFinal ==
    [][\A r \in Requests : told[r] = "failed" => told'[r] # "success"]_vars

(* While the outcome of an action is unknown and no person has cleared it, *)
(* a process that has started does not supply: the fault survives crashes  *)
(* between any two steps, of the recovery too.                             *)
DoubtInhibits == doubt /\ phase = "up" /\ op.pc = "idle" => ~svc.supply /\ (svc.fault \/ svc.inhibited)

(* An action that got past its admission and fails leaves DRAIN behind,    *)
(* STOP with a full table included; only one that expired before the       *)
(* service was asked changes nothing.                                      *)
Ended == op.pc # "idle" /\ op'.pc = "idle" /\ phase' = "up"
FailedActionDrains ==
    [][Ended /\ told'[<<op.id, op.nonce>>] = "failed"
          => ~svc'.supply \/ (op.pc = "check" /\ svc' = svc)]_vars
=============================================================================
