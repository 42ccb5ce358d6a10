---------------------- MODULE WeatherActionsFault_proofs ----------------------
(***************************************************************************)
(* What the action gate does to the service when an action fails or its    *)
(* outcome is unknown, for any request ids, nonces, lifetime and table     *)
(* size.  The types and the rows' identities are WeatherActions_proofs.    *)
(***************************************************************************)
EXTENDS WeatherActions_proofs

(* A latched fault has drained the pair, and ends with the process.        *)
LatchInv ==
    /\ svc.latched => svc.fault /\ ~svc.supply
    /\ phase = "down" => ~svc.latched
    /\ phase = "recover" => ~svc.supply
    /\ phase # "up" => op = Idle

(* An unknown outcome is a fault on record, or a row that the next process *)
(* finds pending.                                                          *)
Open(n) == Unfinished(receipts[n]) /\ (op.pc # "idle" => receipts[n].id # op.id)
DoubtInv == doubt => svc.inhibited \/ \E n \in DOMAIN receipts : Open(n)

(* Under an unknown outcome nothing supplies, and only STOP is executed.   *)
DrainedInv ==
    doubt /\ phase = "up" =>
        /\ ~svc.supply /\ (svc.fault \/ svc.inhibited)
        /\ op.pc # "idle" => op.action = "stop"

(* An action that did not succeed has left no supply. *)
RefusedInv == op.pc = "finish" /\ ~op.ok => ~svc.supply

SInv == IInv /\ LatchInv /\ DoubtInv /\ DrainedInv /\ RefusedInv

FailedDrains ==
    Ended /\ told'[<<op.id, op.nonce>>] = "failed"
        => ~svc'.supply \/ (op.pc = "check" /\ svc' = svc)

-----------------------------------------------------------------------------
LEMMA Shape ==
    ASSUME SInv
    PROVE  /\ svc \in Services /\ phase \in {"down", "recover", "up"} /\ doubt \in BOOLEAN
           /\ receipts \in Seq(Receipts) /\ (op = Idle \/ (op \in Ops /\ op.pc # "idle"))
           /\ Idle.pc = "idle" /\ (op.pc # "idle" => phase = "up" /\ op \in Ops)
           /\ \A n \in DOMAIN receipts : receipts[n] \in Receipts
<1>1. /\ svc \in Services /\ phase \in {"down", "recover", "up"} /\ doubt \in BOOLEAN
      /\ receipts \in Seq(Receipts) /\ (op = Idle \/ (op \in Ops /\ op.pc # "idle"))
      /\ Idle.pc = "idle"
  BY DEF SInv, IInv, TypeOK, OpInv, Idle
<1>2. op.pc # "idle" => phase = "up" /\ op \in Ops
  BY <1>1 DEF SInv, LatchInv
<1> QED
  BY <1>1, <1>2, RowFacts

(* The fault is in memory, and on record if it was. *)
LEMMA HandleDrains ==
    ASSUME SInv, HandlePersistenceFailure
    PROVE  svc'.fault /\ svc'.latched /\ ~svc'.supply /\ (svc.inhibited => svc'.inhibited)
<1>1. svc \in Services
  BY Shape
<1>2. CASE svc.latched
  BY <1>1, <1>2 DEF HandlePersistenceFailure, SInv, LatchInv
<1>3. CASE ~svc.latched
  BY <1>1, <1>3 DEF HandlePersistenceFailure, Services
<1> QED
  BY <1>2, <1>3

(* Any step that ends an action with a storage failure. *)
LEMMA StorageFailsDrains ==
    ASSUME SInv, IInv', StorageFails, op.pc # "idle" PROVE SInv' /\ FailedDrains
<1>1. /\ HandlePersistenceFailure /\ op' = Idle /\ phase' = phase /\ receipts' = receipts
      /\ doubt' = (doubt \/ Has(receipts, Unfinished))
  BY DEF StorageFails, Answered
<1>2. svc'.fault /\ svc'.latched /\ ~svc'.supply /\ (svc.inhibited => svc'.inhibited)
  BY <1>1, HandleDrains
<1>3. phase' = "up" /\ op'.pc = "idle"
  BY <1>1, Shape
<1>4. DoubtInv'
  <2>1. CASE Has(receipts, Unfinished)
    BY <1>1, <1>3, <2>1 DEF DoubtInv, Open, Has
  <2>2. CASE doubt
    BY <1>1, <1>2, <1>3, <2>2 DEF SInv, DoubtInv, Open
  <2> QED
    BY <1>1, <2>1, <2>2 DEF DoubtInv
<1>5. LatchInv' /\ DrainedInv' /\ RefusedInv' /\ FailedDrains
  BY <1>2, <1>3 DEF LatchInv, DrainedInv, RefusedInv, FailedDrains
<1> QED
  BY <1>4, <1>5 DEF SInv

-----------------------------------------------------------------------------
(* The rows that are still open are where they were, or will be found. *)
OpenKept == \A n \in DOMAIN receipts : Open(n) => \E k \in DOMAIN receipts' : Open(k)'

LEMMA DoubtKept ==
    ASSUME SInv, doubt' => doubt, svc.inhibited => svc'.inhibited, OpenKept
    PROVE  DoubtInv'
  BY DEF SInv, DoubtInv, OpenKept

LEMMA SameOpen ==
    ASSUME receipts' = receipts,
           op'.pc = "idle" \/ (op.pc # "idle" /\ op'.id = op.id)
    PROVE  OpenKept
  BY DEF OpenKept, Open

LEMMA PromotedOpen ==
    ASSUME SInv, receipts' = Promoted, op'.pc = "idle" PROVE OpenKept
<1>1. receipts' = [n \in DOMAIN receipts |->
                     IF receipts[n].state = "pending" /\ receipts[n].done
                        /\ <<receipts[n].id, receipts[n].nonce>> \in validated
                     THEN [receipts[n] EXCEPT !.state = "success"] ELSE receipts[n]]
  BY DEF Promoted, Update, Pending
<1>2. \A n \in DOMAIN receipts : Unfinished(receipts[n]) => receipts'[n] = receipts[n]
  BY <1>1 DEF Unfinished
<1> QED
  BY <1>1, <1>2 DEF OpenKept, Open

(* Only the row of the action under way changes. *)
LEMMA OthersOpen ==
    ASSUME SInv, op.pc # "idle", DOMAIN receipts' = DOMAIN receipts,
           \A n \in DOMAIN receipts : receipts[n].id # op.id => receipts'[n] = receipts[n],
           op'.pc = "idle" \/ op'.id = op.id
    PROVE  OpenKept
  BY DEF OpenKept, Open

(* Pruning never takes an open row. *)
LEMMA PrunedOpen ==
    ASSUME NEW rows \in Seq(Receipts), NEW m \in DOMAIN rows, Unfinished(rows[m])
    PROVE  \E k \in DOMAIN Pruned(rows) : Pruned(rows)[k] = rows[m]
<1>1. CASE Len(rows) < Capacity \/ Prunable(rows) = {}
  BY <1>1 DEF Pruned
<1>2. CASE ~(Len(rows) < Capacity \/ Prunable(rows) = {})
  <2>1. PICK n \in Prunable(rows) : Pruned(rows) = Without(rows, n)
    BY <1>2, OldestPrunable DEF Pruned
  <2>2. n \in DOMAIN rows /\ n # m
    BY <2>1 DEF Prunable
  <2> DEFINE w == Without(rows, n)
  <2>3. /\ w \in Seq(Receipts) /\ Len(w) = Len(rows) - 1
        /\ \A k \in DOMAIN w : w[k] = rows[IF k < n THEN k ELSE k + 1]
    BY <2>2, WithoutFacts
  <2> HIDE DEF w
  <2>4. /\ DOMAIN w = 1..(Len(rows) - 1) /\ DOMAIN rows = 1..Len(rows) /\ Len(rows) \in Nat
    BY <2>3, RowFacts
  <2> DEFINE k == IF m < n THEN m ELSE m - 1
  <2>5. k \in DOMAIN w /\ (IF k < n THEN k ELSE k + 1) = m
    BY <2>2, <2>4
  <2> HIDE DEF k
  <2>6. w[k] = rows[m]
    BY <2>3, <2>5
  <2> QED
    BY <2>1, <2>5, <2>6 DEF w
<1> QED
  BY <1>1, <1>2

-----------------------------------------------------------------------------
LEMMA LifeDrains ==
    ASSUME SInv, IInv',
           \/ Startup \/ Recover \/ RecoverFails
           \/ \E supply \in BOOLEAN : Crash(supply)
           \/ \E stored, inhibited \in BOOLEAN : Shutdown(stored, inhibited)
    PROVE  SInv' /\ FailedDrains
<1>0. /\ svc \in Services /\ receipts \in Seq(Receipts) /\ Idle.pc = "idle"
      /\ (phase # "up" => op = Idle) /\ (op.pc = "idle" => op = Idle)
      /\ (phase = "down" => ~svc.latched) /\ (phase = "recover" => ~svc.supply)
  BY Shape DEF SInv, LatchInv
<1>1. CASE Startup
  <2>1. /\ phase' = "recover" /\ op = Idle /\ op' = Idle /\ receipts' = receipts /\ doubt' = doubt
        /\ ~svc.latched
    BY <1>0, <1>1 DEF Startup
  <2>2. /\ ~svc'.supply /\ (svc'.latched => svc'.fault) /\ (svc.inhibited => svc'.inhibited)
    <3>1. CASE HandlePersistenceFailure
      BY <3>1, HandleDrains
    <3>2. CASE svc' = [svc EXCEPT !.supply = FALSE, !.fault = svc.inhibited]
      BY <1>0, <2>1, <3>2 DEF Services
    <3> QED
      BY <1>1, <3>1, <3>2 DEF Startup
  <2>3. DoubtInv'
    BY <1>0, <2>1, <2>2, DoubtKept, SameOpen
  <2> QED
    BY <1>0, <2>1, <2>2, <2>3 DEF SInv, LatchInv, DrainedInv, RefusedInv, FailedDrains, Ended
<1>2. CASE Recover
  <2>1. /\ phase = "recover" /\ phase' = "up" /\ op = Idle /\ op' = Idle /\ doubt' = doubt /\ ~svc.supply
    BY <1>0, <1>2 DEF Recover
  <2>2. CASE ~Has(receipts, Pending) /\ svc' = svc /\ receipts' = receipts
    <3>1. \A n \in DOMAIN receipts : ~Unfinished(receipts[n])
      BY <2>2 DEF Has, Unfinished
    <3>2. doubt => svc.inhibited
      BY <3>1 DEF SInv, DoubtInv, Open
    <3> QED
      BY <1>0, <2>1, <2>2, <3>2
        DEF SInv, LatchInv, DoubtInv, DrainedInv, RefusedInv, FailedDrains, Ended
  <2>3. CASE svc' = [svc EXCEPT !.fault = TRUE, !.latched = TRUE, !.inhibited = TRUE]
    <3>1. svc'.fault /\ svc'.latched /\ svc'.inhibited /\ ~svc'.supply
      BY <1>0, <2>1, <2>3 DEF Services
    <3> QED
      BY <1>0, <2>1, <3>1
        DEF SInv, LatchInv, DoubtInv, DrainedInv, RefusedInv, FailedDrains, Ended
  <2> QED
    BY <1>2, <2>2, <2>3 DEF Recover
<1>3. CASE RecoverFails
  <2>1. /\ phase = "recover" /\ phase' = "up" /\ op = Idle /\ op' = Idle /\ doubt' = doubt
        /\ receipts' = receipts /\ HandlePersistenceFailure
    BY <1>0, <1>3 DEF RecoverFails
  <2>2. svc'.fault /\ svc'.latched /\ ~svc'.supply /\ (svc.inhibited => svc'.inhibited)
    BY <2>1, HandleDrains
  <2>3. DoubtInv'
    BY <1>0, <2>1, <2>2, DoubtKept, SameOpen
  <2> QED
    BY <1>0, <2>1, <2>2, <2>3 DEF SInv, LatchInv, DrainedInv, RefusedInv, FailedDrains, Ended
<1>4. ASSUME NEW supply \in BOOLEAN, Crash(supply) PROVE SInv' /\ FailedDrains
  <2>1. /\ phase' = "down" /\ op' = Idle /\ receipts' = receipts
        /\ doubt' = (doubt \/ Has(receipts, Unfinished))
        /\ svc' = [svc EXCEPT !.fault = FALSE, !.latched = FALSE, !.supply = supply]
    BY <1>4 DEF Crash
  <2>2. ~svc'.latched /\ svc'.inhibited = svc.inhibited
    BY <1>0, <2>1 DEF Services
  <2>3. DoubtInv'
    <3>1. CASE Has(receipts, Unfinished)
      BY <1>0, <2>1, <3>1 DEF DoubtInv, Open, Has
    <3>2. CASE doubt
      BY <1>0, <2>1, <2>2, <3>2 DEF SInv, DoubtInv, Open
    <3> QED
      BY <2>1, <3>1, <3>2 DEF DoubtInv
  <2> QED
    BY <1>0, <2>1, <2>2, <2>3 DEF SInv, LatchInv, DrainedInv, RefusedInv, FailedDrains, Ended
<1>5. ASSUME NEW stored \in BOOLEAN, NEW inhibited \in BOOLEAN, Shutdown(stored, inhibited)
      PROVE  SInv' /\ FailedDrains
  <2>1. /\ phase' = "down" /\ op = Idle /\ op' = Idle /\ doubt' = doubt
        /\ receipts' = Promoted \/ receipts' = receipts
        /\ svc' = [fault |-> FALSE, latched |-> FALSE, supply |-> FALSE,
                   inhibited |-> svc.inhibited \/ inhibited]
    BY <1>0, <1>5 DEF Shutdown
  <2>2. ~svc'.latched /\ ~svc'.supply /\ (svc.inhibited => svc'.inhibited)
    BY <2>1
  <2>3. DoubtInv'
    BY <1>0, <2>1, <2>2, DoubtKept, SameOpen, PromotedOpen
  <2> QED
    BY <1>0, <2>1, <2>2, <2>3 DEF SInv, LatchInv, DrainedInv, RefusedInv, FailedDrains, Ended
<1> QED
  BY <1>1, <1>2, <1>3, <1>4, <1>5

LEMMA IdleDrains ==
    ASSUME SInv, IInv',
           \/ \E n \in Nonces : Status(n)
           \/ StatusFails
           \/ \E supply, fault, inhibited \in BOOLEAN : OtherWrite(supply, fault, inhibited)
           \/ ClearFault
           \/ \E id \in Ids, n \in Nonces : Replay(id, n)
    PROVE  SInv' /\ FailedDrains
<1>0. svc \in Services /\ Idle.pc = "idle"
  BY Shape
<1>1. /\ phase = "up" /\ phase' = "up" /\ op.pc = "idle" /\ op' = op
  BY DEF Status, StatusFails, OtherWrite, ClearFault, Replay, Ready
<1>2. FailedDrains /\ RefusedInv'
  BY <1>1 DEF FailedDrains, Ended, RefusedInv
<1>3. ASSUME NEW n \in Nonces, Status(n) PROVE SInv'
  <2>1. svc' = svc /\ receipts' = Promoted /\ doubt' = doubt
    BY <1>3 DEF Status
  <2>2. DoubtInv'
    BY <1>1, <2>1, DoubtKept, PromotedOpen
  <2> QED
    BY <1>1, <1>2, <2>1, <2>2 DEF SInv, LatchInv, DrainedInv
<1>4. CASE StatusFails
  <2>1. HandlePersistenceFailure /\ receipts' = receipts /\ doubt' = doubt
    BY <1>4 DEF StatusFails
  <2>2. svc'.fault /\ svc'.latched /\ ~svc'.supply /\ (svc.inhibited => svc'.inhibited)
    BY <2>1, HandleDrains
  <2>3. DoubtInv'
    BY <1>1, <2>1, <2>2, DoubtKept, SameOpen
  <2> QED
    BY <1>1, <1>2, <2>1, <2>2, <2>3 DEF SInv, LatchInv, DrainedInv
<1>5. ASSUME NEW supply \in BOOLEAN, NEW fault \in BOOLEAN, NEW inhibited \in BOOLEAN,
             OtherWrite(supply, fault, inhibited)
      PROVE  SInv'
  <2>1. /\ supply => ~fault /\ ~svc.inhibited
        /\ svc.fault => fault
        /\ svc.inhibited => inhibited
        /\ svc' = [svc EXCEPT !.supply = supply, !.fault = fault, !.inhibited = inhibited]
        /\ receipts' = receipts /\ doubt' = doubt
    BY <1>5 DEF OtherWrite
  <2>2. svc'.supply = supply /\ svc'.fault = fault /\ svc'.inhibited = inhibited
        /\ svc'.latched = svc.latched
    BY Zenon, <1>0, <2>1 DEF Services
  <2>3. DoubtInv'
    BY <1>1, <2>1, <2>2, DoubtKept, SameOpen
  <2> QED
    BY <1>1, <1>2, <2>1, <2>2, <2>3 DEF SInv, LatchInv, DrainedInv
<1>6. CASE ClearFault
  <2>1. /\ ~svc.latched /\ ~doubt'
        /\ svc' = [svc EXCEPT !.fault = FALSE, !.inhibited = FALSE, !.supply = FALSE]
    BY <1>6 DEF ClearFault
  <2>2. ~svc'.latched
    BY <1>0, <2>1 DEF Services
  <2> QED
    BY <1>1, <1>2, <2>1, <2>2 DEF SInv, LatchInv, DoubtInv, DrainedInv
<1>7. ASSUME NEW id \in Ids, NEW n \in Nonces, Replay(id, n) PROVE SInv'
  <2>1. svc' = svc /\ receipts' = receipts /\ doubt' = doubt
    BY <1>7 DEF Replay
  <2>2. DoubtInv'
    BY <1>1, <2>1, DoubtKept, SameOpen
  <2> QED
    BY <1>1, <1>2, <2>1, <2>2 DEF SInv, LatchInv, DrainedInv
<1> QED
  BY <1>2, <1>3, <1>4, <1>5, <1>6, <1>7

(* A START is not admitted under an unknown outcome. *)
LEMMA AdmitDrains ==
    ASSUME SInv, IInv', NEW id \in Ids, NEW nonce \in Nonces, NEW action \in {"start", "stop"},
           Admit(id, nonce, action)
    PROVE  SInv' /\ FailedDrains
<1>1. /\ phase = "up" /\ phase' = "up" /\ op.pc = "idle"
      /\ action = "start" => ~svc.fault /\ ~svc.inhibited
      /\ op'.pc = "begin" /\ op'.id = id /\ op'.action = action
      /\ UNCHANGED <<svc, receipts, doubt>>
  BY DEF Admit, Ready
<1>2. \A n \in DOMAIN receipts : receipts[n].id # id
  BY DEF Admit, Recorded, Has
<1>3. OpenKept
  BY <1>1, <1>2 DEF OpenKept, Open
<1>4. DoubtInv'
  BY <1>1, <1>3, DoubtKept
<1> QED
  BY <1>1, <1>4 DEF SInv, LatchInv, DrainedInv, RefusedInv, FailedDrains, Ended

LEMMA BeginDrains ==
    ASSUME SInv, IInv', Begin PROVE SInv' /\ FailedDrains
<1> DEFINE new == [id |-> op.id, nonce |-> op.nonce, action |-> op.action,
                   done |-> FALSE, state |-> "pending"]
           rows == Pruned(receipts)
<1>1. /\ op.pc = "begin" /\ receipts' = Append(rows, new) /\ op' = [op EXCEPT !.pc = "check"]
      /\ UNCHANGED <<phase, svc, doubt>>
  BY DEF Begin
<1>2. op \in Ops /\ receipts \in Seq(Receipts) /\ phase = "up"
  BY <1>1, Shape
<1>3. op'.pc = "check" /\ op'.id = op.id /\ op'.action = op.action
  BY <1>1, <1>2 DEF Ops
<1>4. new \in Receipts
  BY <1>2 DEF Receipts, Ops
<1>5. rows \in Seq(Receipts) /\ DOMAIN rows = 1..Len(rows) /\ Len(rows) \in Nat
  BY <1>2, PrunedFacts, RowFacts
<1>6. OpenKept
  <2> SUFFICES ASSUME NEW n \in DOMAIN receipts, Open(n)
               PROVE  \E k \in DOMAIN receipts' : Open(k)'
    BY DEF OpenKept
  <2>1. Unfinished(receipts[n]) /\ receipts[n].id # op.id
    BY <1>1 DEF Open
  <2>2. PICK k \in DOMAIN rows : rows[k] = receipts[n]
    BY <1>2, <2>1, PrunedOpen
  <2> HIDE DEF new, rows
  <2>3. k \in DOMAIN receipts' /\ receipts'[k] = rows[k]
    <3>1. Append(rows, new) \in Seq(Receipts)
      BY <1>4, <1>5, AppendProperties
    <3> QED
      BY <1>1, <1>4, <1>5, <3>1, AppendProperties, RowFacts
  <2> QED
    BY <1>3, <2>1, <2>2, <2>3 DEF Open
<1>7. DoubtInv'
  BY <1>1, <1>6, DoubtKept
<1> QED
  BY <1>1, <1>2, <1>3, <1>7 DEF SInv, LatchInv, DrainedInv, RefusedInv, FailedDrains, Ended

(* The service's answer: only a START that succeeds supplies. *)
LEMMA ServeDrains ==
    ASSUME SInv, IInv', NEW out \in Services, Serve(out) PROVE SInv' /\ FailedDrains
<1> DEFINE ok == ~out.fault /\ (op.action = "start" => out.supply)
<1>1. /\ op.pc = "serve" /\ svc' = out /\ op' = [op EXCEPT !.pc = "finish", !.ok = ok]
      /\ svc.fault => out.fault
      /\ out.latched => out.fault
      /\ out.supply => op.action = "start" /\ ~out.fault /\ ~svc.inhibited
      /\ IF out.fault THEN svc.inhibited => out.inhibited ELSE out.inhibited = svc.inhibited
      /\ UNCHANGED <<phase, receipts, doubt>>
  BY DEF Serve
<1>2. op \in Ops /\ phase = "up"
  BY <1>1, Shape
<1>3. ok <=> ~out.fault /\ (op.action = "start" => out.supply)
  OBVIOUS
<1> HIDE DEF ok
<1>4. op'.pc = "finish" /\ op'.id = op.id /\ op'.action = op.action /\ op'.ok = ok
  BY Zenon, <1>1, <1>2 DEF Ops
<1>5. DoubtInv'
  BY <1>1, <1>4, DoubtKept, SameOpen
<1>6. op.action \in {"start", "stop"}
  BY <1>2 DEF Ops
<1>7. LatchInv' /\ DrainedInv'
  BY <1>1, <1>2, <1>4 DEF SInv, LatchInv, DrainedInv
<1>8. RefusedInv'
  BY <1>1, <1>3, <1>4, <1>6 DEF RefusedInv
<1>9. FailedDrains
  BY <1>4 DEF FailedDrains, Ended
<1> QED
  BY <1>5, <1>7, <1>8, <1>9 DEF SInv

LEMMA ActionDrains ==
    ASSUME SInv, IInv',
           \/ BeginFails \/ Expire \/ ExpireFails \/ Enter
           \/ ServeRaises \/ Finish \/ FinishFails \/ Validate \/ Withdraw \/ ValidateFails
           \/ Tick
    PROVE  SInv' /\ FailedDrains
<1>0. /\ Idle.pc = "idle" /\ (op.pc # "idle" => phase = "up" /\ op \in Ops)
      /\ (op = Idle \/ (op \in Ops /\ op.pc # "idle"))
      /\ \A n \in DOMAIN receipts : receipts[n] \in Receipts
  BY Shape
<1>1. CASE BeginFails \/ ExpireFails \/ ServeRaises \/ FinishFails \/ ValidateFails
  <2>1. op.pc # "idle" /\ StorageFails
    BY <1>1 DEF BeginFails, ExpireFails, ServeRaises, FinishFails, ValidateFails
  <2> QED
    BY <2>1, StorageFailsDrains
<1>2. CASE Expire
  <2>1. /\ op.pc = "check" /\ op' = Idle /\ phase' = phase /\ svc' = svc /\ doubt' = doubt
        /\ receipts' = [n \in DOMAIN receipts |->
                          IF receipts[n].id = op.id
                          THEN [receipts[n] EXCEPT !.done = TRUE, !.state = "rejected"]
                          ELSE receipts[n]]
    BY <1>2 DEF Expire, Answered, Update, ThisRow
  <2>2. OpenKept
    BY <1>0, <2>1, OthersOpen
  <2>3. DoubtInv'
    BY <2>1, <2>2, DoubtKept
  <2> QED
    BY <1>0, <2>1, <2>3 DEF SInv, LatchInv, DrainedInv, RefusedInv, FailedDrains
<1>3. CASE Enter
  <2>1. /\ op.pc = "check" /\ op' = [op EXCEPT !.pc = "serve"]
        /\ UNCHANGED <<phase, svc, receipts, doubt>>
    BY <1>3 DEF Enter
  <2>2. op'.pc = "serve" /\ op'.id = op.id /\ op'.action = op.action
    BY <1>0, <2>1 DEF Ops
  <2>3. DoubtInv'
    BY <2>1, <2>2, DoubtKept, SameOpen
  <2> QED
    BY <1>0, <2>1, <2>2, <2>3 DEF SInv, LatchInv, DrainedInv, RefusedInv, FailedDrains, Ended
<1>4. CASE Finish
  <2>1. /\ op.pc = "finish" /\ phase' = phase /\ doubt' = doubt
        /\ (IF Fresh THEN svc' = svc ELSE HandlePersistenceFailure)
    BY <1>4 DEF Finish
  <2>2. phase = "up" /\ op \in Ops
    BY <1>0, <2>1
  <2>3. /\ svc.inhibited => svc'.inhibited
        /\ ~Fresh => svc'.fault /\ svc'.latched /\ ~svc'.supply
    BY <2>1, HandleDrains
  <2>4. LatchInv' /\ (doubt => ~svc'.supply /\ (svc'.fault \/ svc'.inhibited))
    <3>1. CASE Fresh
      BY <2>1, <2>2, <3>1 DEF SInv, LatchInv, DrainedInv
    <3>2. CASE ~Fresh
      BY <2>1, <2>2, <2>3, <3>2 DEF LatchInv
    <3> QED
      BY <3>1, <3>2
  <2>5. CASE Fresh /\ op.ok
    <3>1. /\ receipts' = [n \in DOMAIN receipts |->
                            IF receipts[n].id = op.id
                            THEN [receipts[n] EXCEPT !.done = TRUE] ELSE receipts[n]]
          /\ op' = [op EXCEPT !.pc = "validate"]
      BY <1>4, <2>5 DEF Finish, Update, ThisRow
    <3>2. op'.pc = "validate" /\ op'.id = op.id /\ op'.action = op.action
      BY <2>2, <3>1 DEF Ops
    <3>3. OpenKept
      BY <2>1, <3>1, <3>2, OthersOpen
    <3>4. DoubtInv'
      BY <2>1, <2>3, <3>3, DoubtKept
    <3>5. DrainedInv'
      BY <2>1, <2>2, <2>4, <3>2 DEF SInv, DrainedInv
    <3> QED
      BY <2>4, <3>2, <3>4, <3>5 DEF SInv, RefusedInv, FailedDrains, Ended
  <2>6. CASE ~(Fresh /\ op.ok)
    <3>1. /\ op' = Idle
          /\ receipts' = [n \in DOMAIN receipts |->
                            IF receipts[n].id = op.id
                            THEN [receipts[n] EXCEPT !.done = TRUE, !.state = "rejected"]
                            ELSE receipts[n]]
      BY <1>4, <2>6 DEF Finish, Answered, Update, ThisRow
    <3>2. OpenKept
      BY <1>0, <2>1, <3>1, OthersOpen
    <3>3. DoubtInv'
      BY <2>1, <2>3, <3>2, DoubtKept
    <3>4. ~svc'.supply
      BY <2>1, <2>3, <2>6 DEF SInv, RefusedInv
    <3> QED
      BY <1>0, <2>1, <2>4, <3>1, <3>3, <3>4 DEF SInv, DrainedInv, RefusedInv, FailedDrains
  <2> QED
    BY <2>5, <2>6
<1>5. CASE Validate
  <2>1. /\ op.pc = "validate" /\ op' = Idle /\ told' = [told EXCEPT ![<<op.id, op.nonce>>] = "success"]
        /\ UNCHANGED <<phase, svc, receipts, doubt>>
    BY <1>5 DEF Validate, Answered
  <2>2. <<op.id, op.nonce>> \in Requests
    BY <1>0, <2>1 DEF Ops, Requests
  <2>3. told'[<<op.id, op.nonce>>] = "success"
    BY <2>1, <2>2 DEF SInv, IInv, TypeOK
  <2>4. DoubtInv'
    BY <1>0, <2>1, DoubtKept, SameOpen
  <2> QED
    BY <1>0, <2>1, <2>3, <2>4 DEF SInv, LatchInv, DrainedInv, RefusedInv, FailedDrains
<1>6. CASE Withdraw
  <2>1. /\ op.pc = "validate" /\ op' = Idle /\ phase' = phase /\ doubt' = doubt
        /\ HandlePersistenceFailure
        /\ receipts' = [n \in DOMAIN receipts |->
                          IF receipts[n].id = op.id
                          THEN [receipts[n] EXCEPT !.state = "unknown"] ELSE receipts[n]]
    BY <1>6 DEF Withdraw, Answered, Update, ThisRow
  <2>2. svc'.fault /\ svc'.latched /\ ~svc'.supply /\ (svc.inhibited => svc'.inhibited)
    BY <2>1, HandleDrains
  <2>3. OpenKept
    BY <1>0, <2>1, OthersOpen
  <2>4. DoubtInv'
    BY <2>1, <2>2, <2>3, DoubtKept
  <2> QED
    BY <1>0, <2>1, <2>2, <2>4 DEF SInv, LatchInv, DrainedInv, RefusedInv, FailedDrains
<1>7. CASE Tick
  <2>1. /\ UNCHANGED <<phase, svc, receipts, doubt>> /\ phase = "up"
        /\ op' = IF op.pc # "idle" /\ Fresh THEN [op EXCEPT !.age = op.age + 1] ELSE op
    BY <1>7 DEF Tick
  <2>2. \/ op' = op
        \/ /\ op.pc # "idle" /\ op'.pc = op.pc /\ op'.id = op.id
           /\ op'.action = op.action /\ op'.ok = op.ok
    BY <1>0, <2>1 DEF Ops
  <2>3. DoubtInv'
    BY <2>1, <2>2, DoubtKept, SameOpen
  <2> QED
    BY <2>1, <2>2, <2>3 DEF SInv, LatchInv, DrainedInv, RefusedInv, FailedDrains, Ended
<1> QED
  BY <1>1, <1>2, <1>3, <1>4, <1>5, <1>6, <1>7

-----------------------------------------------------------------------------
LEMMA DrainsInit == Init => SInv
<1> SUFFICES ASSUME Init PROVE SInv
  OBVIOUS
<1>1. op.pc = "idle"
  BY DEF Init, Idle
<1> QED
  BY <1>1, InvInit DEF Init, SInv, LatchInv, DoubtInv, DrainedInv, RefusedInv

LEMMA DrainsStep == SInv /\ [Next]_vars => SInv' /\ [FailedDrains]_vars
<1> SUFFICES ASSUME SInv, [Next]_vars PROVE SInv' /\ [FailedDrains]_vars
  OBVIOUS
<1>1. IInv'
  BY InvStep DEF SInv
<1>2. CASE Next
  BY <1>1, <1>2, LifeDrains, IdleDrains, AdmitDrains, BeginDrains, ServeDrains, ActionDrains DEF Next
<1>3. CASE UNCHANGED vars
  <2>1. OpenKept
    BY <1>3 DEF vars, OpenKept, Open
  <2>2. DoubtInv'
    BY <1>3, <2>1, DoubtKept DEF vars
  <2> QED
    BY <1>1, <1>3, <2>2 DEF vars, SInv, LatchInv, DrainedInv, RefusedInv
<1> QED
  BY <1>2, <1>3

(* As long as an action's outcome is unknown and no person has cleared it, *)
(* a process that has started neither supplies nor is without its fault,   *)
(* wherever the last one ended (recover_pending and                        *)
(* handle_persistence_failure).                                            *)
THEOREM DoubtIsInhibited == Spec => []DoubtInhibits
<1>1. SInv => DoubtInhibits
  BY DEF SInv, DrainedInv, DoubtInhibits
<1> QED
  BY <1>1, DrainsInit, DrainsStep, PTL DEF Spec

(* An action that fails after its admission leaves the pair drained, or    *)
(* expired before the service was asked (WeatherActionGate._execute).      *)
THEOREM FailureDrains == Spec => FailedActionDrains
<1>1. [FailedDrains]_vars
        => [Ended /\ told'[<<op.id, op.nonce>>] = "failed"
              => ~svc'.supply \/ (op.pc = "check" /\ svc' = svc)]_vars
  BY DEF FailedDrains
<1> QED
  BY <1>1, DrainsInit, DrainsStep, PTL DEF Spec, FailedActionDrains
=============================================================================
