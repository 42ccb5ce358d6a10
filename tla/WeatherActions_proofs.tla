------------------------- MODULE WeatherActions_proofs -------------------------
(***************************************************************************)
(* WeatherActions for any request ids, nonces, lifetime and table size.    *)
(***************************************************************************)
EXTENDS WeatherActions, SequenceTheorems, WellFoundedInduction, TLAPS

(* A row that is, or may yet become, a success. *)
Claims(r) == r.state = "success" \/ (r.state = "pending" /\ r.done)

-----------------------------------------------------------------------------
(* Rows. *)

LEMMA RowFacts ==
    ASSUME NEW rows \in Seq(Receipts)
    PROVE  /\ Len(rows) \in Nat /\ DOMAIN rows = 1..Len(rows)
           /\ \A n \in DOMAIN rows : rows[n] \in Receipts
  BY LenProperties

(* Rows that are changed one by one are still rows. *)
LEMMA Changed ==
    ASSUME NEW rows \in Seq(Receipts), NEW new, new = [n \in DOMAIN rows |-> new[n]],
           \A n \in DOMAIN rows : new[n] \in Receipts
    PROVE  new \in Seq(Receipts) /\ DOMAIN new = DOMAIN rows /\ Len(new) = Len(rows)
<1>1. new \in [1..Len(rows) -> Receipts] /\ Len(rows) \in Nat
  BY RowFacts
<1>2. new \in Seq(Receipts)
  BY <1>1, SeqDef
<1>3. Len(new) = Len(rows)
  BY <1>1, <1>2, LenProperties
<1> QED
  BY <1>1, <1>2, <1>3

(* What a status or a shutdown promotes was done before. *)
LEMMA PromotedFacts ==
    ASSUME receipts \in Seq(Receipts)
    PROVE  /\ Promoted \in Seq(Receipts) /\ DOMAIN Promoted = DOMAIN receipts
           /\ Len(Promoted) = Len(receipts)
           /\ \A n \in DOMAIN receipts :
                 /\ Promoted[n].id = receipts[n].id /\ Promoted[n].nonce = receipts[n].nonce
                 /\ Claims(Promoted[n]) => Claims(receipts[n])
<1>1. Promoted = [n \in DOMAIN receipts |->
                    IF receipts[n].state = "pending" /\ receipts[n].done
                       /\ <<receipts[n].id, receipts[n].nonce>> \in validated
                    THEN [receipts[n] EXCEPT !.state = "success"] ELSE receipts[n]]
  BY DEF Promoted, Update, Pending
<1>2. \A n \in DOMAIN receipts :
        /\ Promoted[n] \in Receipts
        /\ Promoted[n].id = receipts[n].id /\ Promoted[n].nonce = receipts[n].nonce
        /\ Claims(Promoted[n]) => Claims(receipts[n])
  BY <1>1, RowFacts DEF Receipts, Claims
<1> QED
  BY <1>1, <1>2, Changed

(* The table without a row. *)
LEMMA WithoutFacts ==
    ASSUME NEW rows \in Seq(Receipts), NEW n \in DOMAIN rows
    PROVE  /\ Without(rows, n) \in Seq(Receipts) /\ Len(Without(rows, n)) = Len(rows) - 1
           /\ \A k \in DOMAIN Without(rows, n) :
                 /\ Without(rows, n)[k] = rows[IF k < n THEN k ELSE k + 1]
                 /\ (IF k < n THEN k ELSE k + 1) \in DOMAIN rows
<1>1. Len(rows) \in Nat /\ DOMAIN rows = 1..Len(rows) /\ n \in 1..Len(rows)
      /\ \A k \in 1..Len(rows) : rows[k] \in Receipts
  BY RowFacts
<1> DEFINE a == SubSeq(rows, 1, n - 1)
           b == SubSeq(rows, n + 1, Len(rows))
<1>2. /\ a \in Seq(Receipts) /\ Len(a) = n - 1 /\ \A k \in 1..(n - 1) : a[k] = rows[k]
  <2>1. \A k \in 1..(n - 1) : rows[k] \in Receipts
    BY <1>1
  <2> QED
    BY <1>1, <2>1, SubSeqProperties, Z3
<1>3. /\ b \in Seq(Receipts) /\ Len(b) = Len(rows) - n
      /\ \A k \in 1..(Len(rows) - n) : b[k] = rows[n + k]
  <2>1. \A k \in (n + 1)..Len(rows) : rows[k] \in Receipts
    BY <1>1
  <2> QED
    BY <1>1, <2>1, SubSeqProperties, Z3
<1>4. Without(rows, n) = a \o b
  BY DEF Without
<1> HIDE DEF a, b
<1>5. /\ a \o b \in Seq(Receipts) /\ Len(a \o b) = Len(a) + Len(b)
      /\ \A k \in 1..(Len(a) + Len(b)) :
            (a \o b)[k] = IF k <= Len(a) THEN a[k] ELSE b[k - Len(a)]
  BY <1>2, <1>3, ConcatProperties
<1>6. Len(a \o b) = Len(rows) - 1
  BY <1>1, <1>2, <1>3, <1>5
<1>7. DOMAIN (a \o b) = 1..(Len(rows) - 1)
  BY <1>5, <1>6, RowFacts
<1>8. ASSUME NEW k \in 1..(Len(rows) - 1)
      PROVE  /\ (a \o b)[k] = rows[IF k < n THEN k ELSE k + 1]
             /\ (IF k < n THEN k ELSE k + 1) \in 1..Len(rows)
  <2>1. (a \o b)[k] = IF k <= Len(a) THEN a[k] ELSE b[k - Len(a)]
    BY <1>1, <1>2, <1>3, <1>5, <1>8
  <2>2. CASE k < n
    <3>1. k \in 1..(n - 1) /\ k <= Len(a)
      BY <1>1, <1>2, <2>2
    <3> QED
      BY <1>1, <1>2, <2>1, <2>2, <3>1
  <2>3. CASE ~(k < n)
    <3>1. k - Len(a) \in 1..(Len(rows) - n) /\ ~(k <= Len(a)) /\ n + (k - Len(a)) = k + 1
      BY <1>1, <1>2, <2>3
    <3>2. (a \o b)[k] = b[k - Len(a)] /\ b[k - Len(a)] = rows[n + (k - Len(a))]
      BY <1>3, <2>1, <3>1
    <3>3. k + 1 \in 1..Len(rows)
      BY <1>1, <2>3
    <3> QED
      BY <2>3, <3>1, <3>2, <3>3
  <2> QED
    BY <2>2, <2>3
<1> QED
  BY <1>1, <1>4, <1>5, <1>6, <1>7, <1>8

(* The oldest row that may go can be found. *)
LEMMA OldestPrunable ==
    ASSUME NEW rows \in Seq(Receipts), Prunable(rows) # {}
    PROVE  (CHOOSE n \in Prunable(rows) : \A m \in Prunable(rows) : n <= m) \in Prunable(rows)
<1>1. Prunable(rows) \subseteq Nat
  BY RowFacts DEF Prunable
<1> DEFINE below == {ss \in Nat \X Nat : ss[1] < ss[2]}
<1>2. IsWellFoundedOn(below, Nat)
  BY NatLessThanWellFounded DEF OpToRel
<1>3. PICK n \in Prunable(rows) : \A m \in Prunable(rows) : ~(<<m, n>> \in below)
  <2> HIDE DEF below
  <2> QED
    BY <1>1, <1>2, WFMin
<1>4. ASSUME NEW m \in Prunable(rows) PROVE n <= m
  <2>1. m \in Nat /\ n \in Nat
    BY <1>1
  <2>2. <<m, n>> \in Nat \X Nat /\ <<m, n>>[1] = m /\ <<m, n>>[2] = n
    BY <2>1
  <2>3. ~(m < n)
    BY <1>3, <2>2
  <2> QED
    BY <2>1, <2>3
<1> QED
  BY <1>4

(* Pruning takes a row at most, and leaves the others in their order. *)
LEMMA PrunedFacts ==
    ASSUME NEW rows \in Seq(Receipts)
    PROVE  /\ Pruned(rows) \in Seq(Receipts) /\ Len(Pruned(rows)) \in Nat
           /\ \A k \in DOMAIN Pruned(rows) : \E m \in DOMAIN rows : Pruned(rows)[k] = rows[m]
           /\ (\A k, m \in DOMAIN rows : rows[k].id = rows[m].id => k = m)
                 => \A k, m \in DOMAIN Pruned(rows) :
                       Pruned(rows)[k].id = Pruned(rows)[m].id => k = m
<1>1. CASE Len(rows) < Capacity \/ Prunable(rows) = {}
  BY <1>1, RowFacts DEF Pruned
<1>2. CASE ~(Len(rows) < Capacity \/ Prunable(rows) = {})
  <2>1. PICK n \in DOMAIN rows : Pruned(rows) = Without(rows, n)
    BY <1>2, OldestPrunable DEF Pruned, Prunable
  <2> DEFINE w == Without(rows, n)
             at(k) == IF k < n THEN k ELSE k + 1
  <2>2. /\ w \in Seq(Receipts)
        /\ \A k \in DOMAIN w : w[k] = rows[at(k)] /\ at(k) \in DOMAIN rows
    BY WithoutFacts
  <2>3. DOMAIN w \subseteq Nat /\ n \in Nat /\ Len(w) \in Nat
    BY <2>2, RowFacts
  <2>4. \A k, m \in DOMAIN w : at(k) = at(m) => k = m
    BY <2>3
  <2> HIDE DEF w, at
  <2>5. Pruned(rows) = w
    BY <2>1 DEF w
  <2> QED
    BY <2>2, <2>3, <2>4, <2>5
<1> QED
  BY <1>1, <1>2

-----------------------------------------------------------------------------
(* The inductive invariant. *)

Ops == [pc : Steps, id : Ids, nonce : Nonces, action : {"start", "stop"},
        age : 0..NonceLife, ok : BOOLEAN]

(* The nonce of the action under way is spent, and has had its effect once *)
(* the service has been asked; the row with its id, if any, is its own.    *)
OpInv ==
    /\ op = Idle \/ (op \in Ops /\ op.pc # "idle")
    /\ op.pc # "idle" =>
          /\ nonces[op.nonce] = Dead
          /\ effects[op.nonce] = IF op.pc \in {"begin", "check"} THEN 0 ELSE 1
          /\ \A n \in DOMAIN receipts :
                receipts[n].id = op.id => op.pc # "begin" /\ receipts[n].nonce = op.nonce

(* A nonce that can still be used has not had its effect. *)
NonceInv == \A n \in Nonces : nonces[n] # Dead => effects[n] = 0

(* A row that may be replayed as a success had its effect. *)
RowInv == \A n \in DOMAIN receipts : Claims(receipts[n]) => effects[receipts[n].nonce] = 1

IInv == TypeOK /\ OpInv /\ NonceInv /\ RowInv /\ AtMostOnce

-----------------------------------------------------------------------------
(* What a step that neither admits, begins nor enters keeps. *)

NoncesKept ==
    /\ nonces' \in [Nonces -> Dead..NonceLife]
    /\ \A n \in Nonces : nonces[n] = Dead => nonces'[n] = Dead

OpKept ==
    \/ op' = op \/ op' = Idle
    \/ /\ op' \in Ops /\ op'.pc # "idle" /\ op.pc # "idle"
       /\ op'.id = op.id /\ op'.nonce = op.nonce /\ (op'.pc = "begin" => op.pc = "begin")
       /\ op'.pc \in {"begin", "check"} <=> op.pc \in {"begin", "check"}

RowsKept(new) ==
    /\ new \in Seq(Receipts) /\ DOMAIN new = DOMAIN receipts /\ Len(new) = Len(receipts)
    /\ \A n \in DOMAIN receipts :
          /\ new[n].id = receipts[n].id /\ new[n].nonce = receipts[n].nonce
          /\ Claims(new[n]) => Claims(receipts[n]) \/ effects[receipts[n].nonce] = 1

ToldKept ==
    /\ told' \in [Requests -> {"none", "failed", "success"}]
    /\ \A r \in Requests :
          told'[r] = "success" => told[r] = "success" \/ effects[r[2]] = 1

LEMMA Keeps ==
    ASSUME IInv, effects' = effects, phase' \in {"down", "recover", "up"}, svc' \in Services,
           validated' \subseteq Requests, doubt' \in BOOLEAN,
           NoncesKept, OpKept, RowsKept(receipts'), ToldKept
    PROVE  IInv'
<1> USE DEF IInv
<1>1. TypeOK'
  <2>1. /\ receipts' \in Seq(Receipts) /\ Len(receipts') <= Capacity
        /\ \A m, n \in DOMAIN receipts' : receipts'[m].id = receipts'[n].id => m = n
    BY DEF TypeOK, RowsKept
  <2>2. /\ op' = Idle \/ op' \in Ops
    BY DEF OpKept, OpInv
  <2>3. /\ nonces' \in [Nonces -> Dead..NonceLife]
        /\ told' \in [Requests -> {"none", "failed", "success"}]
        /\ effects' \in [Nonces -> Nat]
    BY DEF TypeOK, NoncesKept, ToldKept
  <2> QED
    BY Zenon, <2>1, <2>2, <2>3 DEF TypeOK, Ops
<1>2. OpInv'
  <2>1. CASE op' = Idle
    BY <2>1 DEF OpInv, Idle
  <2>2. CASE op' # Idle
    <3>1. /\ op \in Ops /\ op.pc # "idle" /\ op' \in Ops /\ op'.pc # "idle"
          /\ op'.id = op.id /\ op'.nonce = op.nonce /\ (op'.pc = "begin" => op.pc = "begin")
          /\ op'.pc \in {"begin", "check"} <=> op.pc \in {"begin", "check"}
      BY <2>2 DEF OpKept, OpInv, Idle
    <3>2. nonces'[op.nonce] = Dead
      BY <3>1 DEF OpInv, NoncesKept, Ops
    <3>3. effects[op.nonce] = IF op'.pc \in {"begin", "check"} THEN 0 ELSE 1
      BY <3>1 DEF OpInv
    <3>4. \A n \in DOMAIN receipts' :
             receipts'[n].id = op.id => op'.pc # "begin" /\ receipts'[n].nonce = op.nonce
      BY <3>1 DEF OpInv, RowsKept
    <3> QED
      BY <3>1, <3>2, <3>3, <3>4 DEF OpInv
  <2> QED
    BY <2>1, <2>2
<1>3. NonceInv'
  BY DEF NonceInv, NoncesKept
<1>4. RowInv'
  <2> SUFFICES ASSUME NEW n \in DOMAIN receipts', Claims(receipts'[n])
               PROVE  effects[receipts'[n].nonce] = 1
    BY DEF RowInv, Claims
  <2> QED
    BY DEF RowsKept, RowInv
<1>5. AtMostOnce'
  BY DEF AtMostOnce, ToldKept
<1> QED
  BY <1>1, <1>2, <1>3, <1>4, <1>5

-----------------------------------------------------------------------------
(* The parts of which the steps are made. *)

LEMMA SameNonces == ASSUME TypeOK, nonces' = nonces \/ nonces' = Killed PROVE NoncesKept
<1>1. Killed \in [Nonces -> Dead..NonceLife] /\ \A n \in Nonces : nonces[n] = Dead => Killed[n] = Dead
  BY GateAssumption DEF Killed, TypeOK, Dead
<1> QED
  BY <1>1 DEF NoncesKept, TypeOK

LEMMA HandleFacts ==
    ASSUME TypeOK, HandlePersistenceFailure PROVE svc' \in Services /\ NoncesKept
<1>1. svc \in Services
  BY DEF TypeOK
<1>2. svc' \in Services
  BY <1>1 DEF HandlePersistenceFailure, Services
<1>3. nonces' = nonces \/ nonces' = Killed
  BY DEF HandlePersistenceFailure
<1> QED
  BY <1>2, <1>3, SameNonces

LEMMA SameRows == ASSUME TypeOK, receipts' = receipts PROVE RowsKept(receipts')
  BY DEF TypeOK, RowsKept

LEMMA SameTold == ASSUME TypeOK, told' = told PROVE ToldKept
  BY DEF TypeOK, ToldKept

LEMMA AnsweredFacts ==
    ASSUME IInv, op.pc # "idle", NEW answer \in {"failed", "success"}, Answered(answer),
           answer = "success" => effects[op.nonce] = 1
    PROVE  op' = Idle /\ ToldKept
<1>1. op \in Ops /\ <<op.id, op.nonce>> \in Requests /\ <<op.id, op.nonce>>[2] = op.nonce
  BY DEF IInv, OpInv, Idle, Ops, Requests
<1>2. told \in [Requests -> {"none", "failed", "success"}]
  BY DEF IInv, TypeOK
<1> DEFINE q == <<op.id, op.nonce>>
<1>3. told' = [told EXCEPT ![q] = answer] /\ op' = Idle
  BY DEF Answered
<1> HIDE DEF q
<1>4. q \in Requests /\ q[2] = op.nonce
  BY <1>1 DEF q
<1> QED
  BY <1>2, <1>3, <1>4 DEF ToldKept

(* A step that changes the row of the action under way. *)
LEMMA ThisRowFacts ==
    ASSUME IInv, NEW new, new = [n \in DOMAIN receipts |-> new[n]],
           \A n \in DOMAIN receipts :
              \/ new[n] = receipts[n]
              \/ /\ new[n] \in Receipts
                 /\ new[n].id = receipts[n].id /\ new[n].nonce = receipts[n].nonce
                 /\ Claims(new[n]) => Claims(receipts[n]) \/ effects[receipts[n].nonce] = 1
    PROVE  RowsKept(new)
<1>1. receipts \in Seq(Receipts)
  BY DEF IInv, TypeOK
<1>2. \A n \in DOMAIN receipts : new[n] \in Receipts
  BY <1>1, RowFacts
<1> QED
  BY <1>1, <1>2, Changed DEF RowsKept

(* A storage failure ends the action and leaves the rows. *)
LEMMA StorageFailsKeeps == ASSUME IInv, StorageFails, op.pc # "idle" PROVE IInv'
<1>1. /\ HandlePersistenceFailure /\ Answered("failed")
      /\ UNCHANGED <<phase, receipts, validated, effects>>
      /\ doubt' = (doubt \/ Has(receipts, Unfinished))
  BY DEF StorageFails
<1>2. doubt' \in BOOLEAN
  BY <1>1
<1>3. TypeOK
  BY DEF IInv
<1>4. svc' \in Services /\ NoncesKept /\ op' = Idle /\ ToldKept
  BY <1>1, <1>3, HandleFacts, AnsweredFacts
<1> QED
  BY <1>1, <1>2, <1>3, <1>4, SameRows, Keeps DEF OpKept, TypeOK

-----------------------------------------------------------------------------
(* One lemma for the life of the process, one for what is between two      *)
(* actions, one for each step of an action.                                *)

LEMMA ProcessStep ==
    ASSUME IInv,
           \/ Startup \/ Recover \/ RecoverFails
           \/ \E supply \in BOOLEAN : Crash(supply)
           \/ \E stored, inhibited \in BOOLEAN : Shutdown(stored, inhibited)
    PROVE  IInv'
<1>0. TypeOK /\ svc \in Services /\ receipts \in Seq(Receipts)
  BY DEF IInv, TypeOK
<1>1. CASE Startup
  <2>1. svc' \in Services /\ NoncesKept
    <3>1. CASE HandlePersistenceFailure
      BY <1>0, <3>1, HandleFacts
    <3>2. CASE svc' = [svc EXCEPT !.supply = FALSE, !.fault = svc.inhibited] /\ UNCHANGED nonces
      <4>1. svc' \in Services
        BY <1>0, <3>2 DEF Services
      <4> QED
        BY <1>0, <3>2, <4>1, SameNonces
    <3> QED
      BY <1>1, <3>1, <3>2 DEF Startup
  <2> QED
    BY <1>0, <1>1, <2>1, SameRows, SameTold, Keeps DEF Startup, OpKept, TypeOK
<1>2. CASE Recover
  <2>1. svc' \in Services
    BY <1>0, <1>2 DEF Recover, Services
  <2>2. RowsKept(receipts')
    <3>1. CASE UNCHANGED receipts
      BY <1>0, <3>1, SameRows
    <3>2. CASE ~UNCHANGED receipts
      <4>1. receipts' = [n \in DOMAIN receipts |->
                           IF receipts[n].state = "pending"
                           THEN [receipts[n] EXCEPT !.state = "unknown"] ELSE receipts[n]]
        BY <1>2, <3>2 DEF Recover, Update, Pending
      <4>2. \A n \in DOMAIN receipts : receipts[n] \in Receipts
        BY <1>0, RowFacts
      <4>3. \A n \in DOMAIN receipts :
               \/ receipts'[n] = receipts[n]
               \/ /\ receipts'[n] \in Receipts
                  /\ receipts'[n].id = receipts[n].id /\ receipts'[n].nonce = receipts[n].nonce
                  /\ ~Claims(receipts'[n])
        BY <4>1, <4>2 DEF Receipts, Claims
      <4> QED
        BY <4>1, <4>3, ThisRowFacts
    <3> QED
      BY <3>1, <3>2
  <2> QED
    BY <1>0, <1>2, <2>1, <2>2, SameNonces, SameTold, Keeps DEF Recover, OpKept, TypeOK
<1>3. CASE RecoverFails
  BY <1>0, <1>3, HandleFacts, SameRows, SameTold, Keeps DEF RecoverFails, OpKept, TypeOK
<1>4. ASSUME NEW supply \in BOOLEAN, Crash(supply) PROVE IInv'
  <2>1. svc' \in Services
    BY <1>0, <1>4 DEF Crash, Services
  <2>2. doubt' \in BOOLEAN
    BY <1>4 DEF Crash
  <2> QED
    BY <1>0, <1>4, <2>1, <2>2, SameNonces, SameRows, SameTold, Keeps DEF Crash, OpKept, TypeOK
<1>5. ASSUME NEW stored \in BOOLEAN, NEW inhibited \in BOOLEAN, Shutdown(stored, inhibited)
      PROVE  IInv'
  <2>1. svc' \in Services
    BY <1>0, <1>5 DEF Shutdown, Services
  <2>2. RowsKept(receipts')
    BY <1>0, <1>5, PromotedFacts, SameRows DEF Shutdown, RowsKept
  <2> QED
    BY <1>0, <1>5, <2>1, <2>2, SameNonces, SameTold, Keeps DEF Shutdown, OpKept, TypeOK
<1> QED
  BY <1>1, <1>2, <1>3, <1>4, <1>5

LEMMA BetweenStep ==
    ASSUME IInv,
           \/ \E n \in Nonces : Status(n)
           \/ StatusFails
           \/ \E supply, fault, inhibited \in BOOLEAN : OtherWrite(supply, fault, inhibited)
           \/ ClearFault
           \/ \E id \in Ids, n \in Nonces : Replay(id, n)
           \/ Tick
    PROVE  IInv'
<1>0. TypeOK /\ svc \in Services /\ receipts \in Seq(Receipts)
      /\ nonces \in [Nonces -> Dead..NonceLife]
  BY DEF IInv, TypeOK
<1>1. ASSUME NEW n \in Nonces, Status(n) PROVE IInv'
  <2>1. RowsKept(receipts')
    BY <1>0, <1>1, PromotedFacts DEF Status, RowsKept
  <2>2. 0 \in Dead..NonceLife /\ Unissued # Dead
    BY GateAssumption DEF Dead, Unissued
  <2>3. NoncesKept
    BY <1>0, <1>1, <2>2 DEF Status, NoncesKept
  <2> QED
    BY <1>0, <1>1, <2>1, <2>3, SameTold, Keeps DEF Status, OpKept, TypeOK
<1>2. CASE StatusFails
  BY <1>0, <1>2, HandleFacts, SameRows, SameTold, Keeps DEF StatusFails, OpKept, TypeOK
<1>3. ASSUME NEW supply \in BOOLEAN, NEW fault \in BOOLEAN, NEW inhibited \in BOOLEAN,
             OtherWrite(supply, fault, inhibited)
      PROVE  IInv'
  <2>1. svc' \in Services
    BY <1>0, <1>3 DEF OtherWrite, Services
  <2> QED
    BY <1>0, <1>3, <2>1, SameNonces, SameRows, SameTold, Keeps DEF OtherWrite, OpKept, TypeOK
<1>4. CASE ClearFault
  <2>1. svc' \in Services
    BY <1>0, <1>4 DEF ClearFault, Services
  <2>2. doubt' \in BOOLEAN
    BY <1>4 DEF ClearFault
  <2> QED
    BY <1>0, <1>4, <2>1, <2>2, SameNonces, SameRows, SameTold, Keeps DEF ClearFault, OpKept, TypeOK
<1>5. ASSUME NEW id \in Ids, NEW nonce \in Nonces, Replay(id, nonce) PROVE IInv'
  <2> DEFINE q == <<id, nonce>>
             r == receipts[RowOf(id)]
  <2>1. /\ r.nonce = nonce /\ told' = [told EXCEPT ![q] = Replayed(r)]
        /\ UNCHANGED <<phase, svc, receipts, nonces, validated, op, effects, doubt>>
    BY <1>5 DEF Replay
  <2>2. RowOf(id) \in DOMAIN receipts
    BY <1>5 DEF Replay, Recorded, Has, RowOf
  <2>3. Replayed(r) \in {"failed", "success"} /\ (Replayed(r) = "success" => Claims(r))
    BY DEF Replayed, Pending, Claims
  <2>4. Replayed(r) = "success" => effects[nonce] = 1
    BY <2>1, <2>2, <2>3 DEF IInv, RowInv
  <2>5. q \in Requests /\ q[2] = nonce /\ told \in [Requests -> {"none", "failed", "success"}]
    BY <1>0 DEF Requests, TypeOK
  <2> HIDE DEF q, r
  <2>6. ToldKept
    BY <2>1, <2>3, <2>4, <2>5 DEF ToldKept
  <2> QED
    BY <1>0, <2>1, <2>6, SameNonces, SameRows, Keeps DEF OpKept, TypeOK
<1>6. CASE Tick
  <2>1. \A n \in Nonces :
           /\ nonces'[n] \in Dead..NonceLife
           /\ nonces[n] = Dead => nonces'[n] = Dead
    <3> SUFFICES ASSUME NEW n \in Nonces
                 PROVE  /\ nonces'[n] \in Dead..NonceLife
                        /\ nonces[n] = Dead => nonces'[n] = Dead
      OBVIOUS
    <3>1. nonces'[n] = IF nonces[n] < 0 THEN nonces[n]
                       ELSE IF nonces[n] + 1 < NonceLife THEN nonces[n] + 1 ELSE Dead
      BY <1>6 DEF Tick
    <3>2. nonces[n] \in Dead..NonceLife
      BY <1>0
    <3> QED
      BY <3>1, <3>2, GateAssumption DEF Dead
  <2>2. nonces' = [n \in Nonces |-> nonces'[n]]
    BY <1>6 DEF Tick
  <2>3. NoncesKept
    BY <2>1, <2>2 DEF NoncesKept
  <2>4. OpKept
    <3>1. CASE op.pc # "idle" /\ Fresh
      <4>1. op \in Ops /\ op.age < NonceLife
        BY <3>1 DEF IInv, OpInv, Idle, Fresh
      <4>2. op' = [op EXCEPT !.age = op.age + 1] /\ op.age + 1 \in 0..NonceLife
        BY <1>6, <3>1, <4>1, GateAssumption DEF Tick, Ops
      <4>3. /\ op' \in Ops /\ op'.pc = op.pc /\ op'.id = op.id /\ op'.nonce = op.nonce
        BY Zenon, <4>1, <4>2 DEF Ops
      <4> QED
        BY <3>1, <4>3 DEF OpKept
    <3>2. CASE ~(op.pc # "idle" /\ Fresh)
      BY <1>6, <3>2 DEF Tick, OpKept
    <3> QED
      BY <3>1, <3>2
  <2> QED
    BY <1>0, <1>6, <2>3, <2>4, SameRows, SameTold, Keeps DEF Tick, TypeOK
<1> QED
  BY <1>1, <1>2, <1>3, <1>4, <1>5, <1>6

(* The nonce of an admitted action dies unused; no row has its id. *)
LEMMA AdmitStep ==
    ASSUME IInv, NEW id \in Ids, NEW nonce \in Nonces, NEW action \in {"start", "stop"},
           Admit(id, nonce, action)
    PROVE  IInv'
<1>0. TypeOK /\ OpInv /\ NonceInv /\ RowInv /\ AtMostOnce
  BY DEF IInv
<1> DEFINE new == [pc |-> "begin", id |-> id, nonce |-> nonce, action |-> action,
                   age |-> nonces[nonce], ok |-> TRUE]
<1>1. /\ ~Recorded(id) /\ 0 <= nonces[nonce] /\ nonces[nonce] < NonceLife
      /\ nonces' = [nonces EXCEPT ![nonce] = Dead] /\ op' = new
      /\ UNCHANGED <<phase, svc, receipts, validated, told, effects, doubt>>
  BY <1>0 DEF Admit
<1>2. nonces \in [Nonces -> Dead..NonceLife] /\ effects \in [Nonces -> Nat]
  BY <1>0 DEF TypeOK
<1>3. nonces[nonce] \in 0..NonceLife /\ nonces[nonce] # Dead
  BY <1>1, <1>2, GateAssumption DEF Dead
<1>4. new \in Ops
  BY <1>3 DEF Ops, Steps
<1>5. new.pc = "begin" /\ new.id = id /\ new.nonce = nonce
  OBVIOUS
<1> HIDE DEF new
<1>6. nonces' \in [Nonces -> Dead..NonceLife] /\ nonces'[nonce] = Dead
      /\ \A n \in Nonces : nonces'[n] # Dead => nonces[n] # Dead
  BY <1>1, <1>2, GateAssumption DEF Dead
<1>7. effects[nonce] = 0
  BY <1>0, <1>3 DEF NonceInv
<1>8. \A n \in DOMAIN receipts : receipts[n].id # id
  BY <1>1 DEF Recorded, Has
<1>9. TypeOK'
  BY Zenon, <1>0, <1>1, <1>4, <1>6 DEF TypeOK, Ops
<1>10. OpInv'
  BY <1>1, <1>4, <1>5, <1>6, <1>7, <1>8 DEF OpInv
<1>11. NonceInv' /\ RowInv' /\ AtMostOnce'
  BY <1>0, <1>1, <1>6 DEF NonceInv, RowInv, AtMostOnce, Claims
<1> QED
  BY <1>9, <1>10, <1>11 DEF IInv

(* The new row claims nothing yet, and its id is not in the table. *)
LEMMA BeginStep == ASSUME IInv, Begin PROVE IInv'
<1>0. TypeOK /\ OpInv /\ NonceInv /\ RowInv /\ AtMostOnce
  BY DEF IInv
<1> DEFINE new == [id |-> op.id, nonce |-> op.nonce, action |-> op.action,
                   done |-> FALSE, state |-> "pending"]
           rows == Pruned(receipts)
<1>1. /\ op.pc = "begin" /\ Len(rows) < Capacity /\ receipts' = Append(rows, new)
      /\ op' = [op EXCEPT !.pc = "check"]
      /\ UNCHANGED <<phase, svc, nonces, validated, told, effects, doubt>>
  BY DEF Begin
<1>2. op \in Ops
  BY <1>0, <1>1 DEF OpInv, Idle
<1>3. new \in Receipts /\ new.id = op.id /\ new.nonce = op.nonce /\ ~Claims(new)
  BY <1>2 DEF Receipts, Ops, Claims
<1>4. \A n \in DOMAIN receipts : receipts[n].id # op.id
  BY <1>0, <1>1 DEF OpInv
<1>5. /\ rows \in Seq(Receipts) /\ Len(rows) \in Nat /\ DOMAIN rows = 1..Len(rows)
      /\ \A k \in DOMAIN rows : \E m \in DOMAIN receipts : rows[k] = receipts[m]
      /\ \A k, m \in DOMAIN rows : rows[k].id = rows[m].id => k = m
  <2>1. receipts \in Seq(Receipts)
        /\ \A m, n \in DOMAIN receipts : receipts[m].id = receipts[n].id => m = n
    BY <1>0 DEF TypeOK
  <2> QED
    BY <2>1, PrunedFacts, RowFacts
<1> HIDE DEF new, rows
<1>6. \A k \in DOMAIN rows :
         rows[k].id # op.id /\ (Claims(rows[k]) => effects[rows[k].nonce] = 1)
  BY <1>0, <1>4, <1>5 DEF RowInv
<1>7. /\ receipts' \in Seq(Receipts) /\ Len(receipts') = Len(rows) + 1
      /\ DOMAIN receipts' = 1..(Len(rows) + 1)
      /\ \A k \in 1..Len(rows) : receipts'[k] = rows[k]
      /\ receipts'[Len(rows) + 1] = new
  <2>1. Append(rows, new) \in Seq(Receipts)
    BY <1>3, <1>5, AppendProperties
  <2> QED
    BY <1>1, <1>3, <1>5, <2>1, AppendProperties, RowFacts
<1>8. \A k \in DOMAIN receipts' : k = Len(rows) + 1 \/ k \in DOMAIN rows
  BY <1>5, <1>7
<1>9. op' \in Ops /\ op'.pc = "check" /\ op'.id = op.id /\ op'.nonce = op.nonce
  BY <1>1, <1>2 DEF Ops, Steps
<1>10. TypeOK'
  <2>1. \A k, m \in DOMAIN receipts' : receipts'[k].id = receipts'[m].id => k = m
    BY <1>3, <1>5, <1>6, <1>7, <1>8
  <2>2. Len(receipts') <= Capacity
    BY <1>1, <1>5, <1>7, GateAssumption
  <2> QED
    BY Zenon, <1>0, <1>1, <1>7, <1>9, <2>1, <2>2 DEF TypeOK, Ops
<1>11. OpInv'
  <2>1. \A k \in DOMAIN receipts' : receipts'[k].id = op.id => receipts'[k].nonce = op.nonce
    BY <1>3, <1>5, <1>6, <1>7, <1>8
  <2> QED
    BY <1>0, <1>1, <1>9, <2>1 DEF OpInv
<1>12. RowInv'
  <2> SUFFICES ASSUME NEW k \in DOMAIN receipts', Claims(receipts'[k])
               PROVE  effects[receipts'[k].nonce] = 1
    BY <1>1 DEF RowInv, Claims
  <2> QED
    BY <1>3, <1>5, <1>6, <1>7, <1>8
<1>13. NonceInv' /\ AtMostOnce'
  BY <1>0, <1>1 DEF NonceInv, AtMostOnce
<1> QED
  BY <1>10, <1>11, <1>12, <1>13 DEF IInv

(* The one step that has an effect. *)
LEMMA EnterStep == ASSUME IInv, Enter PROVE IInv'
<1>0. TypeOK /\ OpInv /\ NonceInv /\ RowInv /\ AtMostOnce
  BY DEF IInv
<1>1. /\ op.pc = "check" /\ op' = [op EXCEPT !.pc = "serve"]
      /\ effects' = [effects EXCEPT ![op.nonce] = @ + 1]
      /\ UNCHANGED <<phase, svc, receipts, nonces, validated, told, doubt>>
  BY DEF Enter
<1>2. op \in Ops /\ op.nonce \in Nonces /\ nonces[op.nonce] = Dead /\ effects[op.nonce] = 0
  BY <1>0, <1>1 DEF OpInv, Idle, Ops
<1>3. op' \in Ops /\ op'.pc = "serve" /\ op'.id = op.id /\ op'.nonce = op.nonce
  BY <1>1, <1>2 DEF Ops, Steps
<1>4. effects \in [Nonces -> Nat]
  BY <1>0 DEF TypeOK
<1>5. /\ effects' \in [Nonces -> Nat] /\ effects'[op.nonce] = 1
      /\ \A n \in Nonces : n # op.nonce => effects'[n] = effects[n]
  BY <1>1, <1>2, <1>4
<1>6. TypeOK'
  BY Zenon, <1>0, <1>1, <1>3, <1>5 DEF TypeOK, Ops
<1>7. OpInv'
  BY <1>0, <1>1, <1>2, <1>3, <1>5 DEF OpInv
<1>8. NonceInv'
  BY <1>0, <1>1, <1>2, <1>5 DEF NonceInv
<1>9. RowInv'
  <2> SUFFICES ASSUME NEW k \in DOMAIN receipts, Claims(receipts[k])
               PROVE  effects'[receipts[k].nonce] = 1
    BY <1>1 DEF RowInv, Claims
  <2>1. receipts[k].nonce \in Nonces
    BY <1>0, RowFacts DEF TypeOK, Receipts
  <2> QED
    BY <1>0, <1>5, <2>1 DEF RowInv
<1>10. AtMostOnce'
  <2>1. \A r \in Requests : r[2] \in Nonces
    BY DEF Requests
  <2> QED
    BY <1>0, <1>1, <1>5, <2>1 DEF AtMostOnce
<1> QED
  BY <1>6, <1>7, <1>8, <1>9, <1>10 DEF IInv

(* The steps of an action that write its row or end it. *)
LEMMA ActionStep ==
    ASSUME IInv,
           \/ BeginFails \/ Expire \/ ExpireFails
           \/ \E out \in Services : Serve(out)
           \/ ServeRaises \/ Finish \/ FinishFails \/ Validate \/ Withdraw \/ ValidateFails
    PROVE  IInv'
<1>0. TypeOK /\ OpInv /\ svc \in Services /\ receipts \in Seq(Receipts)
      /\ \A n \in DOMAIN receipts : receipts[n] \in Receipts
  <2>1. TypeOK /\ OpInv /\ svc \in Services /\ receipts \in Seq(Receipts)
    BY DEF IInv, TypeOK
  <2> QED
    BY <2>1, RowFacts
<1>1. CASE BeginFails \/ ExpireFails \/ ServeRaises \/ FinishFails \/ ValidateFails
  BY <1>1, StorageFailsKeeps DEF BeginFails, ExpireFails, ServeRaises, FinishFails, ValidateFails
<1>2. CASE Expire
  <2>1. receipts' = [n \in DOMAIN receipts |->
                       IF receipts[n].id = op.id
                       THEN [receipts[n] EXCEPT !.done = TRUE, !.state = "rejected"]
                       ELSE receipts[n]]
    BY <1>2 DEF Expire, Update, ThisRow
  <2>2. \A n \in DOMAIN receipts :
           \/ receipts'[n] = receipts[n]
           \/ /\ receipts'[n] \in Receipts
              /\ receipts'[n].id = receipts[n].id /\ receipts'[n].nonce = receipts[n].nonce
              /\ ~Claims(receipts'[n])
    BY <1>0, <2>1 DEF Receipts, Claims
  <2>3. RowsKept(receipts')
    BY <2>1, <2>2, ThisRowFacts
  <2>4. op' = Idle /\ ToldKept
    BY <1>2, AnsweredFacts DEF Expire
  <2> QED
    BY <1>0, <1>2, <2>3, <2>4, SameNonces, Keeps DEF Expire, OpKept, TypeOK
<1>3. ASSUME NEW out \in Services, Serve(out) PROVE IInv'
  <2>1. /\ op.pc = "serve" /\ svc' = out /\ nonces' \in {nonces, Killed}
        /\ op' = [op EXCEPT !.pc = "finish",
                            !.ok = ~out.fault /\ (op.action = "start" => out.supply)]
        /\ UNCHANGED <<phase, receipts, validated, told, effects, doubt>>
    BY <1>3 DEF Serve
  <2>2. op \in Ops
    BY <1>0, <2>1 DEF OpInv, Idle
  <2> DEFINE ok == ~out.fault /\ (op.action = "start" => out.supply)
  <2>3. ok \in BOOLEAN /\ op' = [op EXCEPT !.pc = "finish", !.ok = ok]
    BY <2>1
  <2> HIDE DEF ok
  <2>4. "finish" \in Steps
    BY DEF Steps
  <2>5. op' \in Ops /\ op'.pc = "finish" /\ op'.id = op.id /\ op'.nonce = op.nonce
    BY Zenon, <2>2, <2>3, <2>4 DEF Ops
  <2>6. OpKept
    BY <2>1, <2>5 DEF OpKept
  <2> QED
    BY <1>0, <2>1, <2>6, SameNonces, SameRows, SameTold, Keeps DEF TypeOK
<1>4. CASE Finish
  <2>1. /\ op.pc = "finish" /\ (IF Fresh THEN UNCHANGED <<svc, nonces>> ELSE HandlePersistenceFailure)
        /\ UNCHANGED <<phase, validated, effects, doubt>>
    BY <1>4 DEF Finish
  <2>2. svc' \in Services /\ NoncesKept
    BY <1>0, <2>1, HandleFacts, SameNonces
  <2>3. op \in Ops /\ effects[op.nonce] = 1
        /\ \A n \in DOMAIN receipts : receipts[n].id = op.id => receipts[n].nonce = op.nonce
    BY <1>0, <2>1 DEF OpInv, Idle
  <2>4. CASE Fresh /\ op.ok
    <3>1. /\ receipts' = [n \in DOMAIN receipts |->
                            IF receipts[n].id = op.id
                            THEN [receipts[n] EXCEPT !.done = TRUE] ELSE receipts[n]]
          /\ op' = [op EXCEPT !.pc = "validate"] /\ UNCHANGED told
      BY <1>4, <2>4 DEF Finish, Update, ThisRow
    <3>2. \A n \in DOMAIN receipts :
             \/ receipts'[n] = receipts[n]
             \/ /\ receipts'[n] \in Receipts
                /\ receipts'[n].id = receipts[n].id /\ receipts'[n].nonce = receipts[n].nonce
                /\ effects[receipts[n].nonce] = 1
      BY <1>0, <2>3, <3>1 DEF Receipts
    <3>3. RowsKept(receipts')
      BY <3>1, <3>2, ThisRowFacts
    <3>4. op' \in Ops /\ op'.pc = "validate" /\ op'.id = op.id /\ op'.nonce = op.nonce
      BY <2>3, <3>1 DEF Ops, Steps
    <3> QED
      BY <1>0, <2>1, <2>2, <3>1, <3>3, <3>4, SameTold, Keeps DEF OpKept, TypeOK
  <2>5. CASE ~(Fresh /\ op.ok)
    <3>1. /\ receipts' = [n \in DOMAIN receipts |->
                            IF receipts[n].id = op.id
                            THEN [receipts[n] EXCEPT !.done = TRUE, !.state = "rejected"]
                            ELSE receipts[n]]
          /\ Answered("failed")
      BY <1>4, <2>5 DEF Finish, Update, ThisRow
    <3>2. \A n \in DOMAIN receipts :
             \/ receipts'[n] = receipts[n]
             \/ /\ receipts'[n] \in Receipts
                /\ receipts'[n].id = receipts[n].id /\ receipts'[n].nonce = receipts[n].nonce
                /\ ~Claims(receipts'[n])
      BY <1>0, <3>1 DEF Receipts, Claims
    <3>3. RowsKept(receipts')
      BY <3>1, <3>2, ThisRowFacts
    <3>4. op' = Idle /\ ToldKept
      BY <2>1, <3>1, AnsweredFacts
    <3> QED
      BY <1>0, <2>1, <2>2, <3>3, <3>4, Keeps DEF OpKept, TypeOK
  <2> QED
    BY <2>4, <2>5
<1>5. CASE Validate
  <2>1. /\ op.pc = "validate" /\ Answered("success")
        /\ validated' = {v \in validated : v[1] # op.id} \cup {<<op.id, op.nonce>>}
        /\ UNCHANGED <<phase, svc, receipts, nonces, effects, doubt>>
    BY <1>5 DEF Validate
  <2>2. op \in Ops /\ effects[op.nonce] = 1
    BY <1>0, <2>1 DEF OpInv, Idle
  <2>3. op' = Idle /\ ToldKept
    BY <2>1, <2>2, AnsweredFacts
  <2>4. validated' \subseteq Requests
    BY <1>0, <2>1, <2>2 DEF TypeOK, Requests, Ops
  <2> QED
    BY <1>0, <2>1, <2>3, <2>4, SameNonces, SameRows, Keeps DEF OpKept, TypeOK
<1>6. CASE Withdraw
  <2>1. /\ op.pc = "validate" /\ HandlePersistenceFailure /\ Answered("failed")
        /\ receipts' = [n \in DOMAIN receipts |->
                          IF receipts[n].id = op.id
                          THEN [receipts[n] EXCEPT !.state = "unknown"] ELSE receipts[n]]
        /\ UNCHANGED <<phase, validated, effects, doubt>>
    BY <1>6 DEF Withdraw, Update, ThisRow
  <2>2. \A n \in DOMAIN receipts :
           \/ receipts'[n] = receipts[n]
           \/ /\ receipts'[n] \in Receipts
              /\ receipts'[n].id = receipts[n].id /\ receipts'[n].nonce = receipts[n].nonce
              /\ ~Claims(receipts'[n])
    BY <1>0, <2>1 DEF Receipts, Claims
  <2>3. RowsKept(receipts')
    BY <2>1, <2>2, ThisRowFacts
  <2>4. op' = Idle /\ ToldKept /\ svc' \in Services /\ NoncesKept
    BY <1>0, <2>1, AnsweredFacts, HandleFacts
  <2> QED
    BY <1>0, <2>1, <2>3, <2>4, Keeps DEF OpKept, TypeOK
<1> QED
  BY <1>1, <1>2, <1>3, <1>4, <1>5, <1>6

-----------------------------------------------------------------------------
LEMMA InvInit == Init => IInv
<1> SUFFICES ASSUME Init PROVE IInv
  OBVIOUS
<1>1. receipts = <<>> /\ DOMAIN receipts = {} /\ Len(receipts) = 0 /\ receipts \in Seq(Receipts)
  BY DEF Init
<1>2. nonces \in [Nonces -> Dead..NonceLife] /\ effects \in [Nonces -> Nat]
  BY GateAssumption DEF Init, Dead, Unissued
<1>3. /\ phase \in {"down", "recover", "up"} /\ svc \in Services
      /\ validated \subseteq Requests /\ op = Idle /\ doubt \in BOOLEAN
      /\ told \in [Requests -> {"none", "failed", "success"}]
  BY DEF Init, Services
<1>4. TypeOK
  BY <1>1, <1>2, <1>3, GateAssumption DEF TypeOK
<1>5. OpInv
  BY <1>3 DEF OpInv, Idle
<1>6. NonceInv /\ AtMostOnce
  BY DEF Init, NonceInv, AtMostOnce
<1>7. RowInv
  BY <1>1 DEF RowInv
<1> QED
  BY <1>4, <1>5, <1>6, <1>7 DEF IInv

LEMMA InvStep == IInv /\ [Next]_vars => IInv'
<1> SUFFICES ASSUME IInv, [Next]_vars PROVE IInv'
  OBVIOUS
<1>1. CASE Next
  BY <1>1, ProcessStep, BetweenStep, AdmitStep, BeginStep, EnterStep, ActionStep DEF Next
<1>2. CASE UNCHANGED vars
  <2>1. TypeOK
    BY DEF IInv
  <2> QED
    BY <1>2, <2>1, SameNonces, SameRows, SameTold, Keeps DEF vars, OpKept, TypeOK
<1> QED
  BY <1>1, <1>2

(* The gate's state is of the declared types: the table never outgrows its *)
(* bound, and no request id ever has two receipts (begin_action_receipt).  *)
THEOREM TypeCorrectness == Spec => []TypeOK
<1>1. IInv => TypeOK
  BY DEF IInv
<1> QED
  BY <1>1, InvInit, InvStep, PTL DEF Spec

(* A nonce authorises one call of the service at most, across crashes,     *)
(* restarts, pruned receipts and replays, and an answer of success says    *)
(* that the call was made (WeatherActionGate.execute).                     *)
THEOREM OncePerNonce == Spec => []AtMostOnce
<1>1. IInv => AtMostOnce
  BY DEF IInv
<1> QED
  BY <1>1, InvInit, InvStep, PTL DEF Spec

-----------------------------------------------------------------------------
(* A failure is final.                                                     *)

(* Only a process that is up has an action under way or has validated one, *)
(* and what it validated it has answered.                                  *)
ValidatedInv ==
    /\ phase # "up" => validated = {} /\ op = Idle
    /\ \A q \in validated : told[q] = "success"

(* What was answered used up its nonce, and not in the action under way. *)
AnsweredInv ==
    \A q \in Requests :
        told[q] # "none" => nonces[q[2]] = Dead /\ (op.pc # "idle" => op.nonce # q[2])

(* A success on record was answered as one; what this process validated is *)
(* a success or is about to be promoted.                                   *)
RecordInv ==
    \A n \in DOMAIN receipts :
        LET r == receipts[n] IN
            /\ nonces[r.nonce] = Dead
            /\ r.state = "success" => told[<<r.id, r.nonce>>] = "success"
            /\ <<r.id, r.nonce>> \in validated => r.state = "success" \/ (r.state = "pending" /\ r.done)

(* The row of the action under way is open, and done before it is validated. *)
OwnRowInv ==
    op.pc # "idle" =>
        \A n \in DOMAIN receipts :
            receipts[n].id = op.id =>
                receipts[n].state = "pending" /\ (op.pc = "validate" => receipts[n].done)

FInv == IInv /\ ValidatedInv /\ AnsweredInv /\ RecordInv /\ OwnRowInv

NoSuccessAfterFailure == \A r \in Requests : told[r] = "failed" => told'[r] # "success"

LEMMA RowRequests ==
    ASSUME IInv, NEW n \in DOMAIN receipts
    PROVE  /\ receipts[n] \in Receipts /\ receipts[n].id \in Ids /\ receipts[n].nonce \in Nonces
           /\ <<receipts[n].id, receipts[n].nonce>> \in Requests
<1>1. receipts[n] \in Receipts
  BY RowFacts DEF IInv, TypeOK
<1> QED
  BY <1>1 DEF Receipts, Requests

(* The action under way has not been answered, nor has any process         *)
(* validated it.                                                           *)
LEMMA OwnRequest ==
    ASSUME FInv, op.pc # "idle"
    PROVE  /\ phase = "up" /\ op \in Ops /\ <<op.id, op.nonce>> \in Requests
           /\ <<op.id, op.nonce>>[2] = op.nonce
           /\ told[<<op.id, op.nonce>>] = "none" /\ <<op.id, op.nonce>> \notin validated
           /\ nonces[op.nonce] = Dead
           /\ \A n \in DOMAIN receipts : receipts[n].id = op.id =>
                 receipts[n].nonce = op.nonce /\ receipts[n].state = "pending"
<1>1. op \in Ops /\ nonces[op.nonce] = Dead
      /\ \A n \in DOMAIN receipts : receipts[n].id = op.id => receipts[n].nonce = op.nonce
  BY DEF FInv, IInv, OpInv, Idle
<1>2. <<op.id, op.nonce>> \in Requests /\ <<op.id, op.nonce>>[2] = op.nonce
  BY <1>1 DEF Ops, Requests
<1>3. told[<<op.id, op.nonce>>] = "none"
  BY <1>2 DEF FInv, AnsweredInv
<1>4. phase = "up" /\ <<op.id, op.nonce>> \notin validated
  BY <1>3 DEF FInv, ValidatedInv, Idle
<1> QED
  BY <1>1, <1>2, <1>3, <1>4 DEF FInv, OwnRowInv

DeadKept == \A n \in Nonces : nonces[n] = Dead => nonces'[n] = Dead

(* Rows that keep their place, and of which none becomes a success that    *)
(* was not validated.                                                      *)
RowsTrue ==
    /\ DOMAIN receipts' = DOMAIN receipts
    /\ \A n \in DOMAIN receipts :
          LET r == receipts[n]  s == receipts'[n] IN
             /\ s.id = r.id /\ s.nonce = r.nonce
             /\ s.state = "success" => r.state = "success" \/ <<r.id, r.nonce>> \in validated
             /\ <<r.id, r.nonce>> \in validated' => s.state = "success" \/ (s.state = "pending" /\ s.done)
             /\ op'.pc # "idle" /\ r.id = op.id =>
                   s.state = "pending" /\ (op'.pc = "validate" => s.done)

(* A step that answers nothing. *)
LEMMA QuietKeeps ==
    ASSUME FInv, IInv', told' = told, DeadKept, RowsTrue, validated' \subseteq validated,
           phase' # "up" => validated' = {} /\ op' = Idle,
           \/ op' = Idle
           \/ op.pc # "idle" /\ op'.id = op.id /\ op'.nonce = op.nonce
    PROVE  FInv' /\ NoSuccessAfterFailure
<1>1. ValidatedInv'
  BY DEF FInv, ValidatedInv
<1>2. AnsweredInv'
  <2> SUFFICES ASSUME NEW q \in Requests, told[q] # "none"
               PROVE  nonces'[q[2]] = Dead /\ (op'.pc # "idle" => op'.nonce # q[2])
    BY DEF AnsweredInv
  <2>1. q[2] \in Nonces
    BY DEF Requests
  <2> QED
    BY <2>1 DEF FInv, AnsweredInv, DeadKept, Idle
<1>3. RecordInv'
  <2> SUFFICES ASSUME NEW n \in DOMAIN receipts
               PROVE  /\ nonces'[receipts'[n].nonce] = Dead
                      /\ receipts'[n].state = "success"
                            => told[<<receipts'[n].id, receipts'[n].nonce>>] = "success"
                      /\ <<receipts'[n].id, receipts'[n].nonce>> \in validated'
                            => \/ receipts'[n].state = "success"
                               \/ receipts'[n].state = "pending" /\ receipts'[n].done
    BY DEF RecordInv, RowsTrue
  <2>1. receipts[n].nonce \in Nonces
    BY RowRequests DEF FInv
  <2>2. receipts'[n].id = receipts[n].id /\ receipts'[n].nonce = receipts[n].nonce
    BY DEF RowsTrue
  <2>3. nonces'[receipts[n].nonce] = Dead
    BY <2>1 DEF FInv, RecordInv, DeadKept
  <2>4. receipts'[n].state = "success" => told[<<receipts[n].id, receipts[n].nonce>>] = "success"
    BY DEF FInv, RecordInv, ValidatedInv, RowsTrue
  <2> QED
    BY <2>2, <2>3, <2>4 DEF RowsTrue
<1>4. OwnRowInv'
  <2> SUFFICES ASSUME op'.pc # "idle", NEW n \in DOMAIN receipts, receipts'[n].id = op'.id
               PROVE  receipts'[n].state = "pending" /\ (op'.pc = "validate" => receipts'[n].done)
    BY DEF OwnRowInv, RowsTrue
  <2>1. op'.id = op.id
    BY DEF Idle
  <2>2. receipts'[n].id = receipts[n].id
    BY DEF RowsTrue
  <2> QED
    BY <2>1, <2>2 DEF RowsTrue
<1>5. NoSuccessAfterFailure
  BY DEF NoSuccessAfterFailure
<1> QED
  BY <1>1, <1>2, <1>3, <1>4, <1>5 DEF FInv

(* A step that answers with a failure. *)
LEMMA FailedKeeps ==
    ASSUME FInv, IInv', op.pc # "idle", Answered("failed"), DeadKept, validated' = validated,
           phase' = phase, DOMAIN receipts' = DOMAIN receipts,
           \A n \in DOMAIN receipts :
              /\ receipts'[n].id = receipts[n].id /\ receipts'[n].nonce = receipts[n].nonce
              /\ receipts[n].id # op.id => receipts'[n] = receipts[n]
              /\ receipts'[n].state = "success" => receipts[n].state = "success"
    PROVE  FInv' /\ NoSuccessAfterFailure
<1> DEFINE own == <<op.id, op.nonce>>
<1>1. /\ phase = "up" /\ own \in Requests /\ own[2] = op.nonce /\ own \notin validated
      /\ nonces[op.nonce] = Dead
      /\ \A n \in DOMAIN receipts : receipts[n].id = op.id =>
            receipts[n].nonce = op.nonce /\ receipts[n].state = "pending"
  BY OwnRequest
<1>2. op' = Idle /\ told' = [told EXCEPT ![own] = "failed"] /\ Idle.pc = "idle"
      /\ told \in [Requests -> {"none", "failed", "success"}]
  BY DEF Answered, FInv, IInv, TypeOK, Idle
<1> HIDE DEF own
<1>3. ValidatedInv'
  BY <1>1, <1>2 DEF FInv, ValidatedInv, IInv, TypeOK
<1>4. AnsweredInv'
  <2> SUFFICES ASSUME NEW q \in Requests, told'[q] # "none" PROVE nonces'[q[2]] = Dead
    BY <1>2 DEF AnsweredInv
  <2>1. q[2] \in Nonces
    BY DEF Requests
  <2>2. nonces[q[2]] = Dead
    BY <1>1, <1>2 DEF FInv, AnsweredInv
  <2> QED
    BY <2>1, <2>2 DEF DeadKept
<1>5. RecordInv'
  <2> SUFFICES ASSUME NEW n \in DOMAIN receipts
               PROVE  /\ nonces'[receipts'[n].nonce] = Dead
                      /\ receipts'[n].state = "success"
                            => told'[<<receipts'[n].id, receipts'[n].nonce>>] = "success"
                      /\ <<receipts'[n].id, receipts'[n].nonce>> \in validated
                            => \/ receipts'[n].state = "success"
                               \/ receipts'[n].state = "pending" /\ receipts'[n].done
    BY DEF RecordInv
  <2> DEFINE q == <<receipts[n].id, receipts[n].nonce>>
  <2>1. q \in Requests /\ receipts[n].nonce \in Nonces
    BY RowRequests DEF FInv
  <2>2. nonces'[receipts[n].nonce] = Dead
    BY <2>1 DEF FInv, RecordInv, DeadKept
  <2>3. CASE receipts[n].id = op.id
    <3>1. q = own /\ receipts[n].state = "pending"
      BY <1>1, <2>3 DEF own
    <3> QED
      BY <1>1, <2>2, <3>1
  <2>4. CASE receipts[n].id # op.id
    <3>1. q # own /\ receipts'[n] = receipts[n]
      BY <2>4 DEF own
    <3>2. told'[q] = told[q]
      BY <1>2, <2>1, <3>1
    <3> QED
      BY <2>2, <3>1, <3>2 DEF FInv, RecordInv
  <2> QED
    BY <2>3, <2>4
<1>6. OwnRowInv'
  BY <1>2 DEF OwnRowInv
<1>7. NoSuccessAfterFailure
  BY <1>2 DEF NoSuccessAfterFailure
<1> QED
  BY <1>3, <1>4, <1>5, <1>6, <1>7 DEF FInv

LEMMA SameDead ==
    ASSUME IInv, nonces' = nonces \/ nonces' = Killed \/ HandlePersistenceFailure
    PROVE  DeadKept
<1>1. TypeOK
  BY DEF IInv
<1> QED
  BY <1>1, SameNonces, HandleFacts DEF NoncesKept, DeadKept

LEMMA SameRowsTrue ==
    ASSUME FInv, receipts' = receipts, validated' \subseteq validated,
           op' = Idle \/ op'.pc = op.pc \/ op'.pc # "validate", op.pc = "idle" => op' = Idle
    PROVE  RowsTrue
  BY DEF FInv, RecordInv, OwnRowInv, RowsTrue, Idle

LEMMA PromotedTrue ==
    ASSUME FInv, receipts' = Promoted, validated' = {}, op'.pc = "idle"
    PROVE  RowsTrue
<1>1. receipts \in Seq(Receipts)
  BY DEF FInv, IInv, TypeOK
<1>2. Promoted = [n \in DOMAIN receipts |->
                    IF receipts[n].state = "pending" /\ receipts[n].done
                       /\ <<receipts[n].id, receipts[n].nonce>> \in validated
                    THEN [receipts[n] EXCEPT !.state = "success"] ELSE receipts[n]]
  BY DEF Promoted, Update, Pending
<1>3. \A n \in DOMAIN receipts :
         /\ Promoted[n].id = receipts[n].id /\ Promoted[n].nonce = receipts[n].nonce
         /\ Promoted[n].state = "success"
               => receipts[n].state = "success" \/ <<receipts[n].id, receipts[n].nonce>> \in validated
  BY <1>1, <1>2, RowFacts DEF Receipts
<1> QED
  BY <1>1, <1>3, PromotedFacts DEF RowsTrue

LEMMA QuietStep ==
    ASSUME FInv, IInv',
           \/ Startup \/ Recover \/ RecoverFails
           \/ \E supply \in BOOLEAN : Crash(supply)
           \/ \E stored, inhibited \in BOOLEAN : Shutdown(stored, inhibited)
           \/ \E n \in Nonces : Status(n)
           \/ StatusFails
           \/ \E supply, fault, inhibited \in BOOLEAN : OtherWrite(supply, fault, inhibited)
           \/ ClearFault \/ Enter
           \/ \E out \in Services : Serve(out)
           \/ Tick
    PROVE  FInv' /\ NoSuccessAfterFailure
<1>0. /\ IInv /\ (phase # "up" => validated = {} /\ op = Idle) /\ Idle.pc = "idle"
      /\ (op.pc = "idle" => op = Idle) /\ (op.pc # "idle" => phase = "up" /\ op \in Ops)
      /\ receipts \in Seq(Receipts)
  <2>1. IInv /\ receipts \in Seq(Receipts) /\ (op = Idle \/ (op \in Ops /\ op.pc # "idle"))
    BY DEF FInv, IInv, OpInv, TypeOK
  <2>2. Idle.pc = "idle"
    BY DEF Idle
  <2>3. phase # "up" => validated = {} /\ op = Idle
    BY DEF FInv, ValidatedInv
  <2> QED
    BY <2>1, <2>2, <2>3
<1>1. CASE Startup
  <2>1. DeadKept
    BY <1>0, <1>1, SameDead DEF Startup
  <2>2. op = Idle /\ op' = op /\ validated' = validated /\ validated = {} /\ receipts' = receipts
    BY <1>0, <1>1 DEF Startup
  <2> QED
    BY <1>0, <1>1, <2>1, <2>2, SameRowsTrue, QuietKeeps DEF Startup
<1>2. CASE Recover
  <2>1. op = Idle /\ op' = Idle /\ validated' = {} /\ validated = {} /\ phase' = "up"
        /\ told' = told /\ nonces' = nonces
    BY <1>0, <1>2 DEF Recover
  <2>2. RowsTrue
    <3>1. CASE receipts' = receipts
      BY <1>0, <2>1, <3>1, SameRowsTrue
    <3>2. CASE receipts' # receipts
      <4>1. receipts' = [n \in DOMAIN receipts |->
                           IF receipts[n].state = "pending"
                           THEN [receipts[n] EXCEPT !.state = "unknown"] ELSE receipts[n]]
        BY <1>2, <3>2 DEF Recover, Update, Pending
      <4>2. \A n \in DOMAIN receipts :
               /\ receipts'[n].id = receipts[n].id /\ receipts'[n].nonce = receipts[n].nonce
               /\ receipts'[n].state = "success" => receipts[n].state = "success"
        BY <1>0, <4>1, RowFacts DEF Receipts
      <4> QED
        BY <1>0, <2>1, <4>1, <4>2 DEF RowsTrue
    <3> QED
      BY <3>1, <3>2
  <2> QED
    BY <1>0, <2>1, <2>2, SameDead, QuietKeeps
<1>3. CASE RecoverFails
  <2>1. op = Idle /\ op' = Idle /\ validated' = validated /\ phase' = "up"
        /\ told' = told /\ receipts' = receipts /\ HandlePersistenceFailure
    BY <1>0, <1>3 DEF RecoverFails
  <2> QED
    BY <1>0, <2>1, SameDead, SameRowsTrue, QuietKeeps
<1>4. ASSUME NEW supply \in BOOLEAN, Crash(supply) PROVE FInv' /\ NoSuccessAfterFailure
  <2>1. op' = Idle /\ validated' = {} /\ told' = told /\ receipts' = receipts /\ nonces' = Killed
    BY <1>4 DEF Crash
  <2> QED
    BY <1>0, <2>1, SameDead, SameRowsTrue, QuietKeeps
<1>5. ASSUME NEW stored \in BOOLEAN, NEW inhibited \in BOOLEAN, Shutdown(stored, inhibited)
      PROVE  FInv' /\ NoSuccessAfterFailure
  <2>1. /\ op = Idle /\ op' = Idle /\ validated' = {} /\ told' = told
        /\ (receipts' = Promoted \/ receipts' = receipts) /\ nonces' = Killed
    BY <1>0, <1>5 DEF Shutdown
  <2> QED
    BY <1>0, <1>5, <2>1, SameDead, SameRowsTrue, PromotedTrue, QuietKeeps DEF Shutdown
<1>6. ASSUME NEW n \in Nonces, Status(n) PROVE FInv' /\ NoSuccessAfterFailure
  <2>1. /\ op = Idle /\ op' = Idle /\ validated' = {} /\ told' = told /\ receipts' = Promoted
        /\ phase' = "up" /\ nonces' = [nonces EXCEPT ![n] = 0] /\ nonces[n] = Unissued
    BY <1>0, <1>6 DEF Status, Ready
  <2>2. DeadKept
    BY <1>0, <2>1 DEF DeadKept, Dead, Unissued, IInv, TypeOK
  <2> QED
    BY <1>0, <2>1, <2>2, PromotedTrue, QuietKeeps
<1>7. CASE StatusFails
  <2>1. op = Idle /\ op' = Idle /\ validated' = validated /\ phase' = "up"
        /\ told' = told /\ receipts' = receipts /\ HandlePersistenceFailure
    BY <1>0, <1>7 DEF StatusFails, Ready
  <2> QED
    BY <1>0, <2>1, SameDead, SameRowsTrue, QuietKeeps
<1>8. ASSUME NEW supply \in BOOLEAN, NEW fault \in BOOLEAN, NEW inhibited \in BOOLEAN,
             OtherWrite(supply, fault, inhibited)
      PROVE  FInv' /\ NoSuccessAfterFailure
  <2>1. op = Idle /\ op' = Idle /\ validated' = validated /\ phase' = "up"
        /\ told' = told /\ receipts' = receipts /\ (nonces' = nonces \/ nonces' = Killed)
    BY <1>0, <1>8 DEF OtherWrite, Ready
  <2> QED
    BY <1>0, <2>1, SameDead, SameRowsTrue, QuietKeeps
<1>9. CASE ClearFault
  <2>1. op = Idle /\ op' = Idle /\ validated' = validated /\ phase' = "up"
        /\ told' = told /\ receipts' = receipts /\ nonces' = Killed
    BY <1>0, <1>9 DEF ClearFault, Ready
  <2> QED
    BY <1>0, <2>1, SameDead, SameRowsTrue, QuietKeeps
<1>10. CASE Enter
  <2>1. /\ op.pc = "check" /\ op' = [op EXCEPT !.pc = "serve"] /\ validated' = validated
        /\ phase' = phase /\ told' = told /\ receipts' = receipts /\ nonces' = nonces
    BY <1>10 DEF Enter
  <2>2. op'.pc = "serve" /\ op'.id = op.id /\ op'.nonce = op.nonce /\ phase = "up"
    BY <1>0, <2>1 DEF Ops
  <2> QED
    BY <1>0, <2>1, <2>2, SameDead, SameRowsTrue, QuietKeeps
<1>11. ASSUME NEW out \in Services, Serve(out) PROVE FInv' /\ NoSuccessAfterFailure
  <2> DEFINE ok == ~out.fault /\ (op.action = "start" => out.supply)
  <2>1. /\ op.pc = "serve" /\ op' = [op EXCEPT !.pc = "finish", !.ok = ok] /\ validated' = validated
        /\ phase' = phase /\ told' = told /\ receipts' = receipts
        /\ (nonces' = nonces \/ nonces' = Killed)
    BY <1>11 DEF Serve
  <2> HIDE DEF ok
  <2>2. op'.pc = "finish" /\ op'.id = op.id /\ op'.nonce = op.nonce /\ phase = "up"
    BY Zenon, <1>0, <2>1 DEF Ops
  <2> QED
    BY <1>0, <2>1, <2>2, SameDead, SameRowsTrue, QuietKeeps
<1>12. CASE Tick
  <2>1. /\ validated' = validated /\ phase' = "up" /\ told' = told /\ receipts' = receipts
        /\ nonces' = [n \in Nonces |-> IF nonces[n] < 0 THEN nonces[n]
                         ELSE IF nonces[n] + 1 < NonceLife THEN nonces[n] + 1 ELSE Dead]
        /\ op' = IF op.pc # "idle" /\ Fresh THEN [op EXCEPT !.age = op.age + 1] ELSE op
    BY <1>12 DEF Tick
  <2>2. DeadKept
    BY <2>1 DEF DeadKept, Dead
  <2>3. \/ op' = Idle /\ op = Idle
        \/ op.pc # "idle" /\ op'.pc = op.pc /\ op'.id = op.id /\ op'.nonce = op.nonce
    BY <1>0, <2>1 DEF Ops
  <2> QED
    BY <1>0, <2>1, <2>2, <2>3, SameRowsTrue, QuietKeeps
<1> QED
  BY <1>1, <1>2, <1>3, <1>4, <1>5, <1>6, <1>7, <1>8, <1>9, <1>10, <1>11, <1>12

LEMMA FailedStep ==
    ASSUME FInv, IInv',
           \/ BeginFails \/ Expire \/ ExpireFails \/ ServeRaises
           \/ Finish \/ FinishFails \/ Withdraw \/ ValidateFails
    PROVE  FInv' /\ NoSuccessAfterFailure
<1>0. IInv /\ \A n \in DOMAIN receipts : receipts[n] \in Receipts
  BY RowRequests DEF FInv
<1>1. CASE BeginFails \/ ExpireFails \/ ServeRaises \/ FinishFails \/ ValidateFails
  <2>1. op.pc # "idle" /\ StorageFails
    BY <1>1 DEF BeginFails, ExpireFails, ServeRaises, FinishFails, ValidateFails
  <2>2. /\ HandlePersistenceFailure /\ Answered("failed") /\ validated' = validated
        /\ phase' = phase /\ receipts' = receipts
    BY <2>1 DEF StorageFails
  <2> QED
    BY <1>0, <2>1, <2>2, SameDead, FailedKeeps
<1>2. CASE Expire
  <2>1. /\ op.pc = "check" /\ Answered("failed") /\ validated' = validated
        /\ phase' = phase /\ nonces' = nonces
        /\ receipts' = [n \in DOMAIN receipts |->
                          IF receipts[n].id = op.id
                          THEN [receipts[n] EXCEPT !.done = TRUE, !.state = "rejected"]
                          ELSE receipts[n]]
    BY <1>2 DEF Expire, Update, ThisRow
  <2>2. DOMAIN receipts' = DOMAIN receipts
    BY <2>1
  <2>3. \A n \in DOMAIN receipts :
           /\ receipts'[n].id = receipts[n].id /\ receipts'[n].nonce = receipts[n].nonce
           /\ receipts[n].id # op.id => receipts'[n] = receipts[n]
           /\ receipts'[n].state = "success" => receipts[n].state = "success"
    BY <1>0, <2>1 DEF Receipts
  <2>4. DeadKept
    BY <1>0, <2>1, SameDead
  <2> QED
    BY <2>1, <2>2, <2>3, <2>4, FailedKeeps
<1>3. CASE Finish
  <2>1. /\ op.pc = "finish" /\ validated' = validated /\ phase' = phase
        /\ (nonces' = nonces \/ HandlePersistenceFailure)
    BY <1>3 DEF Finish
  <2>2. DeadKept
    BY <1>0, <2>1, SameDead
  <2>3. CASE Fresh /\ op.ok
    <3>1. /\ receipts' = [n \in DOMAIN receipts |->
                            IF receipts[n].id = op.id
                            THEN [receipts[n] EXCEPT !.done = TRUE] ELSE receipts[n]]
          /\ op' = [op EXCEPT !.pc = "validate"] /\ told' = told
      BY <1>3, <2>3 DEF Finish, Update, ThisRow
    <3>2. op \in Ops /\ phase = "up" /\ <<op.id, op.nonce>> \notin validated
          /\ \A n \in DOMAIN receipts : receipts[n].id = op.id =>
                receipts[n].nonce = op.nonce /\ receipts[n].state = "pending"
      BY <2>1, OwnRequest
    <3>3. op'.id = op.id /\ op'.nonce = op.nonce
      BY <3>1, <3>2 DEF Ops
    <3>4. \A n \in DOMAIN receipts :
             IF receipts[n].id = op.id
             THEN /\ receipts'[n].id = receipts[n].id /\ receipts'[n].nonce = receipts[n].nonce
                  /\ receipts'[n].state = receipts[n].state /\ receipts'[n].done
             ELSE receipts'[n] = receipts[n]
      BY <1>0, <3>1 DEF Receipts
    <3>5. RowsTrue
      <4> SUFFICES ASSUME NEW n \in DOMAIN receipts
                   PROVE  LET r == receipts[n]  s == receipts'[n] IN
                     /\ s.id = r.id /\ s.nonce = r.nonce
                     /\ s.state = "success" => r.state = "success" \/ <<r.id, r.nonce>> \in validated
                     /\ <<r.id, r.nonce>> \in validated'
                           => s.state = "success" \/ (s.state = "pending" /\ s.done)
                     /\ op'.pc # "idle" /\ r.id = op.id =>
                           s.state = "pending" /\ (op'.pc = "validate" => s.done)
        BY <3>1 DEF RowsTrue
      <4>1. CASE receipts[n].id = op.id
        BY <2>1, <3>2, <3>4, <4>1
      <4>2. CASE receipts[n].id # op.id
        BY <2>1, <3>4, <4>2 DEF FInv, RecordInv
      <4> QED
        BY <4>1, <4>2
    <3> QED
      BY <2>1, <2>2, <3>1, <3>2, <3>3, <3>5, QuietKeeps
  <2>4. CASE ~(Fresh /\ op.ok)
    <3>1. /\ Answered("failed")
          /\ receipts' = [n \in DOMAIN receipts |->
                            IF receipts[n].id = op.id
                            THEN [receipts[n] EXCEPT !.done = TRUE, !.state = "rejected"]
                            ELSE receipts[n]]
      BY <1>3, <2>4 DEF Finish, Update, ThisRow
    <3>2. DOMAIN receipts' = DOMAIN receipts
      BY <3>1
    <3>3. \A n \in DOMAIN receipts :
             /\ receipts'[n].id = receipts[n].id /\ receipts'[n].nonce = receipts[n].nonce
             /\ receipts[n].id # op.id => receipts'[n] = receipts[n]
             /\ receipts'[n].state = "success" => receipts[n].state = "success"
      BY <1>0, <3>1 DEF Receipts
    <3> QED
      BY <2>1, <2>2, <3>1, <3>2, <3>3, FailedKeeps
  <2> QED
    BY <2>3, <2>4
<1>4. CASE Withdraw
  <2>1. /\ op.pc = "validate" /\ Answered("failed") /\ validated' = validated
        /\ phase' = phase /\ HandlePersistenceFailure
        /\ receipts' = [n \in DOMAIN receipts |->
                          IF receipts[n].id = op.id
                          THEN [receipts[n] EXCEPT !.state = "unknown"] ELSE receipts[n]]
    BY <1>4 DEF Withdraw, Update, ThisRow
  <2>2. DOMAIN receipts' = DOMAIN receipts
    BY <2>1
  <2>3. \A n \in DOMAIN receipts :
           /\ receipts'[n].id = receipts[n].id /\ receipts'[n].nonce = receipts[n].nonce
           /\ receipts[n].id # op.id => receipts'[n] = receipts[n]
           /\ receipts'[n].state = "success" => receipts[n].state = "success"
    BY <1>0, <2>1 DEF Receipts
  <2>4. DeadKept
    BY <1>0, <2>1, SameDead
  <2> QED
    BY <2>1, <2>2, <2>3, <2>4, FailedKeeps
<1> QED
  BY <1>1, <1>2, <1>3, <1>4

(* A replay says what is on record: a success was one the first time. *)
LEMMA ReplayFinal ==
    ASSUME FInv, IInv', NEW id \in Ids, NEW nonce \in Nonces, Replay(id, nonce)
    PROVE  FInv' /\ NoSuccessAfterFailure
<1> DEFINE q == <<id, nonce>>
           m == RowOf(id)
           answer == Replayed(receipts[m])
<1>1. /\ receipts[m].nonce = nonce /\ told' = [told EXCEPT ![q] = answer]
      /\ phase = "up" /\ op.pc = "idle"
      /\ UNCHANGED <<phase, svc, receipts, nonces, validated, op, effects, doubt>>
  BY DEF Replay, Ready
<1>2. m \in DOMAIN receipts /\ receipts[m].id = id
  BY DEF Replay, Recorded, Has, RowOf
<1>3. answer \in {"failed", "success"}
      /\ (answer = "success" <=> \/ receipts[m].state = "success"
                                \/ /\ receipts[m].state = "pending" /\ receipts[m].done
                                   /\ <<receipts[m].id, receipts[m].nonce>> \in validated)
  BY DEF Replayed, Pending
<1>4. q \in Requests /\ q[2] = nonce /\ told \in [Requests -> {"none", "failed", "success"}]
  BY DEF Requests, FInv, IInv, TypeOK
<1>5. q = <<receipts[m].id, receipts[m].nonce>>
  BY <1>1, <1>2
<1> HIDE DEF q, m, answer
<1>6. answer = "success" => told[q] = "success"
  BY <1>2, <1>3, <1>5 DEF FInv, RecordInv, ValidatedInv
<1>7. q \in validated => answer = "success"
  BY <1>2, <1>3, <1>5 DEF FInv, RecordInv
<1>8. nonces[nonce] = Dead
  BY <1>1, <1>2 DEF FInv, RecordInv
<1>9. told'[q] = answer /\ \A r \in Requests : r # q => told'[r] = told[r]
  BY <1>1, <1>4
<1>10. ValidatedInv'
  <2>1. \A v \in validated : v \in Requests
    BY DEF FInv, IInv, TypeOK
  <2> QED
    BY <1>1, <1>7, <1>9, <2>1 DEF FInv, ValidatedInv
<1>11. AnsweredInv'
  BY <1>1, <1>4, <1>8, <1>9 DEF FInv, AnsweredInv
<1>12. RecordInv'
  <2> SUFFICES ASSUME NEW n \in DOMAIN receipts, receipts[n].state = "success"
               PROVE  told'[<<receipts[n].id, receipts[n].nonce>>] = "success"
    BY <1>1 DEF FInv, RecordInv
  <2> DEFINE v == <<receipts[n].id, receipts[n].nonce>>
  <2>1. v \in Requests
    BY RowRequests DEF FInv
  <2>2. told[v] = "success"
    BY DEF FInv, RecordInv
  <2>3. CASE v # q
    BY <1>9, <2>1, <2>2, <2>3
  <2>4. CASE v = q
    <3>1. receipts[n].id = receipts[m].id
      BY <1>5, <2>4
    <3>2. n = m
      BY <1>2, <3>1 DEF FInv, IInv, TypeOK
    <3> QED
      BY <1>3, <1>9, <2>4, <3>2
  <2> QED
    BY <2>3, <2>4
<1>13. OwnRowInv'
  BY <1>1 DEF OwnRowInv
<1>14. NoSuccessAfterFailure
  BY <1>6, <1>9 DEF NoSuccessAfterFailure
<1> QED
  BY <1>10, <1>11, <1>12, <1>13, <1>14 DEF FInv

(* A live nonce has not been answered. *)
LEMMA AdmitFinal ==
    ASSUME FInv, IInv', NEW id \in Ids, NEW nonce \in Nonces, NEW action \in {"start", "stop"},
           Admit(id, nonce, action)
    PROVE  FInv' /\ NoSuccessAfterFailure
<1>1. /\ phase = "up" /\ ~Recorded(id) /\ 0 <= nonces[nonce]
      /\ nonces' = [nonces EXCEPT ![nonce] = Dead]
      /\ op'.pc = "begin" /\ op'.id = id /\ op'.nonce = nonce
      /\ UNCHANGED <<phase, svc, receipts, validated, told, effects, doubt>>
  BY DEF Admit, Ready
<1>2. nonces \in [Nonces -> Dead..NonceLife]
  BY DEF FInv, IInv, TypeOK
<1>3. nonces[nonce] # Dead
  BY <1>1 DEF Dead
<1>4. \A n \in Nonces : nonces[n] = Dead => nonces'[n] = Dead
  BY <1>1, <1>2
<1>5. \A n \in DOMAIN receipts : receipts[n].id # id
  BY <1>1 DEF Recorded, Has
<1>6. ValidatedInv'
  BY <1>1 DEF FInv, ValidatedInv
<1>7. AnsweredInv'
  <2> SUFFICES ASSUME NEW q \in Requests, told[q] # "none"
               PROVE  nonces'[q[2]] = Dead /\ nonce # q[2]
    BY <1>1 DEF AnsweredInv
  <2>1. q[2] \in Nonces /\ nonces[q[2]] = Dead
    BY DEF Requests, FInv, AnsweredInv
  <2> QED
    BY <1>3, <1>4, <2>1
<1>8. RecordInv'
  <2>1. \A n \in DOMAIN receipts : receipts[n].nonce \in Nonces
    BY RowRequests DEF FInv
  <2> QED
    BY <1>1, <1>4, <2>1 DEF FInv, RecordInv
<1>9. OwnRowInv'
  BY <1>1, <1>5 DEF OwnRowInv
<1>10. NoSuccessAfterFailure
  BY <1>1 DEF NoSuccessAfterFailure
<1> QED
  BY <1>6, <1>7, <1>8, <1>9, <1>10 DEF FInv

LEMMA BeginFinal ==
    ASSUME FInv, IInv', Begin PROVE FInv' /\ NoSuccessAfterFailure
<1> DEFINE new == [id |-> op.id, nonce |-> op.nonce, action |-> op.action,
                   done |-> FALSE, state |-> "pending"]
           rows == Pruned(receipts)
<1>1. /\ op.pc = "begin" /\ receipts' = Append(rows, new) /\ op' = [op EXCEPT !.pc = "check"]
      /\ UNCHANGED <<phase, svc, nonces, validated, told, effects, doubt>>
  BY DEF Begin
<1>2. /\ phase = "up" /\ op \in Ops /\ <<op.id, op.nonce>> \notin validated
      /\ nonces[op.nonce] = Dead
  BY <1>1, OwnRequest
<1>3. new \in Receipts /\ new.id = op.id /\ new.nonce = op.nonce /\ new.state = "pending"
  BY <1>2 DEF Receipts, Ops
<1>4. \A n \in DOMAIN receipts : receipts[n].id # op.id
  BY <1>1 DEF FInv, IInv, OpInv
<1>5. /\ rows \in Seq(Receipts) /\ Len(rows) \in Nat /\ DOMAIN rows = 1..Len(rows)
      /\ \A k \in DOMAIN rows : \E m \in DOMAIN receipts : rows[k] = receipts[m]
  <2>1. receipts \in Seq(Receipts)
    BY DEF FInv, IInv, TypeOK
  <2> QED
    BY <2>1, PrunedFacts, RowFacts
<1> HIDE DEF new, rows
<1>6. /\ Len(receipts') = Len(rows) + 1 /\ DOMAIN receipts' = 1..(Len(rows) + 1)
      /\ \A k \in 1..Len(rows) : receipts'[k] = rows[k]
      /\ receipts'[Len(rows) + 1] = new
  <2>1. Append(rows, new) \in Seq(Receipts)
    BY <1>3, <1>5, AppendProperties
  <2> QED
    BY <1>1, <1>3, <1>5, <2>1, AppendProperties, RowFacts
<1>7. \A k \in DOMAIN receipts' :
         receipts'[k] = new \/ \E m \in DOMAIN receipts : receipts'[k] = receipts[m]
  BY <1>5, <1>6
<1>8. op'.pc = "check" /\ op'.id = op.id /\ op'.nonce = op.nonce
  BY <1>1, <1>2 DEF Ops
<1>9. ValidatedInv' /\ AnsweredInv' /\ NoSuccessAfterFailure
  <2>1. ValidatedInv'
    BY <1>1, <1>2 DEF FInv, ValidatedInv
  <2>2. AnsweredInv'
    BY <1>1, <1>8 DEF FInv, AnsweredInv
  <2>3. NoSuccessAfterFailure
    BY <1>1 DEF NoSuccessAfterFailure
  <2> QED
    BY <2>1, <2>2, <2>3
<1>10. RecordInv'
  <2> SUFFICES ASSUME NEW k \in DOMAIN receipts'
               PROVE  LET r == receipts'[k] IN
                      /\ nonces[r.nonce] = Dead
                      /\ r.state = "success" => told[<<r.id, r.nonce>>] = "success"
                      /\ <<r.id, r.nonce>> \in validated
                           => r.state = "success" \/ (r.state = "pending" /\ r.done)
    BY <1>1 DEF RecordInv
  <2>1. CASE receipts'[k] = new
    BY <1>2, <1>3, <2>1
  <2>2. CASE \E m \in DOMAIN receipts : receipts'[k] = receipts[m]
    BY <2>2 DEF FInv, RecordInv
  <2> QED
    BY <1>7, <2>1, <2>2
<1>11. OwnRowInv'
  BY <1>3, <1>4, <1>7, <1>8 DEF OwnRowInv
<1> QED
  BY <1>9, <1>10, <1>11 DEF FInv

LEMMA ValidateFinal ==
    ASSUME FInv, IInv', Validate PROVE FInv' /\ NoSuccessAfterFailure
<1> DEFINE own == <<op.id, op.nonce>>
<1>1. /\ op.pc = "validate" /\ op' = Idle /\ told' = [told EXCEPT ![own] = "success"]
      /\ validated' = {v \in validated : v[1] # op.id} \cup {own}
      /\ UNCHANGED <<phase, svc, receipts, nonces, effects, doubt>>
  BY DEF Validate, Answered
<1>2. /\ phase = "up" /\ own \in Requests /\ own[2] = op.nonce /\ told[own] = "none"
      /\ nonces[op.nonce] = Dead /\ Idle.pc = "idle"
      /\ \A n \in DOMAIN receipts : receipts[n].id = op.id =>
            receipts[n].nonce = op.nonce /\ receipts[n].state = "pending"
  BY <1>1, OwnRequest DEF Idle
<1>3. \A n \in DOMAIN receipts : <<receipts[n].id, receipts[n].nonce>> = own =>
         receipts[n].state = "pending" /\ receipts[n].done
  BY <1>1, <1>2 DEF FInv, OwnRowInv
<1>4. validated \subseteq Requests /\ told \in [Requests -> {"none", "failed", "success"}]
  BY DEF FInv, IInv, TypeOK
<1> HIDE DEF own
<1>5. told'[own] = "success" /\ \A r \in Requests : r # own => told'[r] = told[r]
  BY <1>1, <1>2, <1>4
<1>6. \A v \in validated' : v = own \/ v \in validated
  BY <1>1
<1>7. ValidatedInv'
  BY <1>1, <1>2, <1>4, <1>5, <1>6 DEF FInv, ValidatedInv
<1>8. AnsweredInv'
  BY <1>1, <1>2, <1>5 DEF FInv, AnsweredInv
<1>9. RecordInv'
  <2> SUFFICES ASSUME NEW n \in DOMAIN receipts
               PROVE  LET r == receipts[n] IN
                      /\ nonces[r.nonce] = Dead
                      /\ r.state = "success" => told'[<<r.id, r.nonce>>] = "success"
                      /\ <<r.id, r.nonce>> \in validated'
                           => r.state = "success" \/ (r.state = "pending" /\ r.done)
    BY <1>1 DEF RecordInv
  <2>1. <<receipts[n].id, receipts[n].nonce>> \in Requests
    BY RowRequests DEF FInv
  <2>2. receipts[n].state = "success" => told'[<<receipts[n].id, receipts[n].nonce>>] = "success"
    BY <1>5, <2>1 DEF FInv, RecordInv
  <2>3. <<receipts[n].id, receipts[n].nonce>> \in validated'
           => receipts[n].state = "success" \/ (receipts[n].state = "pending" /\ receipts[n].done)
    BY <1>3, <1>6 DEF FInv, RecordInv
  <2>4. nonces[receipts[n].nonce] = Dead
    BY DEF FInv, RecordInv
  <2> QED
    BY <2>2, <2>3, <2>4
<1>10. OwnRowInv'
  BY <1>1, <1>2 DEF OwnRowInv
<1>11. NoSuccessAfterFailure
  BY <1>2, <1>5 DEF NoSuccessAfterFailure
<1> QED
  BY <1>7, <1>8, <1>9, <1>10, <1>11 DEF FInv

LEMMA FinalInit == Init => FInv
<1> SUFFICES ASSUME Init PROVE FInv
  OBVIOUS
<1>1. op.pc = "idle" /\ DOMAIN receipts = {}
  BY DEF Init, Idle
<1> QED
  BY <1>1, InvInit DEF Init, FInv, ValidatedInv, AnsweredInv, RecordInv, OwnRowInv

LEMMA FinalStep == FInv /\ [Next]_vars => FInv' /\ [NoSuccessAfterFailure]_vars
<1> SUFFICES ASSUME FInv, [Next]_vars PROVE FInv' /\ [NoSuccessAfterFailure]_vars
  OBVIOUS
<1>1. IInv'
  BY InvStep DEF FInv
<1>2. CASE Next
  BY <1>1, <1>2, QuietStep, FailedStep, ReplayFinal, AdmitFinal, BeginFinal, ValidateFinal DEF Next
<1>3. CASE UNCHANGED vars
  BY <1>1, <1>3 DEF vars, FInv, ValidatedInv, AnsweredInv, RecordInv, OwnRowInv
<1> QED
  BY <1>2, <1>3

(* A request that was answered with an error is never answered with a      *)
(* success, whatever is replayed, promoted, recovered or pruned later      *)
(* (replay_receipt, promote_action_receipts, recover_pending).             *)
THEOREM FailuresStayFailures == Spec => FailureIsFinal
<1>1. [NoSuccessAfterFailure]_vars
        => [\A r \in Requests : told[r] = "failed" => told'[r] # "success"]_vars
  BY DEF NoSuccessAfterFailure
<1> QED
  BY <1>1, FinalInit, FinalStep, PTL DEF Spec, FailureIsFinal
=============================================================================
