------------------------ MODULE ControlService_proofs ------------------------
(***************************************************************************)
(* ControlService for any modes, lease, cycle and durations.               *)
(*                                                                         *)
(* A method is the set of its results, so what it does is a lemma about    *)
(* each of them: what holds of every result, and what holds besides if the *)
(* method was entered in order and no exception went through it.           *)
(***************************************************************************)
EXTENDS ControlService, TLAPS

(* What holds of the service at every moment: a lease is held exactly      *)
(* while the valve supplies, and neither FAULT nor safe_drain has a shower. *)
Sound(s) ==
    /\ s \in Services
    /\ s.valve = "supply" <=> s.lease > 0
    /\ s.timer => ~Faulted(s) /\ mode # "safe_drain"

(* What holds as long as no exception has gone through a method: a latched *)
(* fault is a FAULT, FAULT reports DRAIN, and an open valve is accounted   *)
(* for.                                                                    *)
Latches(s) == (s.latched => Faulted(s)) /\ (Faulted(s) => s.command = "DRAIN")

Accounted(s) ==
    ~Faulted(s) /\ s.valve = "supply" =>
        /\ mode # "safe_drain"
        /\ mode = "manual_timed" => s.timer
        /\ s.last = "SUPPLY"

(* The valve is not opened and its lease not renewed. *)
NotGranted(s, x) == x.valve = "supply" => s.valve = "supply" /\ x.lease = s.lease

(* The Hub's own state is left alone. *)
Same(s, x) ==
    /\ x.state = s.state /\ x.command = s.command /\ x.latched = s.latched
    /\ x.timer = s.timer /\ x.left = s.left /\ x.duration = s.duration /\ x.limit = s.limit

(* The Hub's state only falls: towards FAULT, DRAIN and no timer. *)
Sinks(s, x) ==
    /\ x.command = "SUPPLY" => s.command = "SUPPLY"
    /\ x.timer => s.timer /\ x.left = s.left
    /\ s.latched => x.latched
    /\ Faulted(s) => Faulted(x)

Falls(s, x) == Sound(x) /\ NotGranted(s, x) /\ Sinks(s, x)

Hows == {"ok", "error", "raise"}

-----------------------------------------------------------------------------
(* The driver. *)

LEMMA ValveOnly ==
    ASSUME NEW s, Sound(s), NEW x \in {s, Lost(s), Drained(s)}
    PROVE  /\ Falls(s, x) /\ Same(s, x) /\ x.last = s.last /\ x.ready = s.ready
           /\ x = Drained(s) => x.valve = "drain"
<1>1. s \in Services /\ 0 \in 0..Lease
  BY ServiceAssumption DEF Sound
<1>2. Drained(s) \in Services /\ Lost(s) \in Services
  <2>1. "drain" \in {"drain", "supply", "unconfirmed"} /\ "unconfirmed" \in {"drain", "supply", "unconfirmed"}
    OBVIOUS
  <2> QED
    BY <1>1, <2>1, Zenon DEF Services, Drained, Lost
<1>3. CASE x = s
  BY <1>1, <1>3 DEF Sound, Falls, NotGranted, Sinks, Same, Drained, Services
<1>4. CASE x = Lost(s)
  <2>1. /\ x.valve = "unconfirmed" /\ x.lease = 0 /\ x.last = s.last /\ x.ready = s.ready
        /\ Same(s, x)
    BY <1>1, <1>4 DEF Lost, Services, Same
  <2>2. x # Drained(s)
    BY <1>1, <1>4, <2>1 DEF Drained, Services
  <2> QED
    BY <1>2, <1>4, <2>1, <2>2 DEF Sound, Falls, NotGranted, Sinks, Same, Faulted
<1>5. CASE x = Drained(s)
  <2>1. /\ x.valve = "drain" /\ x.lease = 0 /\ x.last = s.last /\ x.ready = s.ready
        /\ Same(s, x)
    BY <1>1, <1>5 DEF Drained, Services, Same
  <2> QED
    BY <1>2, <1>5, <2>1 DEF Sound, Falls, NotGranted, Sinks, Same, Faulted
<1> QED
  BY <1>3, <1>4, <1>5

(* A receipt changes what the Hub remembers of its commands. *)
LEMMA ConfirmedFacts ==
    ASSUME NEW s, Sound(s), NEW action
    PROVE  /\ Sound(Confirmed(s, action)) /\ Same(s, Confirmed(s, action))
           /\ Confirmed(s, action).valve = s.valve /\ Confirmed(s, action).lease = s.lease
           /\ Confirmed(s, action).last = IF action = "drain" THEN "DRAIN" ELSE "SUPPLY"
<1> DEFINE x == Confirmed(s, action)
<1>1. s \in Services
  BY DEF Sound
<1>2. /\ x.valve = s.valve /\ x.lease = s.lease /\ Same(s, x)
      /\ x.last = IF action = "drain" THEN "DRAIN" ELSE "SUPPLY"
  BY <1>1 DEF Confirmed, Services, Same
<1>3. x \in Services
  <2>1. /\ (IF action = "drain" THEN "DRAIN" ELSE "SUPPLY") \in {"none", "DRAIN", "SUPPLY"}
        /\ (action = "drain" \/ s.ready) \in BOOLEAN
    BY <1>1 DEF Services
  <2> QED
    BY <1>1, <2>1, Zenon DEF Services, Confirmed
<1> QED
  BY <1>2, <1>3 DEF Sound, Same, Faulted

LEMMA AttemptDrain ==
    ASSUME NEW s, Sound(s), NEW r \in Attempt(s, "drain")
    PROVE  /\ r.how \in Hows /\ Falls(s, r.s) /\ Same(s, r.s)
           /\ r.how = "ok" => r.s.valve = "drain" /\ r.s.last = "DRAIN"
           /\ r.how # "ok" => r.s.last = s.last
<1>1. Accepted(s, "drain") = {Drained(s)}
  BY DEF Accepted
<1>2. CASE r = [s |-> Confirmed(Drained(s), "drain"), how |-> "ok"]
  <2>1. Falls(s, Drained(s)) /\ Same(s, Drained(s)) /\ Drained(s).valve = "drain"
    BY ValveOnly
  <2>2. /\ Sound(r.s) /\ Same(Drained(s), r.s)
        /\ r.s.valve = "drain" /\ r.s.last = "DRAIN" /\ r.how = "ok"
    BY <1>2, <2>1, ConfirmedFacts DEF Falls
  <2> HIDE <1>2
  <2> QED
    BY <2>1, <2>2 DEF Hows, Falls, Same, NotGranted, Sinks, Faulted
<1>3. CASE \E x \in {s, Lost(s), Drained(s)}, f \in Failures : r = [s |-> x, how |-> f]
  <2>1. PICK x \in {s, Lost(s), Drained(s)}, f \in Failures : r = [s |-> x, how |-> f]
    BY <1>3
  <2>2. r.s = x /\ r.how = f /\ f \in {"error", "raise"}
    BY <2>1, ServiceAssumption
  <2> QED
    BY <2>2, ValveOnly DEF Hows
<1> QED
  BY <1>1, <1>2, <1>3 DEF Attempt

(* Drained twice is as good as once. *)
LEMMA FallsTrans ==
    ASSUME NEW s, NEW x, NEW y, Falls(s, x), Falls(x, y)
    PROVE  Falls(s, y)
  BY DEF Falls, NotGranted, Sinks

LEMMA SendDrainQuietlyFacts ==
    ASSUME NEW s, Sound(s), NEW r \in SendDrainQuietly(s)
    PROVE  r.how \in Hows /\ Falls(s, r.s) /\ Same(s, r.s)
<1>1. PICK q \in Attempt(s, "drain") :
         r \in CASE q.how = "ok"    -> Done(q.s)
                 [] q.how = "error" -> Attempt(q.s, "drain")
                 [] OTHER           -> {q}
  BY DEF SendDrainQuietly, Then
<1>2. q.how \in Hows /\ Falls(s, q.s) /\ Same(s, q.s) /\ Sound(q.s)
  BY AttemptDrain DEF Falls
<1>3. CASE q.how = "ok"
  BY <1>1, <1>2, <1>3 DEF Done, Hows
<1>4. CASE q.how = "error"
  BY <1>1, <1>2, <1>4, AttemptDrain, FallsTrans DEF Same
<1>5. CASE q.how = "raise"
  BY <1>1, <1>2, <1>5
<1> QED
  BY <1>2, <1>3, <1>4, <1>5 DEF Hows

(* The first failure of a store: FAULT and DRAIN, unless its own DRAIN      *)
(* raised, and in either case the latch; a later one does nothing.         *)
LEMMA LatchFacts ==
    ASSUME NEW s, Sound(s), NEW r \in LatchPersistenceFailure(s)
    PROVE  /\ r.how \in {"ok", "raise"} /\ Falls(s, r.s) /\ r.s.latched
           /\ s.latched => r = [s |-> s, how |-> "ok"]
           /\ r.how = "ok" /\ Latches(s) => Latches(r.s) /\ Faulted(r.s)
<1>1. s \in Services /\ 0 \in Nat /\ 0 \in Int
  BY DEF Sound
<1>2. CASE s.latched
  <2>1. r = [s |-> s, how |-> "ok"]
    BY <1>2 DEF LatchPersistenceFailure, Done
  <2> QED
    BY <1>2, <2>1 DEF Falls, NotGranted, Sinks, Latches
<1>3. CASE ~s.latched
  <2> DEFINE n == NoTimer([s EXCEPT !.latched = TRUE])
  <2>1. n \in Services
    BY <1>1, Zenon DEF Services, NoTimer
  <2>2. /\ n.state = s.state /\ n.command = s.command /\ n.latched /\ ~n.timer
        /\ n.valve = s.valve /\ n.lease = s.lease
    BY <1>1 DEF Services, NoTimer
  <2>3. PICK q \in SendDrainQuietly(n) :
           r \in CASE q.how = "ok"    -> Done([q.s EXCEPT !.state = "FAULT", !.command = "DRAIN"])
                   [] q.how = "error" -> Done([q.s EXCEPT !.state = "FAULT", !.command = "DRAIN"])
                   [] OTHER           -> {q}
    BY <1>3 DEF LatchPersistenceFailure, Regardless, Then
  <2> HIDE DEF n
  <2>4. Sound(n) /\ Falls(s, n)
    BY <2>1, <2>2 DEF Sound, Falls, NotGranted, Sinks, Faulted
  <2>5. q.how \in Hows /\ Falls(n, q.s) /\ Same(n, q.s)
    BY <2>4, SendDrainQuietlyFacts
  <2>6. Falls(s, q.s) /\ q.s.latched /\ ~q.s.timer
    BY <2>2, <2>4, <2>5, FallsTrans DEF Same
  <2>7. CASE q.how = "raise"
    <3>1. r = q
      BY <2>3, <2>7
    <3> QED
      BY <1>3, <2>6, <2>7, <3>1
  <2>8. CASE q.how \in {"ok", "error"}
    <3> DEFINE x == [q.s EXCEPT !.state = "FAULT", !.command = "DRAIN"]
    <3>1. r = [s |-> x, how |-> "ok"]
      BY <2>3, <2>8 DEF Done
    <3>2. q.s \in Services
      BY <2>6 DEF Falls, Sound
    <3>3. x \in Services
      <4>1. "FAULT" \in States /\ "DRAIN" \in {"DRAIN", "SUPPLY"}
        BY DEF States
      <4> QED
        BY <3>2, <4>1, Zenon DEF Services
    <3>4. /\ x.state = "FAULT" /\ x.command = "DRAIN" /\ x.latched /\ ~x.timer
          /\ x.valve = q.s.valve /\ x.lease = q.s.lease
      BY <2>6, <3>2 DEF Services
    <3> HIDE DEF x
    <3>5. Falls(s, x) /\ Latches(x) /\ Faulted(x)
      BY <2>6, <3>3, <3>4 DEF Falls, Sound, NotGranted, Sinks, Faulted, Latches
    <3> QED
      BY <1>3, <3>1, <3>4, <3>5
  <2> QED
    BY <2>5, <2>7, <2>8 DEF Hows
<1> QED
  BY <1>2, <1>3

(* An event that was stored leaves the service alone; one that was not has *)
(* latched.                                                                *)
LEMMA AppendEventFacts ==
    ASSUME NEW s, Sound(s), NEW r \in AppendEvent(s)
    PROVE  /\ r.how \in Hows /\ Falls(s, r.s)
           /\ r.how = "ok" => r.s = s
           /\ r.how # "ok" => r.s.latched
           /\ r.how = "error" /\ Latches(s) => Latches(r.s) /\ Faulted(r.s)
<1>1. CASE r \in Done(s)
  <2>1. r = [s |-> s, how |-> "ok"]
    BY <1>1 DEF Done
  <2> QED
    BY <2>1 DEF Hows, Falls, NotGranted, Sinks
<1>2. CASE r \in Regardless(LatchPersistenceFailure(s), Refused)
  <2>1. PICK q \in LatchPersistenceFailure(s) :
           r \in CASE q.how = "ok" -> Refused(q.s) [] q.how = "error" -> Refused(q.s)
                   [] OTHER -> {q}
    BY <1>2 DEF Regardless, Then
  <2>2. /\ q.how \in {"ok", "raise"} /\ Falls(s, q.s) /\ q.s.latched
        /\ q.how = "ok" /\ Latches(s) => Latches(q.s) /\ Faulted(q.s)
    BY LatchFacts
  <2>3. CASE q.how = "ok"
    <3>1. r = [s |-> q.s, how |-> "error"]
      BY <2>1, <2>3 DEF Refused
    <3> QED
      BY <2>2, <2>3, <3>1 DEF Hows
  <2>4. CASE q.how = "raise"
    <3>1. r = q
      BY <2>1, <2>4
    <3> QED
      BY <2>2, <2>4, <3>1 DEF Hows
  <2> QED
    BY <2>2, <2>3, <2>4
<1> QED
  BY <1>1, <1>2 DEF AppendEvent

LEMMA RecordFacts ==
    ASSUME NEW s, Sound(s), NEW r \in Record(s)
    PROVE  /\ r.how \in {"ok", "raise"} /\ Falls(s, r.s)
           /\ (r.how = "ok" /\ r.s = s) \/ r.s.latched
           /\ r.how = "ok" /\ Latches(s) => r.s = s \/ (Latches(r.s) /\ Faulted(r.s))
<1>1. PICK q \in AppendEvent(s) :
         r \in CASE q.how = "ok" -> Done(q.s) [] q.how = "error" -> Done(q.s)
                 [] OTHER -> {q}
  BY DEF Record, Regardless, Then
<1>2. /\ q.how \in Hows /\ Falls(s, q.s)
      /\ q.how = "ok" => q.s = s
      /\ q.how # "ok" => q.s.latched
      /\ q.how = "error" /\ Latches(s) => Latches(q.s) /\ Faulted(q.s)
  BY AppendEventFacts
<1>3. CASE q.how \in {"ok", "error"}
  <2>1. r = [s |-> q.s, how |-> "ok"]
    BY <1>1, <1>3 DEF Done
  <2> QED
    BY <1>2, <1>3, <2>1
<1>4. CASE q.how = "raise"
  <2>1. r = q
    BY <1>1, <1>4
  <2> QED
    BY <1>2, <1>4, <2>1
<1> QED
  BY <1>2, <1>3, <1>4 DEF Hows

(* The valve is open under a full lease, or as it was. *)
Holds(s, x) ==
    x.valve = "supply" => x.lease = Lease \/ (s.valve = "supply" /\ x.lease = s.lease)

LEMMA AttemptSupply ==
    ASSUME NEW s, Sound(s), NEW action \in {"begin", "renew"}, NEW r \in Attempt(s, action)
    PROVE  /\ r.how \in Hows /\ Sound(r.s) /\ Same(s, r.s) /\ Holds(s, r.s)
           /\ r.how = "ok" => r.s.valve = "supply" /\ r.s.lease = Lease /\ r.s.last = "SUPPLY"
<1>1. s \in Services /\ Lease \in 0..Lease /\ Lease > 0
  BY ServiceAssumption DEF Sound
<1>2. Opened(s) \in Services
  <2>1. "supply" \in {"drain", "supply", "unconfirmed"}
    OBVIOUS
  <2> QED
    BY <1>1, <2>1, Zenon DEF Services, Opened
<1>3. Opened(s).valve = "supply" /\ Opened(s).lease = Lease /\ Same(s, Opened(s))
  BY <1>1 DEF Services, Opened, Same
<1>4. Sound(Opened(s)) /\ Holds(s, Opened(s))
  BY <1>1, <1>2, <1>3 DEF Sound, Same, Faulted, Holds
<1>5. Accepted(s, action) \subseteq {Opened(s)}
  BY DEF Accepted
<1>6. CASE r = [s |-> Confirmed(Opened(s), action), how |-> "ok"]
  <2>1. /\ Sound(r.s) /\ Same(Opened(s), r.s)
        /\ r.s.valve = "supply" /\ r.s.lease = Lease /\ r.s.last = "SUPPLY" /\ r.how = "ok"
    BY <1>3, <1>4, <1>6, ConfirmedFacts
  <2> QED
    BY <1>3, <2>1 DEF Hows, Same, Holds
<1>7. CASE \E x \in {Opened(s), s, Lost(s), Drained(s)}, f \in Failures :
              r = [s |-> x, how |-> f]
  <2>1. PICK x \in {Opened(s), s, Lost(s), Drained(s)}, f \in Failures : r = [s |-> x, how |-> f]
    BY <1>7
  <2>2. r.s = x /\ r.how = f /\ f \in {"error", "raise"}
    BY <2>1, ServiceAssumption
  <2>3. CASE x = Opened(s)
    BY <1>3, <1>4, <2>2, <2>3 DEF Hows
  <2>4. CASE x \in {s, Lost(s), Drained(s)}
    <3>1. Falls(s, x) /\ Same(s, x)
      BY <2>4, ValveOnly
    <3> QED
      BY <2>2, <3>1 DEF Hows, Falls, NotGranted, Holds
  <2> QED
    BY <2>1, <2>3, <2>4
<1> QED
  BY <1>5, <1>6, <1>7 DEF Attempt

LEMMA SendSupplyFacts ==
    ASSUME NEW s, Sound(s), NEW action \in {"begin", "renew"}, NEW r \in SendSupply(s, action)
    PROVE  /\ r.how \in Hows /\ Sound(r.s) /\ Sinks(s, r.s) /\ Holds(s, r.s)
           /\ r.how = "ok" => /\ Same(s, r.s) /\ r.s.valve = "supply" /\ r.s.lease = Lease
                              /\ r.s.last = "SUPPLY"
           /\ r.how = "error" /\ Latches(s) => Latches(r.s)
<1>1. CASE ~s.ready
  <2>1. r = [s |-> s, how |-> "error"]
    BY <1>1 DEF SendSupply, Refused
  <2> QED
    BY <2>1 DEF Hows, Sinks, Holds
<1>2. CASE s.ready
  <2>1. PICK q \in Attempt(s, action) :
           r \in CASE q.how = "ok"    -> Done(q.s)
                   [] q.how = "error" -> Regardless(AppendEvent(q.s), Refused)
                   [] OTHER           -> {q}
    BY <1>2 DEF SendSupply, Then
  <2>2. /\ q.how \in Hows /\ Sound(q.s) /\ Same(s, q.s) /\ Holds(s, q.s)
        /\ q.how = "ok" => q.s.valve = "supply" /\ q.s.lease = Lease /\ q.s.last = "SUPPLY"
    BY AttemptSupply
  <2>3. Sinks(s, q.s) /\ (Latches(s) => Latches(q.s))
    BY <2>2 DEF Same, Sinks, Latches, Faulted
  <2>4. CASE q.how = "ok"
    <3>1. r = [s |-> q.s, how |-> "ok"]
      BY <2>1, <2>4 DEF Done
    <3> QED
      BY <2>2, <2>3, <2>4, <3>1 DEF Hows
  <2>5. CASE q.how = "raise"
    <3>1. r = q
      BY <2>1, <2>5
    <3> QED
      BY <2>2, <2>3, <2>5, <3>1
  <2>6. CASE q.how = "error"
    <3>1. PICK e \in AppendEvent(q.s) :
             r \in CASE e.how = "ok" -> Refused(e.s) [] e.how = "error" -> Refused(e.s)
                     [] OTHER -> {e}
      BY <2>1, <2>6 DEF Regardless, Then
    <3>2. /\ e.how \in Hows /\ Falls(q.s, e.s)
          /\ e.how = "ok" => e.s = q.s
          /\ e.how = "error" /\ Latches(q.s) => Latches(e.s)
      BY <2>2, AppendEventFacts
    <3>3. r.s = e.s /\ r.how = (IF e.how = "raise" THEN "raise" ELSE "error")
      BY <3>1, <3>2 DEF Refused, Hows
    <3>4. Sound(e.s) /\ Sinks(s, e.s) /\ Holds(s, e.s)
      BY <2>2, <2>3, <3>2 DEF Falls, Sinks, NotGranted, Holds
    <3> QED
      BY <2>3, <3>2, <3>3, <3>4 DEF Hows
  <2> QED
    BY <2>2, <2>4, <2>5, <2>6 DEF Hows
<1> QED
  BY <1>1, <1>2

LEMMA SendDrainFacts ==
    ASSUME NEW s, Sound(s), NEW r \in SendDrain(s)
    PROVE  /\ r.how \in Hows /\ Falls(s, r.s)
           /\ r.how = "ok" => Same(s, r.s) /\ r.s.valve = "drain" /\ r.s.last = "DRAIN"
           /\ r.how # "raise" /\ Latches(s) => Latches(r.s)
<1>1. PICK q \in Attempt(s, "drain") :
         r \in CASE q.how = "ok"    -> Done(q.s)
                 [] q.how = "error" ->
                      Then(AppendEvent(q.s),
                           LAMBDA y : Then(Attempt(y, "drain"), Done,
                                           LAMBDA z : Regardless(AppendEvent(z), Refused)),
                           Refused)
                 [] OTHER           -> {q}
  BY DEF SendDrain, Then
<1>2. /\ q.how \in Hows /\ Falls(s, q.s) /\ Same(s, q.s) /\ Sound(q.s)
      /\ q.how = "ok" => q.s.valve = "drain" /\ q.s.last = "DRAIN"
      /\ Latches(s) => Latches(q.s)
  BY AttemptDrain DEF Falls, Same, Latches, Faulted
<1>3. CASE q.how = "ok"
  <2>1. r = [s |-> q.s, how |-> "ok"]
    BY <1>1, <1>3 DEF Done
  <2> QED
    BY <1>2, <1>3, <2>1 DEF Hows
<1>4. CASE q.how = "raise"
  <2>1. r = q
    BY <1>1, <1>4
  <2> QED
    BY <1>2, <1>4, <2>1 DEF Hows
<1>5. CASE q.how = "error"
  <2>1. PICK e \in AppendEvent(q.s) :
           r \in CASE e.how = "ok"    -> Then(Attempt(e.s, "drain"), Done,
                                              LAMBDA z : Regardless(AppendEvent(z), Refused))
                   [] e.how = "error" -> Refused(e.s)
                   [] OTHER           -> {e}
    BY <1>1, <1>5 DEF Then
  <2>2. /\ e.how \in Hows /\ Falls(q.s, e.s) /\ Sound(e.s)
        /\ e.how = "ok" => e.s = q.s
        /\ e.how = "error" /\ Latches(q.s) => Latches(e.s)
    BY <1>2, AppendEventFacts DEF Falls
  <2>3. Falls(s, e.s)
    BY <1>2, <2>2, FallsTrans
  <2>4. CASE e.how = "error"
    <3>1. r = [s |-> e.s, how |-> "error"]
      BY <2>1, <2>4 DEF Refused
    <3> QED
      BY <1>2, <2>2, <2>3, <2>4, <3>1 DEF Hows
  <2>5. CASE e.how = "raise"
    <3>1. r = e
      BY <2>1, <2>5
    <3> QED
      BY <2>3, <2>5, <3>1 DEF Hows
  <2>6. CASE e.how = "ok"
    <3>1. PICK a \in Attempt(q.s, "drain") :
             r \in CASE a.how = "ok"    -> Done(a.s)
                     [] a.how = "error" -> Regardless(AppendEvent(a.s), Refused)
                     [] OTHER           -> {a}
      BY <2>1, <2>2, <2>6 DEF Then
    <3>2. /\ a.how \in Hows /\ Falls(q.s, a.s) /\ Same(q.s, a.s) /\ Sound(a.s)
          /\ a.how = "ok" => a.s.valve = "drain" /\ a.s.last = "DRAIN"
          /\ Latches(q.s) => Latches(a.s)
      BY <1>2, AttemptDrain DEF Falls, Same, Latches, Faulted
    <3>3. Falls(s, a.s) /\ Same(s, a.s)
      BY <1>2, <3>2, FallsTrans DEF Same
    <3>4. CASE a.how = "ok"
      <4>1. r = [s |-> a.s, how |-> "ok"]
        BY <3>1, <3>4 DEF Done
      <4> QED
        BY <1>2, <3>2, <3>3, <3>4, <4>1 DEF Hows
    <3>5. CASE a.how = "raise"
      <4>1. r = a
        BY <3>1, <3>5
      <4> QED
        BY <3>3, <3>5, <4>1 DEF Hows
    <3>6. CASE a.how = "error"
      <4>1. PICK b \in AppendEvent(a.s) :
               r \in CASE b.how = "ok" -> Refused(b.s) [] b.how = "error" -> Refused(b.s)
                       [] OTHER -> {b}
        BY <3>1, <3>6 DEF Regardless, Then
      <4>2. /\ b.how \in Hows /\ Falls(a.s, b.s)
            /\ b.how = "ok" => b.s = a.s
            /\ b.how = "error" /\ Latches(a.s) => Latches(b.s)
        BY <3>2, AppendEventFacts
      <4>3. r.s = b.s /\ r.how = (IF b.how = "raise" THEN "raise" ELSE "error")
        BY <4>1, <4>2 DEF Refused, Hows
      <4>4. Falls(s, b.s)
        BY <3>3, <4>2, FallsTrans
      <4> QED
        BY <1>2, <3>2, <4>2, <4>3, <4>4 DEF Hows
    <3> QED
      BY <3>2, <3>4, <3>5, <3>6 DEF Hows
  <2> QED
    BY <2>2, <2>4, <2>5, <2>6 DEF Hows
<1> QED
  BY <1>2, <1>3, <1>4, <1>5 DEF Hows

-----------------------------------------------------------------------------
(* Decisions and faults. *)

LEMMA IdleStateFacts ==
    ASSUME mode \in Modes
    PROVE  IdleState \in States \ {"FAULT"}
  BY ServiceAssumption DEF IdleState, States

LEMMA DecideFacts ==
    ASSUME NEW s, Sound(s), NEW state \in States \ {"FAULT"}, NEW command \in {"DRAIN", "SUPPLY"},
           NEW x, x = Decide(s, state, command)
    PROVE  /\ Sound(x)
           /\ s.latched => x = s
           /\ ~s.latched => x.state = state /\ x.command = command
           /\ x.valve = s.valve /\ x.lease = s.lease /\ x.last = s.last
           /\ x.timer = s.timer /\ x.left = s.left /\ x.latched = s.latched
<1>1. s \in Services /\ state # "FAULT"
  BY DEF Sound
<1>2. CASE s.latched
  <2>1. x = s
    BY <1>1, <1>2 DEF Decide
  <2> QED
    BY <1>2, <2>1
<1>3. CASE ~s.latched
  <2>1. x = [s EXCEPT !.state = state, !.command = command]
    BY <1>1, <1>3 DEF Decide
  <2>2. x \in Services
    BY <1>1, <2>1, Zenon DEF Services
  <2>3. /\ x.state = state /\ x.command = command
        /\ x.valve = s.valve /\ x.lease = s.lease /\ x.last = s.last
        /\ x.timer = s.timer /\ x.left = s.left /\ x.latched = s.latched
    BY <1>1, <2>1 DEF Services
  <2> QED
    BY <1>1, <1>3, <2>2, <2>3 DEF Sound, Faulted
<1> QED
  BY <1>2, <1>3

LEMMA NoTimerFacts ==
    ASSUME NEW s, Sound(s)
    PROVE  /\ Falls(s, NoTimer(s)) /\ ~NoTimer(s).timer
           /\ NoTimer(s).state = s.state /\ NoTimer(s).command = s.command
           /\ NoTimer(s).latched = s.latched
<1>1. s \in Services /\ 0 \in Nat /\ 0 \in Int
  BY DEF Sound
<1>2. NoTimer(s) \in Services
  BY <1>1, Zenon DEF Services, NoTimer
<1>3. /\ NoTimer(s).state = s.state /\ NoTimer(s).command = s.command
      /\ NoTimer(s).latched = s.latched /\ ~NoTimer(s).timer
      /\ NoTimer(s).valve = s.valve /\ NoTimer(s).lease = s.lease
  BY <1>1 DEF Services, NoTimer
<1> QED
  BY <1>2, <1>3 DEF Falls, Sound, NotGranted, Sinks, Faulted

LEMMA FaultFacts ==
    ASSUME NEW s, Sound(s), NEW r \in Fault(s)
    PROVE  /\ r.how \in {"ok", "raise"} /\ Falls(s, r.s) /\ (s.latched \/ ~r.s.timer)
           /\ r.how = "ok" /\ Latches(s) => Latches(r.s) /\ Faulted(r.s)
<1>1. CASE s.latched
  <2>1. r = [s |-> s, how |-> "ok"]
    BY <1>1 DEF Fault, Done
  <2> QED
    BY <1>1, <2>1 DEF Falls, NotGranted, Sinks, Latches
<1>2. CASE ~s.latched
  <2> DEFINE n == NoTimer(s)
             x == Decide(n, "FAULT", "DRAIN")
  <2>1. /\ Falls(s, n) /\ ~n.timer /\ n.latched = s.latched /\ n \in Services
    BY NoTimerFacts DEF Falls, Sound
  <2>2. r \in Record(x)
    BY <1>2 DEF Fault
  <2>3. "FAULT" \in States /\ "DRAIN" \in {"DRAIN", "SUPPLY"}
    BY DEF States
  <2> HIDE DEF n
  <2>4. x = [n EXCEPT !.state = "FAULT", !.command = "DRAIN"]
    BY <2>1 DEF Decide
  <2>5. x \in Services
    BY <2>1, <2>3, <2>4, Zenon DEF Services
  <2>6. /\ x.state = "FAULT" /\ x.command = "DRAIN" /\ ~x.timer /\ x.latched = n.latched
        /\ x.valve = n.valve /\ x.lease = n.lease
    BY <2>1, <2>4 DEF Services
  <2> HIDE DEF x
  <2>7. Falls(s, x) /\ Latches(x) /\ Faulted(x)
    BY <2>1, <2>5, <2>6 DEF Falls, Sound, NotGranted, Sinks, Faulted, Latches
  <2>8. /\ r.how \in {"ok", "raise"} /\ Falls(x, r.s)
        /\ r.how = "ok" /\ Latches(x) => r.s = x \/ (Latches(r.s) /\ Faulted(r.s))
    BY <2>2, <2>7, RecordFacts DEF Falls
  <2>9. Falls(s, r.s) /\ ~r.s.timer
    BY <2>6, <2>7, <2>8, FallsTrans DEF Falls, Sinks
  <2> QED
    BY <2>7, <2>8, <2>9
<1> QED
  BY <1>1, <1>2

LEMMA AbortSupplyFacts ==
    ASSUME NEW s, Sound(s), NEW r \in AbortSupply(s)
    PROVE  /\ r.how \in {"ok", "raise"} /\ Falls(s, r.s)
           /\ r.how = "ok" /\ Latches(s) => Latches(r.s) /\ Faulted(r.s)
<1>1. PICK q \in SendDrain(s) :
         r \in CASE q.how = "ok" -> Fault(q.s) [] q.how = "error" -> Fault(q.s)
                 [] OTHER -> {q}
  BY DEF AbortSupply, Regardless, Then
<1>2. /\ q.how \in Hows /\ Falls(s, q.s) /\ Sound(q.s)
      /\ q.how # "raise" /\ Latches(s) => Latches(q.s)
  BY SendDrainFacts DEF Falls
<1>3. CASE q.how = "raise"
  <2>1. r = q
    BY <1>1, <1>3
  <2> QED
    BY <1>2, <1>3, <2>1
<1>4. CASE q.how \in {"ok", "error"}
  <2>1. r \in Fault(q.s)
    BY <1>1, <1>4
  <2>2. /\ r.how \in {"ok", "raise"} /\ Falls(q.s, r.s)
        /\ r.how = "ok" /\ Latches(q.s) => Latches(r.s) /\ Faulted(r.s)
    BY <1>2, <2>1, FaultFacts
  <2> QED
    BY <1>2, <1>4, <2>2, FallsTrans
<1> QED
  BY <1>2, <1>3, <1>4 DEF Hows

(* DRAIN and the end of a shower: no timer is left, nothing is granted, and *)
(* unless an exception came through, the pair is drained or the Hub is in  *)
(* FAULT.                                                                  *)
LEMMA DrainNowFacts ==
    ASSUME mode \in Modes, NEW s, Sound(s), NEW r \in DrainNow(s)
    PROVE  /\ r.how \in {"ok", "raise"} /\ Sound(r.s) /\ NotGranted(s, r.s) /\ ~r.s.timer
           /\ s.latched => r.s.latched
           /\ r.how = "ok" /\ Latches(s) =>
                 Latches(r.s) /\ r.s.command = "DRAIN" /\ (Faulted(r.s) \/ r.s.valve = "drain")
<1> DEFINE n == NoTimer(s)
<1>1. PICK q \in SendDrain(n) :
         r \in CASE q.how = "ok"    -> Record(Decide(q.s, IdleState, "DRAIN"))
                 [] q.how = "error" -> Fault(q.s)
                 [] OTHER           -> {q}
  BY DEF DrainNow, Then
<1>2. Falls(s, n) /\ ~n.timer /\ Sound(n) /\ n.latched = s.latched /\ (Latches(s) => Latches(n))
  BY NoTimerFacts DEF Falls, Latches, Faulted
<1> HIDE DEF n
<1>3. /\ q.how \in Hows /\ Falls(n, q.s) /\ Sound(q.s)
      /\ q.how = "ok" => Same(n, q.s) /\ q.s.valve = "drain"
      /\ q.how # "raise" /\ Latches(n) => Latches(q.s)
  BY <1>2, SendDrainFacts DEF Falls
<1>4. Falls(s, q.s) /\ ~q.s.timer
  BY <1>2, <1>3, FallsTrans DEF Falls, Sinks
<1>5. CASE q.how = "raise"
  <2>1. r = q
    BY <1>1, <1>5
  <2> QED
    BY <1>4, <1>5, <2>1 DEF Falls, Sinks
<1>6. CASE q.how = "error"
  <2>1. r \in Fault(q.s)
    BY <1>1, <1>6
  <2>2. /\ r.how \in {"ok", "raise"} /\ Falls(q.s, r.s)
        /\ r.how = "ok" /\ Latches(q.s) => Latches(r.s) /\ Faulted(r.s)
    BY <1>3, <2>1, FaultFacts
  <2>3. Falls(s, r.s) /\ ~r.s.timer
    BY <1>4, <2>2, FallsTrans DEF Falls, Sinks
  <2> QED
    BY <1>2, <1>3, <1>6, <2>2, <2>3 DEF Falls, Sinks, Latches
<1>7. CASE q.how = "ok"
  <2> DEFINE x == Decide(q.s, IdleState, "DRAIN")
  <2>1. r \in Record(x)
    BY <1>1, <1>7
  <2>2. /\ Sound(x)
        /\ q.s.latched => x = q.s
        /\ ~q.s.latched => x.state = IdleState /\ x.command = "DRAIN"
        /\ x.valve = q.s.valve /\ x.lease = q.s.lease /\ x.timer = q.s.timer
        /\ x.latched = q.s.latched
    BY <1>3, IdleStateFacts, DecideFacts
  <2> HIDE DEF x
  <2>3. /\ r.how \in {"ok", "raise"} /\ Falls(x, r.s)
        /\ r.how = "ok" /\ Latches(x) => r.s = x \/ (Latches(r.s) /\ Faulted(r.s))
    BY <2>1, <2>2, RecordFacts
  <2>4. Sound(r.s) /\ NotGranted(s, r.s) /\ ~r.s.timer /\ (s.latched => r.s.latched)
    BY <1>4, <2>2, <2>3 DEF Falls, NotGranted, Sinks
  <2>5. Latches(s) => Latches(x) /\ x.command = "DRAIN" /\ x.valve = "drain"
    BY <1>2, <1>3, <1>7, <2>2, IdleStateFacts DEF Latches, Faulted
  <2> QED
    BY <2>3, <2>4, <2>5 DEF Latches
<1> QED
  BY <1>3, <1>5, <1>6, <1>7 DEF Hows

-----------------------------------------------------------------------------
(* The methods. *)

(* What every result of a method has, even one that an exception ended: a  *)
(* shower that is left is the one there was, and a latch stays.            *)
Serves(s, x) ==
    /\ Sound(x)
    /\ x.timer => s.timer /\ x.left = s.left
    /\ s.latched => x.latched

InOrder(s) == Latches(s) /\ Accounted(s)

(* A Hub that supplies has just renewed its lease. *)
Renewed(x) == x.command = "SUPPLY" /\ x.valve = "supply" => x.lease = Lease

LEMMA FallsServes ==
    ASSUME NEW s, NEW x, Falls(s, x)
    PROVE  Serves(s, x)
  BY DEF Falls, Sinks, Serves

LEMMA ServesTrans ==
    ASSUME NEW s, NEW x, NEW y, Serves(s, x), Serves(x, y)
    PROVE  Serves(s, y)
  BY DEF Serves

(* A decision and its event. *)
LEMMA SettleFacts ==
    ASSUME NEW s, Sound(s), NEW state \in States \ {"FAULT"}, NEW command \in {"DRAIN", "SUPPLY"},
           NEW r \in Record(Decide(s, state, command))
    PROVE  /\ r.how \in {"ok", "raise"} /\ Serves(s, r.s)
           /\ r.how = "ok" /\ Latches(s) =>
                 /\ Latches(r.s)
                 /\ Faulted(r.s) \/ (/\ r.s.command = command /\ r.s.valve = s.valve
                                     /\ r.s.lease = s.lease /\ r.s.last = s.last
                                     /\ r.s.timer = s.timer)
<1> DEFINE x == Decide(s, state, command)
<1>1. r \in Record(x)
  OBVIOUS
<1>2. /\ Sound(x)
      /\ s.latched => x = s
      /\ ~s.latched => x.state = state /\ x.command = command
      /\ x.valve = s.valve /\ x.lease = s.lease /\ x.last = s.last
      /\ x.timer = s.timer /\ x.left = s.left /\ x.latched = s.latched
  BY DecideFacts
<1> HIDE DEF x
<1>3. /\ r.how \in {"ok", "raise"} /\ Falls(x, r.s)
      /\ r.how = "ok" /\ Latches(x) => r.s = x \/ (Latches(r.s) /\ Faulted(r.s))
  BY <1>1, <1>2, RecordFacts
<1>4. Serves(s, r.s)
  BY <1>2, <1>3 DEF Falls, Sinks, Serves
<1>5. Latches(s) => Latches(x)
  BY <1>2 DEF Latches, Faulted
<1>6. Latches(s) /\ s.latched => Faulted(x)
  BY <1>2 DEF Latches
<1> QED
  BY <1>2, <1>3, <1>4, <1>5, <1>6

(* SUPPLY on the policy's decision. *)
LEMMA ActOnSupply ==
    ASSUME mode = "automatic", NEW s, Sound(s), NEW r \in ActOn(s, "SUPPLY")
    PROVE  /\ r.how \in {"ok", "raise"} /\ Serves(s, r.s)
           /\ r.how = "ok" /\ InOrder(s) => InOrder(r.s) /\ Renewed(r.s)
<1>1. PICK q \in SendSupply(s, SupplyAction(s)) :
         r \in CASE q.how = "ok"    -> Record(Decide(q.s, "NORMAL", "SUPPLY"))
                 [] q.how = "error" -> AbortSupply(q.s)
                 [] OTHER           -> {q}
  BY DEF ActOn, Then
<1>2. SupplyAction(s) \in {"begin", "renew"}
  BY DEF SupplyAction
<1>3. /\ q.how \in Hows /\ Sound(q.s) /\ Sinks(s, q.s)
      /\ q.how = "ok" => /\ Same(s, q.s) /\ q.s.valve = "supply" /\ q.s.lease = Lease
                         /\ q.s.last = "SUPPLY"
      /\ q.how = "error" /\ Latches(s) => Latches(q.s)
  BY <1>2, SendSupplyFacts
<1>4. Serves(s, q.s)
  BY <1>3 DEF Serves, Sinks
<1>5. CASE q.how = "raise"
  <2>1. r = q
    BY <1>1, <1>5
  <2> QED
    BY <1>4, <1>5, <2>1
<1>6. CASE q.how = "error"
  <2>1. r \in AbortSupply(q.s)
    BY <1>1, <1>6
  <2>2. /\ r.how \in {"ok", "raise"} /\ Serves(s, r.s)
        /\ r.how = "ok" /\ Latches(q.s) => Latches(r.s) /\ Faulted(r.s)
    BY <1>3, <1>4, <2>1, AbortSupplyFacts, FallsServes, ServesTrans
  <2> QED
    BY <1>3, <1>6, <2>2 DEF InOrder, Accounted, Renewed, Latches
<1>7. CASE q.how = "ok"
  <2>1. r \in Record(Decide(q.s, "NORMAL", "SUPPLY")) /\ "NORMAL" \in States \ {"FAULT"}
    BY <1>1, <1>7 DEF States
  <2>2. /\ r.how \in {"ok", "raise"} /\ Serves(q.s, r.s)
        /\ r.how = "ok" /\ Latches(q.s) =>
              /\ Latches(r.s)
              /\ Faulted(r.s) \/ (/\ r.s.command = "SUPPLY" /\ r.s.valve = q.s.valve
                                  /\ r.s.lease = q.s.lease /\ r.s.last = q.s.last
                                  /\ r.s.timer = q.s.timer)
    BY <1>3, <2>1, SettleFacts
  <2>3. Latches(s) => Latches(q.s)
    BY <1>3, <1>7 DEF Same, Latches, Faulted
  <2>4. r.how = "ok" /\ Latches(s) => InOrder(r.s) /\ Renewed(r.s)
    BY <1>3, <1>7, <2>2, <2>3 DEF InOrder, Accounted, Renewed, Latches
  <2> QED
    BY <1>4, <2>2, <2>4, ServesTrans DEF InOrder
<1> QED
  BY <1>3, <1>5, <1>6, <1>7 DEF Hows

(* DRAIN on the policy's decision: the one that is left out is not needed. *)
LEMMA ActOnDrain ==
    ASSUME mode = "automatic", NEW s, Sound(s), ~Faulted(s), NEW r \in ActOn(s, "DRAIN")
    PROVE  /\ r.how \in {"ok", "raise"} /\ Serves(s, r.s)
           /\ r.how = "ok" /\ InOrder(s) => InOrder(r.s) /\ Renewed(r.s)
<1>1. PICK q \in (IF s.last = "DRAIN" THEN Done(s) ELSE SendDrain(s)) :
         r \in CASE q.how = "ok"    -> Record(Decide(q.s, "FROST_PROTECTION", "DRAIN"))
                 [] q.how = "error" -> Fault(q.s)
                 [] OTHER           -> {q}
  BY DEF ActOn, Then
<1>2. /\ q.how \in Hows /\ Sound(q.s) /\ Serves(s, q.s)
      /\ q.how = "ok" => Same(s, q.s)
      /\ q.how # "raise" /\ Latches(s) => Latches(q.s)
      /\ q.how = "ok" /\ Accounted(s) => q.s.valve # "supply"
  <2>1. CASE s.last = "DRAIN"
    <3>1. q = [s |-> s, how |-> "ok"]
      BY <1>1, <2>1 DEF Done
    <3> QED
      BY <2>1, <3>1 DEF Hows, Serves, Same, Accounted
  <2>2. CASE s.last # "DRAIN"
    <3>1. q \in SendDrain(s)
      BY <1>1, <2>2
    <3> QED
      BY <3>1, SendDrainFacts, FallsServes DEF Falls
  <2> QED
    BY <2>1, <2>2
<1>3. CASE q.how = "raise"
  <2>1. r = q
    BY <1>1, <1>3
  <2> QED
    BY <1>2, <1>3, <2>1
<1>4. CASE q.how = "error"
  <2>1. r \in Fault(q.s)
    BY <1>1, <1>4
  <2>2. /\ r.how \in {"ok", "raise"} /\ Serves(s, r.s)
        /\ r.how = "ok" /\ Latches(q.s) => Latches(r.s) /\ Faulted(r.s)
    BY <1>2, <2>1, FaultFacts, FallsServes, ServesTrans
  <2> QED
    BY <1>2, <1>4, <2>2 DEF InOrder, Accounted, Renewed, Latches
<1>5. CASE q.how = "ok"
  <2>1. r \in Record(Decide(q.s, "FROST_PROTECTION", "DRAIN")) /\ "FROST_PROTECTION" \in States \ {"FAULT"}
    BY <1>1, <1>5 DEF States
  <2>2. /\ r.how \in {"ok", "raise"} /\ Serves(q.s, r.s)
        /\ r.how = "ok" /\ Latches(q.s) =>
              /\ Latches(r.s)
              /\ Faulted(r.s) \/ (/\ r.s.command = "DRAIN" /\ r.s.valve = q.s.valve
                                  /\ r.s.lease = q.s.lease /\ r.s.last = q.s.last
                                  /\ r.s.timer = q.s.timer)
    BY <1>2, <2>1, SettleFacts
  <2>3. r.how = "ok" /\ InOrder(s) => InOrder(r.s) /\ Renewed(r.s)
    BY <1>2, <1>5, <2>2 DEF InOrder, Accounted, Renewed, Latches
  <2> QED
    BY <1>2, <2>2, <2>3, ServesTrans
<1> QED
  BY <1>2, <1>3, <1>4, <1>5 DEF Hows

(* A method that only latches, whichever way the latching went. *)
LEMMA LatchedDone ==
    ASSUME NEW s, Sound(s), NEW r \in Regardless(LatchPersistenceFailure(s), Done)
    PROVE  /\ r.how \in {"ok", "raise"} /\ Falls(s, r.s)
           /\ r.how = "ok" /\ Latches(s) => Latches(r.s) /\ Faulted(r.s)
<1>1. PICK q \in LatchPersistenceFailure(s) :
         r \in CASE q.how = "ok" -> Done(q.s) [] q.how = "error" -> Done(q.s) [] OTHER -> {q}
  BY DEF Regardless, Then
<1>2. /\ q.how \in {"ok", "raise"} /\ Falls(s, q.s)
      /\ q.how = "ok" /\ Latches(s) => Latches(q.s) /\ Faulted(q.s)
  BY LatchFacts
<1>3. CASE q.how = "ok"
  <2>1. r = [s |-> q.s, how |-> "ok"]
    BY <1>1, <1>3 DEF Done
  <2> QED
    BY <1>2, <1>3, <2>1
<1>4. CASE q.how = "raise"
  <2>1. r = q
    BY <1>1, <1>4
  <2> QED
    BY <1>2, <1>4, <2>1
<1> QED
  BY <1>2, <1>3, <1>4

LEMMA RunAutomaticFacts ==
    ASSUME mode = "automatic", NEW s, Sound(s), NEW r \in RunAutomatic(s)
    PROVE  /\ r.how \in {"ok", "raise"} /\ Serves(s, r.s)
           /\ Faulted(s) => r.s = s
           /\ r.how = "ok" /\ InOrder(s) => InOrder(r.s) /\ Renewed(r.s)
<1>1. CASE Faulted(s)
  <2>1. RunAutomatic(s) = Done(s)
    BY <1>1, Zenon DEF RunAutomatic
  <2>2. r = [s |-> s, how |-> "ok"]
    BY <2>1 DEF Done
  <2> QED
    BY <1>1, <2>2 DEF Serves, InOrder, Latches, Renewed
<1>2. CASE ~Faulted(s)
  <2>1. CASE r \in ActOn(s, "SUPPLY")
    BY <1>2, <2>1, ActOnSupply
  <2>2. CASE r \in ActOn(s, "DRAIN")
    BY <1>2, <2>2, ActOnDrain
  <2>3. CASE r \in Regardless(AppendEvent(s) \cup LatchPersistenceFailure(s),
                             LAMBDA x : IF Faulted(x) THEN Done(x) ELSE ActOn(x, "DRAIN"))
    <3>1. PICK q \in AppendEvent(s) \cup LatchPersistenceFailure(s) :
             r \in CASE q.how = "ok"    -> (IF Faulted(q.s) THEN Done(q.s) ELSE ActOn(q.s, "DRAIN"))
                     [] q.how = "error" -> (IF Faulted(q.s) THEN Done(q.s) ELSE ActOn(q.s, "DRAIN"))
                     [] OTHER           -> {q}
      BY <2>3 DEF Regardless, Then
    <3>2. /\ q.how \in Hows /\ Falls(s, q.s) /\ Serves(s, q.s)
          /\ q.how # "raise" /\ Latches(s) => Latches(q.s)
          /\ ~Faulted(q.s) /\ q.how # "raise" /\ Latches(s) => q.s = s
      BY AppendEventFacts, LatchFacts, FallsServes DEF Hows
    <3>3. CASE q.how = "raise"
      <4>1. r = q
        BY <3>1, <3>3
      <4> QED
        BY <1>2, <3>2, <3>3, <4>1
    <3>4. CASE q.how # "raise" /\ Faulted(q.s)
      <4>1. r = [s |-> q.s, how |-> "ok"]
        BY <3>1, <3>2, <3>4 DEF Done, Hows
      <4> QED
        BY <1>2, <3>2, <3>4, <4>1 DEF InOrder, Accounted, Renewed, Latches
    <3>5. CASE q.how # "raise" /\ ~Faulted(q.s)
      <4>1. r \in ActOn(q.s, "DRAIN")
        BY <3>1, <3>2, <3>5 DEF Hows
      <4>2. /\ r.how \in {"ok", "raise"} /\ Serves(q.s, r.s)
            /\ r.how = "ok" /\ InOrder(q.s) => InOrder(r.s) /\ Renewed(r.s)
        BY <3>2, <3>5, <4>1, ActOnDrain DEF Falls
      <4> QED
        BY <1>2, <3>2, <3>5, <4>2, ServesTrans DEF InOrder
    <3> QED
      BY <3>3, <3>4, <3>5
  <2> QED
    BY <1>2, <2>1, <2>2, <2>3 DEF RunAutomatic
<1> QED
  BY <1>1, <1>2

LEMMA RunIdleFacts ==
    ASSUME mode \in Modes, NEW s, Sound(s), NEW r \in RunIdle(s)
    PROVE  /\ r.how \in {"ok", "raise"} /\ Serves(s, r.s)
           /\ Faulted(s) => r.s = s
           /\ r.how = "ok" /\ InOrder(s) => InOrder(r.s) /\ Renewed(r.s)
<1>1. CASE mode = "automatic"
  <2>1. r \in RunAutomatic(s)
    BY <1>1 DEF RunIdle
  <2> QED
    BY <1>1, <2>1, RunAutomaticFacts
<1>2. CASE mode # "automatic" /\ Faulted(s)
  <2>1. r = [s |-> s, how |-> "ok"]
    BY <1>2 DEF RunIdle, Done
  <2> QED
    BY <1>2, <2>1 DEF Serves, InOrder, Latches, Renewed
<1>3. CASE mode # "automatic" /\ ~Faulted(s)
  <2>1. PICK q \in SendDrain(s) :
           r \in CASE q.how = "ok"    -> Done(Decide(q.s, IdleState, "DRAIN"))
                   [] q.how = "error" -> Fault(q.s)
                   [] OTHER           -> {q}
    BY <1>3 DEF RunIdle, Then
  <2>2. /\ q.how \in Hows /\ Sound(q.s) /\ Serves(s, q.s)
        /\ q.how = "ok" => Same(s, q.s) /\ q.s.valve = "drain"
        /\ q.how # "raise" /\ Latches(s) => Latches(q.s)
    BY SendDrainFacts, FallsServes DEF Falls
  <2>3. CASE q.how = "raise"
    <3>1. r = q
      BY <2>1, <2>3
    <3> QED
      BY <1>3, <2>2, <2>3, <3>1
  <2>4. CASE q.how = "error"
    <3>1. r \in Fault(q.s)
      BY <2>1, <2>4
    <3>2. /\ r.how \in {"ok", "raise"} /\ Serves(s, r.s)
          /\ r.how = "ok" /\ Latches(q.s) => Latches(r.s) /\ Faulted(r.s)
      BY <2>2, <3>1, FaultFacts, FallsServes, ServesTrans
    <3> QED
      BY <1>3, <2>2, <2>4, <3>2 DEF InOrder, Accounted, Renewed, Latches
  <2>5. CASE q.how = "ok"
    <3>1. r.how = "ok" /\ r.s = Decide(q.s, IdleState, "DRAIN")
      BY <2>1, <2>5 DEF Done
    <3>2. /\ Sound(r.s)
          /\ q.s.latched => r.s = q.s
          /\ ~q.s.latched => r.s.state = IdleState
          /\ r.s.valve = q.s.valve /\ r.s.timer = q.s.timer
          /\ r.s.left = q.s.left /\ r.s.latched = q.s.latched
      BY <2>2, <3>1, IdleStateFacts, DecideFacts
    <3>3. Serves(s, r.s)
      BY <2>2, <3>2 DEF Serves
    <3>4. Latches(s) => Latches(r.s)
      BY <2>2, <2>5, <3>2, IdleStateFacts DEF Latches, Faulted
    <3> QED
      BY <1>3, <2>2, <2>5, <3>1, <3>2, <3>3, <3>4 DEF InOrder, Accounted, Renewed
  <2> QED
    BY <2>2, <2>3, <2>4, <2>5 DEF Hows
<1> QED
  BY <1>1, <1>2, <1>3

(* A cycle: a Hub that supplies after it has renewed its lease. *)
LEMMA RunCycleFacts ==
    ASSUME mode \in Modes, NEW s, Sound(s), NEW r \in RunCycle(s)
    PROVE  /\ r.how \in Hows /\ Serves(s, r.s)
           /\ Faulted(s) => r.s = s
           /\ r.how # "raise" /\ InOrder(s) => InOrder(r.s) /\ Renewed(r.s)
<1>1. CASE Faulted(s)
  <2>1. r = [s |-> s, how |-> "ok"]
    BY <1>1 DEF RunCycle, Done
  <2> QED
    BY <1>1, <2>1 DEF Hows, Serves, Sound, InOrder, Latches, Renewed
<1>2. CASE ~Faulted(s) /\ ~s.timer
  <2>1. r \in RunIdle(s)
    BY <1>2 DEF RunCycle
  <2> QED
    BY <1>2, <2>1, RunIdleFacts DEF Hows, Serves
<1>3. CASE ~Faulted(s) /\ s.timer /\ Expired(s)
  <2>1. r \in DrainNow(s)
    BY <1>3 DEF RunCycle
  <2> QED
    BY <1>3, <2>1, DrainNowFacts DEF Hows, Serves, InOrder, Accounted, Renewed
<1>4. CASE ~Faulted(s) /\ s.timer /\ ~Expired(s)
  <2>1. PICK q \in SendSupply(s, "renew") :
           r \in CASE q.how = "ok"    -> Done(Decide(q.s, "TIMED_SHOWER", "SUPPLY"))
                   [] q.how = "error" -> AbortSupply(q.s)
                   [] OTHER           -> {q}
    BY <1>4 DEF RunCycle, Then
  <2>2. /\ q.how \in Hows /\ Sound(q.s) /\ Sinks(s, q.s)
        /\ q.how = "ok" => /\ Same(s, q.s) /\ q.s.valve = "supply" /\ q.s.lease = Lease
                           /\ q.s.last = "SUPPLY"
        /\ q.how = "error" /\ Latches(s) => Latches(q.s)
    BY <2>1, SendSupplyFacts
  <2>3. Serves(s, q.s)
    BY <2>2 DEF Serves, Sinks
  <2>4. CASE q.how = "raise"
    <3>1. r = q
      BY <2>1, <2>4
    <3> QED
      BY <1>4, <2>3, <2>4, <3>1 DEF Hows, Serves
  <2>5. CASE q.how = "error"
    <3>1. r \in AbortSupply(q.s)
      BY <2>1, <2>5
    <3>2. /\ r.how \in {"ok", "raise"} /\ Serves(s, r.s)
          /\ r.how = "ok" /\ Latches(q.s) => Latches(r.s) /\ Faulted(r.s)
      BY <2>2, <2>3, <3>1, AbortSupplyFacts, FallsServes, ServesTrans
    <3>3. r.how = "ok" /\ InOrder(s) => InOrder(r.s) /\ Renewed(r.s)
      BY <2>2, <2>5, <3>2 DEF InOrder, Accounted, Renewed, Latches
    <3> QED
      BY <1>4, <3>2, <3>3 DEF Hows, Serves
  <2>6. CASE q.how = "ok"
    <3>1. r.how = "ok" /\ r.s = Decide(q.s, "TIMED_SHOWER", "SUPPLY") /\ "TIMED_SHOWER" \in States \ {"FAULT"}
      BY <2>1, <2>6 DEF Done, States
    <3>2. /\ Sound(r.s)
          /\ q.s.latched => r.s = q.s
          /\ ~q.s.latched => r.s.state = "TIMED_SHOWER"
          /\ r.s.valve = q.s.valve /\ r.s.lease = q.s.lease /\ r.s.last = q.s.last
          /\ r.s.timer = q.s.timer /\ r.s.left = q.s.left /\ r.s.latched = q.s.latched
      BY <2>2, <3>1, DecideFacts
    <3>3. Serves(s, r.s)
      BY <2>3, <3>2 DEF Serves
    <3>4. Latches(s) => Latches(r.s)
      BY <2>2, <2>6, <3>2 DEF Latches, Faulted, Same
    <3>5. r.s.timer /\ mode # "safe_drain"
      BY <1>4, <2>2, <2>6, <3>2 DEF Same, Sound
    <3>6. InOrder(s) => InOrder(r.s) /\ Renewed(r.s)
      BY <2>2, <2>6, <3>2, <3>4, <3>5 DEF InOrder, Accounted, Renewed
    <3> QED
      BY <1>4, <3>1, <3>3, <3>6 DEF Hows, Serves
  <2> QED
    BY <2>2, <2>4, <2>5, <2>6 DEF Hows
<1> QED
  BY <1>1, <1>2, <1>3, <1>4

LEMMA DecideInOrder ==
    ASSUME NEW s, Sound(s), ~Faulted(s), InOrder(s), NEW state \in States \ {"FAULT"},
           NEW command \in {"DRAIN", "SUPPLY"}
    PROVE  InOrder(Decide(s, state, command))
<1> DEFINE x == Decide(s, state, command)
<1>1. /\ Sound(x)
      /\ ~s.latched => x.state = state /\ x.command = command
      /\ x.valve = s.valve /\ x.last = s.last /\ x.timer = s.timer /\ x.latched = s.latched
  BY DecideFacts
<1> HIDE DEF x
<1>2. InOrder(x)
  BY <1>1 DEF InOrder, Latches, Accounted, Faulted
<1> QED
  BY <1>2 DEF x

(* A shower that was opened runs for its whole duration from now, and      *)
(* either SUPPLY is reported or a latched failure has come before it.      *)
StartsShower(r) ==
    /\ r.s.left > 0
    /\ r.s.latched \/ (r.how = "ok" /\ r.s.command = "SUPPLY")

LEMMA BeginShowerFacts ==
    ASSUME mode # "safe_drain", NEW s, Sound(s), ~Faulted(s), ~s.timer, NEW d \in Nat \ {0},
           NEW r \in BeginShower(s, d)
    PROVE  /\ r.how \in {"ok", "raise"} /\ Sound(r.s)
           /\ s.latched => r.s.latched
           /\ r.s.timer => StartsShower(r)
           /\ r.how = "ok" /\ InOrder(s) => InOrder(r.s)
<1> DEFINE y(q) == [q.s EXCEPT !.timer = TRUE, !.left = d, !.duration = d]
<1>1. PICK q \in SendSupply(s, SupplyAction(s)) :
         r \in CASE q.how = "ok"    -> Record(Decide(y(q), "TIMED_SHOWER", "SUPPLY"))
                 [] q.how = "error" -> AbortSupply(q.s)
                 [] OTHER           -> {q}
  BY DEF BeginShower, Then
<1>2. SupplyAction(s) \in {"begin", "renew"}
  BY DEF SupplyAction
<1>3. /\ q.how \in Hows /\ Sound(q.s) /\ Sinks(s, q.s)
      /\ q.how = "ok" => /\ Same(s, q.s) /\ q.s.valve = "supply" /\ q.s.lease = Lease
                         /\ q.s.last = "SUPPLY"
      /\ q.how = "error" /\ Latches(s) => Latches(q.s)
  BY <1>2, SendSupplyFacts
<1>4. CASE q.how = "raise"
  <2>1. r = q
    BY <1>1, <1>4
  <2> QED
    BY <1>3, <1>4, <2>1 DEF Sinks
<1>5. CASE q.how = "error"
  <2>1. r \in AbortSupply(q.s)
    BY <1>1, <1>5
  <2>2. /\ r.how \in {"ok", "raise"} /\ Falls(q.s, r.s)
        /\ r.how = "ok" /\ Latches(q.s) => Latches(r.s) /\ Faulted(r.s)
    BY <1>3, <2>1, AbortSupplyFacts
  <2>3. Sound(r.s) /\ ~r.s.timer /\ (s.latched => r.s.latched)
    BY <1>3, <2>2 DEF Falls, Sinks
  <2> QED
    BY <1>3, <1>5, <2>2, <2>3 DEF InOrder, Accounted
<1>6. CASE q.how = "ok"
  <2> DEFINE x == Decide(y(q), "TIMED_SHOWER", "SUPPLY")
  <2>1. r \in Record(x)
    BY <1>1, <1>6
  <2>2. q.s \in Services /\ d \in Int /\ d \in Nat
    BY <1>3 DEF Sound
  <2>3. y(q) \in Services
    BY <2>2, Zenon DEF Services
  <2>4. /\ y(q).timer /\ y(q).left = d /\ y(q).state = q.s.state /\ y(q).command = q.s.command
        /\ y(q).valve = q.s.valve /\ y(q).lease = q.s.lease /\ y(q).last = q.s.last
        /\ y(q).latched = q.s.latched
    BY <2>2 DEF Services
  <2> HIDE DEF y
  <2>5. Sound(y(q)) /\ ~Faulted(y(q))
    BY <1>3, <1>6, <2>3, <2>4 DEF Sound, Same, Faulted
  <2>6. /\ Sound(x)
        /\ y(q).latched => x = y(q)
        /\ ~y(q).latched => x.command = "SUPPLY"
        /\ x.timer = y(q).timer /\ x.left = y(q).left /\ x.latched = y(q).latched
    BY <2>5, DecideFacts DEF States
  <2>7. InOrder(s) => InOrder(x)
    <3>1. InOrder(s) => InOrder(y(q))
      BY <1>3, <1>6, <2>4 DEF InOrder, Latches, Accounted, Same, Faulted
    <3>2. "TIMED_SHOWER" \in States \ {"FAULT"}
      BY DEF States
    <3> QED
      BY <2>5, <3>1, <3>2, DecideInOrder
  <2> HIDE DEF x
  <2>8. /\ r.how \in {"ok", "raise"} /\ Falls(x, r.s)
        /\ (r.how = "ok" /\ r.s = x) \/ r.s.latched
        /\ r.how = "ok" /\ Latches(x) => r.s = x \/ (Latches(r.s) /\ Faulted(r.s))
    BY <2>1, <2>6, RecordFacts
  <2>9. r.s.timer => StartsShower(r)
    BY <2>4, <2>6, <2>8 DEF StartsShower, Falls, Sinks
  <2>10. Sound(r.s) /\ (s.latched => r.s.latched)
    BY <1>3, <2>4, <2>6, <2>8 DEF Falls, Sinks
  <2> QED
    BY <2>7, <2>8, <2>9, <2>10 DEF InOrder, Accounted
<1> QED
  BY <1>3, <1>4, <1>5, <1>6 DEF Hows

(* A shower that was running keeps its deadline. *)
LEMMA StartTimedShowerFacts ==
    ASSUME mode \in Modes, NEW s, Sound(s), NEW d \in Durations, NEW r \in StartTimedShower(s, d)
    PROVE  /\ r.how \in {"ok", "raise"} /\ Sound(r.s)
           /\ s.latched => r.s.latched
           /\ r.s.timer => (s.timer /\ r.s.left = s.left) \/ StartsShower(r)
           /\ Faulted(s) => r.s = s
           /\ r.how = "ok" /\ InOrder(s) => InOrder(r.s)
<1>1. CASE Faulted(s)
  <2>1. r = [s |-> s, how |-> "ok"]
    BY <1>1 DEF StartTimedShower, Done
  <2> QED
    BY <2>1
<1>2. CASE ~Faulted(s) /\ mode = "safe_drain"
  <2> DEFINE y(x) == IF Faulted(x) THEN x ELSE Decide(x, "SAFE_DRAIN", "DRAIN")
  <2>1. PICK q \in RunIdle(s) :
           r \in CASE q.how = "ok" -> Done(y(q.s)) [] q.how = "error" -> Done(y(q.s))
                   [] OTHER -> {q}
    BY <1>2 DEF StartTimedShower, Regardless, Then
  <2>2. /\ q.how \in {"ok", "raise"} /\ Serves(s, q.s)
        /\ q.how = "ok" /\ InOrder(s) => InOrder(q.s)
    BY RunIdleFacts
  <2>3. CASE q.how = "raise"
    <3>1. r = q
      BY <2>1, <2>3
    <3> QED
      BY <1>2, <2>2, <2>3, <3>1 DEF Serves
  <2>4. CASE q.how = "ok"
    <3>1. r = [s |-> y(q.s), how |-> "ok"]
      BY <2>1, <2>4 DEF Done
    <3>2. CASE Faulted(q.s)
      BY <1>2, <2>2, <2>4, <3>1, <3>2 DEF Serves
    <3>3. CASE ~Faulted(q.s)
      <4>1. r.s = Decide(q.s, "SAFE_DRAIN", "DRAIN") /\ r.how = "ok"
            /\ "SAFE_DRAIN" \in States \ {"FAULT"} /\ Sound(q.s)
        BY <2>2, <3>1, <3>3 DEF States, Serves
      <4>2. /\ Sound(r.s) /\ r.s.timer = q.s.timer /\ r.s.left = q.s.left
            /\ r.s.latched = q.s.latched
        BY <4>1, DecideFacts
      <4>3. InOrder(s) => InOrder(r.s)
        BY <2>2, <2>4, <3>3, <4>1, DecideInOrder
      <4> QED
        BY <1>2, <2>2, <4>1, <4>2, <4>3 DEF Serves
    <3> QED
      BY <3>2, <3>3
  <2> QED
    BY <2>2, <2>3, <2>4
<1>3. CASE ~Faulted(s) /\ mode # "safe_drain" /\ s.timer /\ Expired(s)
  <2>1. r \in DrainNow(s)
    BY <1>3 DEF StartTimedShower
  <2> QED
    BY <1>3, <2>1, DrainNowFacts DEF InOrder, Accounted
<1>4. CASE \/ ~Faulted(s) /\ mode # "safe_drain" /\ s.timer /\ ~Expired(s)
           \/ ~Faulted(s) /\ mode = "manual_timed" /\ ~s.timer /\ s.limit < d
  <2>1. PICK state \in {"TIMED_SHOWER", "MANUAL_DRAIN"}, command \in {"DRAIN", "SUPPLY"} :
           r = [s |-> Decide(s, state, command), how |-> "ok"]
    BY <1>4 DEF StartTimedShower, Done
  <2>2. r.s = Decide(s, state, command) /\ r.how = "ok" /\ state \in States \ {"FAULT"}
    BY <2>1 DEF States
  <2>3. /\ Sound(r.s) /\ r.s.timer = s.timer /\ r.s.left = s.left /\ r.s.latched = s.latched
    BY <2>2, DecideFacts
  <2>4. InOrder(s) => InOrder(r.s)
    BY <1>4, <2>2, DecideInOrder
  <2> QED
    BY <1>4, <2>2, <2>3, <2>4
<1>5. CASE /\ ~Faulted(s) /\ mode # "safe_drain" /\ ~s.timer
           /\ ~(mode = "manual_timed" /\ s.limit < d)
  <2> DEFINE e == IF d < s.limit THEN d ELSE s.limit
  <2>1. r \in BeginShower(s, e)
    BY <1>5 DEF StartTimedShower
  <2>2. e \in Nat \ {0}
    BY ServiceAssumption DEF Sound, Services
  <2> HIDE DEF e
  <2> QED
    BY <1>5, <2>1, <2>2, BeginShowerFacts
<1> QED
  BY <1>1, <1>2, <1>3, <1>4, <1>5

(* What the lease of an open valve is after a call: full, or as it was     *)
(* under a Hub that was supplying already.                                 *)
Kept(s, x) ==
    x.command = "SUPPLY" /\ x.valve = "supply" =>
        x.lease = Lease \/ (s.command = "SUPPLY" /\ s.valve = "supply" /\ x.lease = s.lease)

LEMMA FallsKept ==
    ASSUME NEW s, NEW x, Falls(s, x)
    PROVE  Kept(s, x)
  BY DEF Falls, Sinks, NotGranted, Kept

LEMMA ClearFaultFacts ==
    ASSUME mode \in Modes, NEW s, Sound(s), NEW r \in ClearFault(s)
    PROVE  /\ Serves(s, r.s)
           /\ r.how # "raise" /\ InOrder(s) => InOrder(r.s) /\ Kept(s, r.s)
<1>1. CASE ~Faulted(s) \/ s.latched
  <2>1. r = [s |-> s, how |-> "ok"]
    BY <1>1 DEF ClearFault, Done
  <2> QED
    BY <2>1 DEF Serves, Kept
<1>2. CASE Faulted(s) /\ ~s.latched
  <2> DEFINE y(x) == [x EXCEPT !.state = IdleState]
  <2>1. PICK q \in SendDrain(s) :
           r \in CASE q.how = "ok"    -> Then(AppendEvent(y(q.s)), RunIdle, Done)
                   [] q.how = "error" -> Done(q.s)
                   [] OTHER           -> {q}
    BY <1>2 DEF ClearFault, Then
  <2>2. /\ q.how \in Hows /\ Falls(s, q.s) /\ Sound(q.s) /\ Serves(s, q.s)
        /\ q.how = "ok" => Same(s, q.s) /\ q.s.valve = "drain"
        /\ q.how # "raise" /\ Latches(s) => Latches(q.s)
    BY SendDrainFacts, FallsServes DEF Falls
  <2>3. CASE q.how = "raise"
    <3>1. r = q
      BY <2>1, <2>3
    <3> QED
      BY <2>2, <2>3, <3>1
  <2>4. CASE q.how = "error"
    <3>1. r = [s |-> q.s, how |-> "ok"]
      BY <2>1, <2>4 DEF Done
    <3>2. Faulted(q.s)
      BY <1>2, <2>2 DEF Falls, Sinks
    <3> QED
      BY <2>2, <2>4, <3>1, <3>2, FallsKept DEF InOrder, Accounted
  <2>5. CASE q.how = "ok"
    <3>1. q.s \in Services /\ IdleState \in States \ {"FAULT"}
      BY <2>2, IdleStateFacts DEF Sound
    <3>2. y(q.s) \in Services
      BY <3>1, Zenon DEF Services
    <3>3. /\ y(q.s).state = IdleState /\ y(q.s).command = q.s.command
          /\ y(q.s).valve = q.s.valve /\ y(q.s).lease = q.s.lease /\ y(q.s).last = q.s.last
          /\ y(q.s).timer = q.s.timer /\ y(q.s).left = q.s.left /\ y(q.s).latched = q.s.latched
      BY <3>1 DEF Services
    <3> HIDE DEF y
    <3>4. /\ Sound(y(q.s)) /\ Serves(s, y(q.s))
          /\ Latches(s) => InOrder(y(q.s))
      BY <1>2, <2>2, <2>5, <3>1, <3>2, <3>3
        DEF Sound, Serves, InOrder, Latches, Accounted, Same, Faulted
    <3>5. PICK e \in AppendEvent(y(q.s)) :
             r \in CASE e.how = "ok"    -> RunIdle(e.s)
                     [] e.how = "error" -> Done(e.s)
                     [] OTHER           -> {e}
      BY <2>1, <2>5 DEF Then
    <3>6. /\ e.how \in Hows /\ Falls(y(q.s), e.s)
          /\ e.how = "ok" => e.s = y(q.s)
          /\ e.how = "error" /\ Latches(y(q.s)) => Latches(e.s) /\ Faulted(e.s)
      BY <3>4, AppendEventFacts
    <3>7. Serves(s, e.s)
      BY <3>4, <3>6, FallsServes, ServesTrans
    <3>8. CASE e.how = "raise"
      <4>1. r = e
        BY <3>5, <3>8
      <4> QED
        BY <3>7, <3>8, <4>1
    <3>9. CASE e.how = "error"
      <4>1. r = [s |-> e.s, how |-> "ok"]
        BY <3>5, <3>9 DEF Done
      <4> QED
        BY <3>4, <3>6, <3>7, <3>9, <4>1 DEF InOrder, Accounted, Latches, Kept
    <3>10. CASE e.how = "ok"
      <4>1. r \in RunIdle(y(q.s))
        BY <3>5, <3>6, <3>10
      <4>2. /\ r.how \in {"ok", "raise"} /\ Serves(y(q.s), r.s)
            /\ r.how = "ok" /\ InOrder(y(q.s)) => InOrder(r.s) /\ Renewed(r.s)
        BY <3>4, <4>1, RunIdleFacts
      <4> QED
        BY <3>4, <4>2, ServesTrans DEF InOrder, Renewed, Kept
    <3> QED
      BY <3>6, <3>8, <3>9, <3>10 DEF Hows
  <2> QED
    BY <2>2, <2>3, <2>4, <2>5 DEF Hows
<1> QED
  BY <1>1, <1>2

LEMMA DrainNowServes ==
    ASSUME mode \in Modes, NEW s, Sound(s), NEW r \in DrainNow(s)
    PROVE  /\ r.how \in {"ok", "raise"} /\ Serves(s, r.s) /\ NotGranted(s, r.s)
           /\ r.how = "ok" /\ InOrder(s) => InOrder(r.s) /\ Kept(s, r.s)
  BY DrainNowFacts DEF Serves, InOrder, Accounted, Kept

LEMMA UpdateSettingsFacts ==
    ASSUME mode \in Modes, NEW s, Sound(s), NEW max \in Durations, NEW r \in UpdateSettings(s, max)
    PROVE  /\ Serves(s, r.s)
           /\ Faulted(s) => NotGranted(s, r.s)
           /\ r.how # "raise" /\ InOrder(s) => InOrder(r.s) /\ Kept(s, r.s)
<1> DEFINE y == [s EXCEPT !.limit = max]
<1>1. PICK q \in AppendEvent(y) :
         r \in CASE q.how = "ok"    -> IF q.s.timer /\ mode = "manual_timed"
                                       THEN IF max < q.s.duration THEN DrainNow(q.s) ELSE Done(q.s)
                                       ELSE RunIdle(q.s)
                 [] q.how = "error" -> Done(q.s)
                 [] OTHER           -> {q}
  BY DEF UpdateSettings, Then
<1>2. s \in Services
  BY DEF Sound
<1>3. y \in Services
  BY <1>2, Zenon DEF Services
<1>4. /\ y.state = s.state /\ y.command = s.command /\ y.last = s.last
      /\ y.valve = s.valve /\ y.lease = s.lease
      /\ y.timer = s.timer /\ y.left = s.left /\ y.latched = s.latched
  BY <1>2 DEF Services
<1> HIDE DEF y
<1>5. /\ Sound(y) /\ Falls(s, y)
      /\ Faulted(s) => Faulted(y)
      /\ InOrder(s) => InOrder(y)
  BY <1>3, <1>4 DEF Sound, Falls, NotGranted, Sinks, InOrder, Latches, Accounted, Faulted
<1>6. /\ q.how \in Hows /\ Falls(s, q.s)
      /\ q.how = "ok" => q.s = y
      /\ q.how = "error" /\ InOrder(s) => InOrder(q.s)
  <2>1. /\ q.how \in Hows /\ Falls(y, q.s)
        /\ q.how = "ok" => q.s = y
        /\ q.how = "error" /\ Latches(y) => Latches(q.s) /\ Faulted(q.s)
    BY <1>5, AppendEventFacts
  <2> QED
    BY <1>5, <2>1, FallsTrans DEF InOrder, Accounted
<1>7. Serves(s, q.s) /\ Kept(s, q.s) /\ NotGranted(s, q.s)
  BY <1>6, FallsServes, FallsKept DEF Falls
<1>8. CASE q.how # "ok"
  <2>1. r.s = q.s /\ (q.how = "raise" => r.how = "raise")
    BY <1>1, <1>6, <1>8 DEF Done, Hows
  <2> QED
    BY <1>6, <1>7, <1>8, <2>1 DEF Hows
<1>9. CASE q.how = "ok"
  <2>1. q.s = y /\ r \in (IF y.timer /\ mode = "manual_timed"
                          THEN IF max < y.duration THEN DrainNow(y) ELSE Done(y)
                          ELSE RunIdle(y))
    BY <1>1, <1>6, <1>9
  <2>2. CASE r = [s |-> y, how |-> "ok"]
    BY <1>5, <1>7, <2>1, <2>2
  <2>3. CASE y.timer /\ r \in DrainNow(y)
    <3>1. /\ r.how \in {"ok", "raise"} /\ Serves(y, r.s)
          /\ r.how = "ok" /\ InOrder(y) => InOrder(r.s) /\ Kept(y, r.s)
      BY <1>5, <2>3, DrainNowServes
    <3>2. ~Faulted(s)
      BY <1>4, <2>3 DEF Sound
    <3> QED
      BY <1>4, <1>5, <1>7, <2>1, <3>1, <3>2, ServesTrans DEF Kept
  <2>4. CASE r \in RunIdle(y)
    <3>1. /\ r.how \in {"ok", "raise"} /\ Serves(y, r.s)
          /\ Faulted(y) => r.s = y
          /\ r.how = "ok" /\ InOrder(y) => InOrder(r.s) /\ Renewed(r.s)
      BY <1>5, <2>4, RunIdleFacts
    <3> QED
      BY <1>5, <1>7, <2>1, <3>1, ServesTrans DEF Kept, Renewed
  <2> QED
    BY <2>1, <2>2, <2>3, <2>4 DEF Done
<1> QED
  BY <1>8, <1>9

LEMMA StatusFacts ==
    ASSUME mode \in Modes, NEW s, Sound(s), NEW r \in Status(s)
    PROVE  /\ Serves(s, r.s) /\ NotGranted(s, r.s)
           /\ r.how # "raise" /\ InOrder(s) => InOrder(r.s) /\ Kept(s, r.s)
<1> DEFINE End(x) == Done(x) \cup (IF mode = "automatic" THEN LatchPersistenceFailure(x) ELSE {})
<1>1. PICK q \in (IF s.timer /\ Expired(s) THEN DrainNow(s) ELSE Done(s)) :
         r \in CASE q.how = "ok" -> End(q.s) [] q.how = "error" -> End(q.s) [] OTHER -> {q}
  BY DEF Status, Regardless, Then
<1>2. /\ q.how \in {"ok", "raise"} /\ Serves(s, q.s) /\ NotGranted(s, q.s)
      /\ q.how = "ok" /\ InOrder(s) => InOrder(q.s) /\ Kept(s, q.s)
  <2>1. CASE q \in DrainNow(s)
    BY <2>1, DrainNowServes
  <2>2. CASE q \in Done(s)
    <3>1. q = [s |-> s, how |-> "ok"]
      BY <2>2 DEF Done
    <3> QED
      BY <3>1 DEF Serves, NotGranted, Kept
  <2> QED
    BY <1>1, <2>1, <2>2
<1>3. CASE q.how = "raise"
  <2>1. r = q
    BY <1>1, <1>3
  <2> QED
    BY <1>2, <1>3, <2>1
<1>4. CASE q.how = "ok"
  <2>1. r \in End(q.s) /\ Sound(q.s)
    BY <1>1, <1>2, <1>4 DEF Serves
  <2>2. CASE r \in Done(q.s)
    <3>1. r = [s |-> q.s, how |-> "ok"]
      BY <2>2 DEF Done
    <3> QED
      BY <1>2, <1>4, <3>1
  <2>3. CASE r \in LatchPersistenceFailure(q.s)
    <3>1. /\ r.how \in {"ok", "raise"} /\ Falls(q.s, r.s)
          /\ r.how = "ok" /\ Latches(q.s) => Latches(r.s) /\ Faulted(r.s)
      BY <2>1, <2>3, LatchFacts
    <3>2. Serves(s, r.s) /\ NotGranted(s, r.s)
      BY <1>2, <3>1, FallsServes, ServesTrans DEF Falls, NotGranted
    <3> QED
      BY <1>2, <1>4, <3>1, <3>2 DEF InOrder, Accounted, Latches, Kept
  <2> QED
    BY <2>1, <2>2, <2>3
<1> QED
  BY <1>2, <1>3, <1>4

LEMMA RefreshForecastFacts ==
    ASSUME NEW s, Sound(s), NEW r \in RefreshForecast(s)
    PROVE  /\ r.how \in {"ok", "raise"} /\ Falls(s, r.s)
           /\ r.how = "ok" /\ Latches(s) => r.s = s \/ (Latches(r.s) /\ Faulted(r.s))
<1>1. CASE mode # "automatic"
  <2>1. r = [s |-> s, how |-> "ok"]
    BY <1>1 DEF RefreshForecast, Done
  <2> QED
    BY <2>1 DEF Falls, NotGranted, Sinks
<1>2. CASE r \in Record(s)
  BY <1>2, RecordFacts
<1>3. CASE r \in Regardless(LatchPersistenceFailure(s), Done)
  BY <1>3, LatchedDone
<1> QED
  BY <1>1, <1>2, <1>3 DEF RefreshForecast

(* One round of the loop, with or without a refresh of the forecast. *)
LEMMA RoundFacts ==
    ASSUME mode \in Modes, NEW s, Sound(s), NEW r \in Round(s)
    PROVE  /\ r.how \in Hows /\ Serves(s, r.s)
           /\ Faulted(s) => NotGranted(s, r.s)
           /\ r.how # "raise" /\ InOrder(s) => InOrder(r.s) /\ Renewed(r.s)
<1>1. CASE r \in RunCycle(s)
  BY <1>1, RunCycleFacts DEF NotGranted
<1>2. CASE r \in Regardless(RefreshForecast(s), RunCycle)
  <2>1. PICK q \in RefreshForecast(s) :
           r \in CASE q.how = "ok" -> RunCycle(q.s) [] q.how = "error" -> RunCycle(q.s)
                   [] OTHER -> {q}
    BY <1>2 DEF Regardless, Then
  <2>2. /\ q.how \in {"ok", "raise"} /\ Falls(s, q.s) /\ Serves(s, q.s) /\ Sound(q.s)
        /\ q.how = "ok" /\ Latches(s) => q.s = s \/ (Latches(q.s) /\ Faulted(q.s))
    BY RefreshForecastFacts, FallsServes DEF Falls
  <2>3. CASE q.how = "raise"
    <3>1. r = q
      BY <2>1, <2>3
    <3> QED
      BY <2>2, <2>3, <3>1 DEF Hows, Falls
  <2>4. CASE q.how = "ok"
    <3>1. r \in RunCycle(q.s)
      BY <2>1, <2>4
    <3>2. /\ r.how \in Hows /\ Serves(q.s, r.s)
          /\ Faulted(q.s) => r.s = q.s
          /\ r.how # "raise" /\ InOrder(q.s) => InOrder(r.s) /\ Renewed(r.s)
      BY <2>2, <3>1, RunCycleFacts
    <3>3. Serves(s, r.s)
      BY <2>2, <3>2, ServesTrans
    <3>4. Faulted(s) => NotGranted(s, r.s)
      BY <2>2, <3>2 DEF Falls, Sinks
    <3>5. InOrder(s) => InOrder(q.s)
      BY <2>2, <2>4 DEF InOrder, Accounted
    <3> QED
      BY <3>2, <3>3, <3>4, <3>5
  <2> QED
    BY <2>2, <2>3, <2>4
<1> QED
  BY <1>1, <1>2 DEF Round

(* The loop's handler makes a latched failure of an exception. *)
LEMMA GuardedFacts ==
    ASSUME mode \in Modes, NEW s, Sound(s), NEW first \in Round(s), NEW r \in Guarded(first)
    PROVE  /\ Serves(s, r.s)
           /\ Faulted(s) => NotGranted(s, r.s)
           /\ first.how # "raise" /\ InOrder(s) => InOrder(r.s) /\ Renewed(r.s)
<1>1. /\ first.how \in Hows /\ Serves(s, first.s) /\ Sound(first.s)
      /\ Faulted(s) => NotGranted(s, first.s)
      /\ first.how # "raise" /\ InOrder(s) => InOrder(first.s) /\ Renewed(first.s)
  BY RoundFacts DEF Serves
<1>2. CASE first.how = "raise"
  <2>1. r \in LatchPersistenceFailure(first.s)
    BY <1>2 DEF Guarded
  <2>2. Falls(first.s, r.s)
    BY <1>1, <2>1, LatchFacts
  <2> QED
    BY <1>1, <1>2, <2>2, FallsServes, ServesTrans DEF Falls, NotGranted
<1>3. CASE first.how # "raise"
  <2>1. r = first
    BY <1>3 DEF Guarded
  <2> QED
    BY <1>1, <1>3, <2>1
<1> QED
  BY <1>2, <1>3

(* Startup: whatever the last process left, unless an exception ends this  *)
(* one, everything is in order.                                            *)
LEMMA StartupFacts ==
    ASSUME mode \in Modes, NEW s, Sound(s), Latches(s), NEW r \in Startup(s)
    PROVE  /\ Serves(s, r.s)
           /\ r.how # "raise" => InOrder(r.s)
<1> DEFINE End(y) == IF mode = "automatic" THEN RunIdle(y) ELSE Done(Decide(y, IdleState, "DRAIN"))
<1>1. PICK q \in SendDrain(s) :
         r \in CASE q.how = "ok"    -> Then(AppendEvent(q.s), End, Done)
                 [] q.how = "error" -> Fault(q.s)
                 [] OTHER           -> {q}
  BY DEF Startup, Then
<1>2. /\ q.how \in Hows /\ Serves(s, q.s) /\ Sound(q.s)
      /\ q.how = "ok" => q.s.valve = "drain"
      /\ q.how # "raise" => Latches(q.s)
  BY SendDrainFacts, FallsServes DEF Falls
<1>3. CASE q.how = "raise"
  <2>1. r = q
    BY <1>1, <1>3
  <2> QED
    BY <1>2, <1>3, <2>1
<1>4. CASE q.how = "error"
  <2>1. r \in Fault(q.s)
    BY <1>1, <1>4
  <2> QED
    BY <1>2, <1>4, <2>1, FaultFacts, FallsServes, ServesTrans DEF InOrder, Accounted
<1>5. CASE q.how = "ok"
  <2>1. PICK e \in AppendEvent(q.s) :
           r \in CASE e.how = "ok"    -> End(e.s)
                   [] e.how = "error" -> Done(e.s)
                   [] OTHER           -> {e}
    BY <1>1, <1>5 DEF Then
  <2>2. /\ e.how \in Hows /\ Serves(s, e.s)
        /\ e.how = "ok" => e.s = q.s
        /\ e.how = "error" => Latches(e.s) /\ Faulted(e.s)
    BY <1>2, <1>5, AppendEventFacts, FallsServes, ServesTrans
  <2>3. CASE e.how = "raise"
    <3>1. r = e
      BY <2>1, <2>3
    <3> QED
      BY <2>2, <2>3, <3>1
  <2>4. CASE e.how = "error"
    <3>1. r = [s |-> e.s, how |-> "ok"]
      BY <2>1, <2>4 DEF Done
    <3> QED
      BY <2>2, <2>4, <3>1 DEF InOrder, Accounted
  <2>5. CASE e.how = "ok"
    <3>1. r \in End(q.s)
      BY <2>1, <2>2, <2>5
    <3>2. InOrder(q.s)
      BY <1>2, <1>5 DEF InOrder, Accounted
    <3>3. CASE mode = "automatic"
      <4>1. r \in RunIdle(q.s)
        BY <3>1, <3>3
      <4> QED
        BY <1>2, <3>2, <4>1, RunIdleFacts, ServesTrans
    <3>4. CASE mode # "automatic"
      <4>1. r.s = Decide(q.s, IdleState, "DRAIN") /\ r.how = "ok"
        BY <3>1, <3>4 DEF Done
      <4>2. /\ Sound(r.s)
            /\ q.s.latched => r.s = q.s
            /\ ~q.s.latched => r.s.state = IdleState
            /\ r.s.valve = q.s.valve /\ r.s.timer = q.s.timer
            /\ r.s.left = q.s.left /\ r.s.latched = q.s.latched
        BY <1>2, <4>1, IdleStateFacts, DecideFacts
      <4>3. Serves(s, r.s)
        BY <1>2, <4>2 DEF Serves
      <4>4. InOrder(r.s)
        BY <1>2, <1>5, <4>2, IdleStateFacts DEF InOrder, Latches, Accounted, Faulted
      <4> QED
        BY <4>3, <4>4
    <3> QED
      BY <3>3, <3>4
  <2> QED
    BY <2>2, <2>3, <2>4, <2>5 DEF Hows
<1> QED
  BY <1>2, <1>3, <1>4, <1>5 DEF Hows

-----------------------------------------------------------------------------
(* Time, and the ends of a process. *)

(* Time leaves the Hub alone; a lease that is not at its end stays. *)
LEMMA LaterFacts ==
    ASSUME NEW s, Sound(s), NEW x \in Later(s)
    PROVE  /\ Sound(x)
           /\ x.state = s.state /\ x.command = s.command /\ x.last = s.last
           /\ x.timer = s.timer /\ x.latched = s.latched
           /\ x.left = IF s.left > 0 THEN s.left - 1 ELSE s.left
           /\ x.valve = "supply" => s.valve = "supply" /\ x.lease = s.lease - 1
           /\ s.valve = "supply" /\ s.lease > 1 => x.valve = "supply"
<1> DEFINE later == [s EXCEPT !.left = IF @ > 0 THEN @ - 1 ELSE @,
                             !.lease = IF @ > 0 THEN @ - 1 ELSE @]
<1>1. s \in Services /\ s.left \in Int /\ s.lease \in 0..Lease /\ Lease \in Nat
  BY ServiceAssumption DEF Sound, Services
<1>2. /\ (IF s.left > 0 THEN s.left - 1 ELSE s.left) \in Int
      /\ (IF s.lease > 0 THEN s.lease - 1 ELSE s.lease) \in 0..Lease /\ 0 \in 0..Lease
  BY <1>1
<1>3. later \in Services
  BY <1>1, <1>2, Zenon DEF Services
<1>4. /\ later.state = s.state /\ later.command = s.command /\ later.last = s.last
      /\ later.timer = s.timer /\ later.latched = s.latched /\ later.valve = s.valve
      /\ later.left = IF s.left > 0 THEN s.left - 1 ELSE s.left
      /\ later.lease = IF s.lease > 0 THEN s.lease - 1 ELSE s.lease
  BY <1>1 DEF Services
<1>5. x \in IF later.valve = "supply" /\ later.lease = 0 THEN {Drained(later), Lost(later)} ELSE {later}
  BY DEF Later
<1> HIDE DEF later
<1>6. CASE x = later /\ ~(later.valve = "supply" /\ later.lease = 0)
  BY <1>1, <1>3, <1>4, <1>6 DEF Sound, Faulted
<1>7. CASE later.valve = "supply" /\ later.lease = 0 /\ x \in {Drained(later), Lost(later)}
  <2>1. "drain" \in {"drain", "supply", "unconfirmed"} /\ "unconfirmed" \in {"drain", "supply", "unconfirmed"}
    OBVIOUS
  <2>2. Drained(later) \in Services /\ Lost(later) \in Services
    BY <1>2, <1>3, <2>1, Zenon DEF Services, Drained, Lost
  <2>3. /\ x.state = later.state /\ x.command = later.command /\ x.last = later.last
        /\ x.timer = later.timer /\ x.latched = later.latched /\ x.left = later.left
        /\ x.valve # "supply" /\ x.lease = 0
    BY <1>3, <1>7 DEF Services, Drained, Lost
  <2>4. s.lease = 1
    BY <1>1, <1>4, <1>7 DEF Sound
  <2> QED
    BY <1>4, <1>7, <2>2, <2>3, <2>4 DEF Sound, Faulted
<1> QED
  BY <1>5, <1>6, <1>7

LEMMA FreshFacts ==
    ASSUME NEW s, Sound(s)
    PROVE  /\ Sound(Fresh(s.valve, s.lease, s.limit)) /\ Latches(Fresh(s.valve, s.lease, s.limit))
           /\ ~Fresh(s.valve, s.lease, s.limit).timer
  BY DEF Fresh, Sound, Services, States, Faulted, Latches

-----------------------------------------------------------------------------
(* The invariant. *)

(* While the loop's thread lives and nothing is latched, no shower's       *)
(* deadline comes before the loop's next cycle.                            *)
DeadlineAhead == up /\ wait # dead /\ svc.timer /\ ~svc.latched => svc.left >= wait

(* A Hub that supplies holds a lease that outlasts the wait. *)
LeaseAhead ==
    up /\ wait # dead /\ ~broken /\ svc.command = "SUPPLY" /\ svc.valve = "supply" =>
        svc.lease > wait

IInv ==
    /\ TypeOK
    /\ Sound(svc)
    /\ svc.timer => svc.left >= 0
    /\ up /\ ~broken => InOrder(svc)
    /\ DeadlineAhead
    /\ LeaseAhead

LEMMA InitIInv == Init => IInv
<1> SUFFICES ASSUME Init PROVE IInv
  OBVIOUS
<1>1. PICK limit \in Durations : svc = Fresh("unconfirmed", 0, limit)
  BY DEF Init
<1>2. 0 \in 0..Lease /\ 0 \in 0..CycleInterval
  BY ServiceAssumption
<1>3. Sound(svc) /\ ~svc.timer
  BY <1>1, <1>2 DEF Fresh, Sound, Services, States, Faulted
<1> QED
  BY <1>2, <1>3 DEF Init, IInv, TypeOK, Sound, DeadlineAhead, LeaseAhead

(* A call of the API that leaves a running shower's deadline alone. *)
LEMMA CallStep ==
    ASSUME IInv, up, NEW r, Serves(svc, r.s),
           r.how # "raise" /\ InOrder(svc) => InOrder(r.s) /\ Kept(svc, r.s),
           svc' = r.s, wait' = wait \/ (wait' = 0 /\ wait # dead),
           broken' = (broken \/ r.how = "raise"),
           did' \in {"start", "drain", "clear", "settings", "status", "storage"},
           UNCHANGED <<mode, up>>
    PROVE  IInv'
<1>1. Sound(svc)'
  BY DEF Serves, Sound
<1>2. TypeOK'
  <2>1. svc' \in Services
    BY DEF Serves, Sound
  <2>2. wait' \in {dead} \cup 0..CycleInterval
    BY ServiceAssumption DEF IInv, TypeOK
  <2> QED
    BY <2>1, <2>2 DEF IInv, TypeOK
<1>3. (svc.timer => svc.left >= 0)'
  BY DEF Serves, IInv
<1>4. (up /\ ~broken => InOrder(svc))'
  <2> SUFFICES ASSUME ~broken' PROVE InOrder(svc)'
    OBVIOUS
  <2>1. InOrder(r.s)
    BY DEF IInv
  <2> QED
    BY <2>1 DEF InOrder, Latches, Accounted
<1>5. DeadlineAhead'
  BY ServiceAssumption DEF DeadlineAhead, Serves, IInv, TypeOK, dead
<1>6. LeaseAhead'
  <2> SUFFICES ASSUME wait' # dead, ~broken', svc'.command = "SUPPLY", svc'.valve = "supply"
               PROVE  svc'.lease > wait'
    BY DEF LeaseAhead
  <2>1. ~broken /\ InOrder(svc) /\ Kept(svc, r.s)
    BY DEF IInv
  <2>2. wait \in 0..CycleInterval /\ (wait' = wait \/ wait' = 0)
    BY DEF IInv, TypeOK
  <2>3. CASE svc'.lease = Lease
    BY <2>2, <2>3, ServiceAssumption
  <2>4. CASE svc.command = "SUPPLY" /\ svc.valve = "supply" /\ svc'.lease = svc.lease
    <3>1. svc.lease > wait /\ svc.lease \in Int
      BY <2>1, <2>2, <2>4 DEF IInv, LeaseAhead, TypeOK, dead, Services
    <3> QED
      BY <2>2, <2>4, <3>1
  <2> QED
    BY <2>1, <2>3, <2>4 DEF Kept
<1> QED
  BY <1>1, <1>2, <1>3, <1>4, <1>5, <1>6 DEF IInv

(* The end of a process. *)
LEMMA EndsStep ==
    ASSUME IInv, NEW s, Sound(s), Ends(s)
    PROVE  IInv'
<1>1. svc' = Fresh(s.valve, s.lease, s.limit) /\ mode' = mode
  BY DEF Ends
<1>2. Sound(svc)' /\ ~svc'.timer /\ svc' \in Services
  <2>1. Sound(svc') /\ ~svc'.timer
    BY <1>1, FreshFacts
  <2> QED
    BY <1>1, <2>1 DEF Sound
<1>3. TypeOK'
  <2>1. up' = FALSE /\ wait' = 0 /\ did' = "boot" /\ broken' = FALSE
    BY DEF Ends
  <2>2. 0 \in 0..CycleInterval
    BY ServiceAssumption
  <2> QED
    BY <1>1, <1>2, <2>1, <2>2 DEF IInv, TypeOK
<1> QED
  BY <1>2, <1>3 DEF Ends, IInv, DeadlineAhead, LeaseAhead

(* One step per action: what it does to the service is the lemma of its    *)
(* method, and what is left is the wait.                                   *)
LEMMA NextIInv == IInv /\ [Next]_vars => IInv'
<1> SUFFICES ASSUME IInv, [Next]_vars PROVE IInv'
  OBVIOUS
<1> USE DEF IInv
<1>1. mode \in Modes /\ Sound(svc) /\ svc \in Services
  BY DEF TypeOK
<1>2. CASE Boot
  <2> DEFINE fresh == Fresh(svc.valve, svc.lease, svc.limit)
  <2>1. PICK r \in Startup(fresh) : svc' = r.s /\ up' = (r.how # "raise")
    BY <1>2 DEF Boot
  <2>2. Sound(fresh) /\ Latches(fresh) /\ ~fresh.timer
    BY <1>1, FreshFacts
  <2> HIDE DEF fresh
  <2>3. Serves(fresh, r.s) /\ (r.how # "raise" => InOrder(r.s))
    BY <1>1, <2>1, <2>2, StartupFacts
  <2>4. mode' = mode /\ wait' = 0 /\ did' = "boot" /\ broken' = FALSE
    BY <1>2 DEF Boot
  <2>5. Sound(svc') /\ ~svc'.timer /\ svc' \in Services
    BY <2>1, <2>2, <2>3 DEF Serves, Sound
  <2>6. Sound(svc)'
    BY <2>4, <2>5 DEF Sound
  <2>7. TypeOK'
    <3>1. 0 \in 0..CycleInterval
      BY ServiceAssumption
    <3> QED
      BY <1>1, <2>1, <2>4, <2>5, <3>1 DEF TypeOK
  <2>8. (up /\ ~broken => InOrder(svc))'
    BY <2>1, <2>3, <2>4 DEF InOrder, Latches, Accounted
  <2>9. DeadlineAhead' /\ LeaseAhead'
    <3>1. svc'.valve = "supply" => svc'.lease > 0
      BY <2>5 DEF Sound
    <3> QED
      BY <2>4, <2>5, <3>1 DEF DeadlineAhead, LeaseAhead
  <2> QED
    BY <2>5, <2>6, <2>7, <2>8, <2>9
<1>3. CASE Crash
  <2>1. CASE Ends(svc)
    BY <1>1, <2>1, EndsStep
  <2>2. CASE \E r \in Attempt(svc, "drain") : Ends(r.s)
    BY <1>1, <2>2, AttemptDrain, EndsStep DEF Falls
  <2>3. CASE \E r \in Attempt(svc, "begin") \cup Attempt(svc, "renew") : Ends(r.s)
    BY <1>1, <2>3, AttemptSupply, EndsStep
  <2> QED
    BY <1>3, <2>1, <2>2, <2>3 DEF Crash
<1>4. CASE Shutdown
  BY <1>1, <1>4, DrainNowFacts, EndsStep DEF Shutdown
<1>5. CASE Cycle
  <2>0. PICK first \in Round(svc) : \E r \in Guarded(first) :
           /\ svc' = r.s
           /\ wait' = IF r.how = "raise" THEN dead ELSE Sleep(r.s)
           /\ broken' = (broken \/ first.how = "raise")
    BY <1>5 DEF Cycle
  <2>1. PICK r \in Guarded(first) :
           /\ svc' = r.s
           /\ wait' = IF r.how = "raise" THEN dead ELSE Sleep(r.s)
           /\ broken' = (broken \/ first.how = "raise")
    BY <2>0
  <2>2. /\ Serves(svc, r.s)
        /\ first.how # "raise" /\ InOrder(svc) => InOrder(r.s) /\ Renewed(r.s)
    BY <1>1, GuardedFacts
  <2>3. up /\ wait = 0 /\ up' = up /\ mode' = mode /\ did' = "cycle"
    BY <1>5 DEF Cycle
  <2>4. Sound(svc') /\ svc' \in Services /\ (svc'.timer => svc'.left >= 0)
    BY <2>1, <2>2 DEF Serves, Sound
  <2>5. Sound(svc)'
    BY <2>3, <2>4 DEF Sound
  <2>6. /\ wait' \in {dead} \cup 0..CycleInterval
        /\ wait' # dead => (svc'.timer => svc'.left >= wait')
    <3>1. svc'.left \in Int /\ CycleInterval \in Nat
      BY <2>4, ServiceAssumption DEF Services
    <3>2. /\ Sleep(r.s) \in Int /\ Sleep(r.s) <= CycleInterval /\ Sleep(r.s) >= 0
          /\ svc'.timer => svc'.left >= Sleep(r.s)
      BY <2>1, <2>4, <3>1 DEF Sleep
    <3> QED
      BY <2>1, <3>1, <3>2
  <2>7. TypeOK'
    BY <1>1, <2>1, <2>3, <2>4, <2>6 DEF TypeOK
  <2>8. (up /\ ~broken => InOrder(svc) /\ Renewed(svc))'
    <3>1. ~broken' => InOrder(r.s) /\ Renewed(r.s)
      BY <2>1, <2>2, <2>3
    <3> QED
      BY <2>1, <2>3, <3>1 DEF InOrder, Latches, Accounted, Renewed
  <2>9. DeadlineAhead' /\ LeaseAhead'
    BY <2>6, <2>8, ServiceAssumption DEF DeadlineAhead, LeaseAhead, Renewed
  <2> QED
    BY <2>4, <2>5, <2>7, <2>8, <2>9
<1>6. CASE \E d \in Durations : ApiStart(d)
  <2>0. PICK d \in Durations : ApiStart(d)
    BY <1>6
  <2>1. PICK r \in StartTimedShower(svc, d) :
           /\ svc' = r.s
           /\ wait' = IF r.how # "raise" /\ r.s.command = "SUPPLY" /\ wait # dead THEN 0 ELSE wait
           /\ broken' = (broken \/ r.how = "raise")
    BY <2>0 DEF ApiStart, Call
  <2>2. up /\ up' = up /\ mode' = mode /\ did' = "start"
    BY <2>0 DEF ApiStart, Call
  <2>3. /\ r.how \in {"ok", "raise"} /\ Sound(r.s)
        /\ svc.latched => r.s.latched
        /\ r.s.timer => (svc.timer /\ r.s.left = svc.left) \/ StartsShower(r)
        /\ r.how = "ok" /\ InOrder(svc) => InOrder(r.s)
    BY <1>1, StartTimedShowerFacts
  <2>4. svc' \in Services /\ wait \in {dead} \cup 0..CycleInterval /\ wait' \in {dead} \cup 0..CycleInterval
    BY <2>1, <2>3, ServiceAssumption DEF Sound, TypeOK
  <2>5. Sound(svc)' /\ TypeOK'
    BY <1>1, <2>1, <2>2, <2>3, <2>4 DEF Sound, TypeOK
  <2>6. svc'.left \in Int /\ (svc.timer => svc.left >= 0)'
    BY <2>1, <2>3, <2>4 DEF StartsShower, Services
  <2>7. (up /\ ~broken => InOrder(svc))'
    <3>1. ~broken' => InOrder(r.s)
      BY <2>1, <2>2, <2>3
    <3> QED
      BY <2>1, <2>2, <3>1 DEF InOrder, Latches, Accounted
  <2>8. DeadlineAhead'
    <3> SUFFICES ASSUME wait' # dead, svc'.timer, ~svc'.latched
                 PROVE  svc'.left >= wait'
      BY DEF DeadlineAhead
    <3>1. CASE svc.timer /\ svc'.left = svc.left
      BY <2>1, <2>2, <2>3, <2>4, <2>6, <3>1 DEF DeadlineAhead
    <3>2. CASE StartsShower(r)
      BY <2>1, <2>3, <2>6, <3>2 DEF StartsShower
    <3> QED
      BY <2>1, <2>3, <3>1, <3>2
  <2>9. LeaseAhead'
    <3> SUFFICES ASSUME wait' # dead, ~broken', svc'.command = "SUPPLY", svc'.valve = "supply"
                 PROVE  svc'.lease > wait'
      BY DEF LeaseAhead
    <3>1. wait' = 0
      BY <2>1
    <3> QED
      BY <2>1, <2>3, <3>1 DEF Sound
  <2> QED
    BY <2>5, <2>6, <2>7, <2>8, <2>9
<1>7. CASE ApiDrain
  <2>1. PICK r \in DrainNow(svc) :
           /\ svc' = r.s /\ broken' = (broken \/ r.how = "raise")
           /\ wait' = wait \/ (wait' = 0 /\ wait # dead)
    BY <1>7 DEF ApiDrain, Call
  <2>2. up /\ did' = "drain" /\ UNCHANGED <<mode, up>>
    BY <1>7 DEF ApiDrain, Call
  <2> QED
    BY <1>1, <2>1, <2>2, DrainNowServes, CallStep
<1>8. CASE ApiClearFault
  <2>1. PICK r \in ClearFault(svc) :
           svc' = r.s /\ wait' = wait /\ broken' = (broken \/ r.how = "raise")
    BY <1>8 DEF ApiClearFault, Call
  <2>2. up /\ did' = "clear" /\ UNCHANGED <<mode, up>>
    BY <1>8 DEF ApiClearFault, Call
  <2> QED
    BY <1>1, <2>1, <2>2, ClearFaultFacts, CallStep
<1>9. CASE \E max \in Durations : ApiSettings(max)
  <2>0. PICK max \in Durations : ApiSettings(max)
    BY <1>9
  <2>1. PICK r \in UpdateSettings(svc, max) :
           svc' = r.s /\ wait' = wait /\ broken' = (broken \/ r.how = "raise")
    BY <2>0 DEF ApiSettings, Call
  <2>2. up /\ did' = "settings" /\ UNCHANGED <<mode, up>>
    BY <2>0 DEF ApiSettings, Call
  <2> QED
    BY <1>1, <2>1, <2>2, UpdateSettingsFacts, CallStep
<1>10. CASE ApiStatus
  <2>1. PICK r \in Status(svc) :
           svc' = r.s /\ wait' = wait /\ broken' = (broken \/ r.how = "raise")
    BY <1>10 DEF ApiStatus, Call
  <2>2. up /\ did' = "status" /\ UNCHANGED <<mode, up>>
    BY <1>10 DEF ApiStatus, Call
  <2> QED
    BY <1>1, <2>1, <2>2, StatusFacts, CallStep
<1>11. CASE ApiStoreFails
  <2>1. PICK r \in LatchPersistenceFailure(svc) :
           svc' = r.s /\ wait' = wait /\ broken' = (broken \/ r.how = "raise")
    BY <1>11 DEF ApiStoreFails, Call
  <2>2. up /\ did' = "storage" /\ UNCHANGED <<mode, up>>
    BY <1>11 DEF ApiStoreFails, Call
  <2>3. /\ r.how \in {"ok", "raise"} /\ Falls(svc, r.s)
        /\ r.how = "ok" /\ Latches(svc) => Latches(r.s) /\ Faulted(r.s)
    BY <1>1, LatchFacts
  <2>4. /\ Serves(svc, r.s)
        /\ r.how # "raise" /\ InOrder(svc) => InOrder(r.s) /\ Kept(svc, r.s)
    BY <2>3, FallsServes, FallsKept DEF InOrder, Accounted
  <2> QED
    BY <2>1, <2>2, <2>4, CallStep
<1>12. CASE Tick
  <2>1. /\ svc' \in Later(svc) /\ did' = "tick" /\ mode' = mode /\ up' = up /\ broken' = broken
        /\ wait' = IF wait > 0 THEN wait - 1 ELSE wait
        /\ up => wait # 0
    BY <1>12 DEF Tick
  <2>2. /\ Sound(svc')
        /\ svc'.state = svc.state /\ svc'.command = svc.command /\ svc'.last = svc.last
        /\ svc'.timer = svc.timer /\ svc'.latched = svc.latched
        /\ svc'.left = IF svc.left > 0 THEN svc.left - 1 ELSE svc.left
        /\ svc'.valve = "supply" => svc.valve = "supply" /\ svc'.lease = svc.lease - 1
    BY <1>1, <2>1, LaterFacts
  <2>3. svc' \in Services /\ svc.left \in Int /\ svc.lease \in Int
        /\ wait \in {dead} \cup 0..CycleInterval /\ CycleInterval \in Nat
    BY <1>1, <2>2, ServiceAssumption DEF Sound, Services, TypeOK
  <2>4. wait' \in {dead} \cup 0..CycleInterval
    BY <2>1, <2>3 DEF dead
  <2>5. Sound(svc)' /\ TypeOK'
    BY <1>1, <2>1, <2>2, <2>3, <2>4 DEF Sound, TypeOK
  <2>6. (svc.timer => svc.left >= 0)'
    BY <2>2, <2>3
  <2>7. (up /\ ~broken => InOrder(svc))'
    BY <2>1, <2>2 DEF InOrder, Latches, Accounted, Faulted
  <2>8. up /\ wait' # dead => wait # dead /\ wait' = wait - 1
    BY <2>1, <2>3 DEF dead
  <2>9. DeadlineAhead'
    BY <2>1, <2>2, <2>3, <2>8 DEF DeadlineAhead
  <2>10. LeaseAhead'
    BY <2>1, <2>2, <2>3, <2>8 DEF LeaseAhead
  <2> QED
    BY <2>5, <2>6, <2>7, <2>9, <2>10
<1>13. CASE ValveDrained \/ ValveLost
  <2>1. svc' \in {Drained(svc), Lost(svc)} /\ did' = "valve" /\ UNCHANGED <<mode, up, wait, broken>>
    BY <1>13 DEF ValveDrained, ValveLost
  <2>2. Falls(svc, svc') /\ Same(svc, svc') /\ svc'.last = svc.last
    BY <1>1, <2>1, ValveOnly
  <2>3. svc' \in Services /\ svc'.valve = "supply" => svc.valve = "supply" /\ svc'.lease = svc.lease
    BY <2>2 DEF Falls, NotGranted
  <2>4. Sound(svc)' /\ TypeOK'
    BY <2>1, <2>2 DEF Falls, Sound, TypeOK
  <2>5. (up /\ ~broken => InOrder(svc))'
    BY <2>1, <2>2, <2>3 DEF InOrder, Latches, Accounted, Faulted, Same, Falls, Sound
  <2>6. DeadlineAhead' /\ LeaseAhead' /\ (svc.timer => svc.left >= 0)'
    BY <2>1, <2>2, <2>3 DEF DeadlineAhead, LeaseAhead, Same, Falls, Sound
  <2> QED
    BY <2>4, <2>5, <2>6
<1>14. CASE UNCHANGED vars
  BY <1>14 DEF vars, TypeOK, Sound, InOrder, Latches, Accounted, DeadlineAhead, LeaseAhead
<1> QED
  BY <1>2, <1>3, <1>4, <1>5, <1>6, <1>7, <1>8, <1>9, <1>10, <1>11, <1>12, <1>13, <1>14 DEF Next

LEMMA Invariance == Spec => []IInv
  BY InitIInv, NextIInv, PTL DEF Spec

-----------------------------------------------------------------------------
(* The theorems. *)

(* Every variable stays within its type, whatever fails and in whichever   *)
(* order: in particular the loop never sleeps longer than a cycle and      *)
(* never a negative time.                                                  *)
THEOREM TypeCorrect == Spec => []TypeOK
<1>1. IInv => TypeOK
  BY DEF IInv
<1> QED
  BY <1>1, Invariance, PTL

(* Unless an exception has gone through a method, an open valve is one     *)
(* that the mode, a shower's deadline and the Hub's own last command       *)
(* account for, or else the Hub is in FAULT.                               *)
THEOREM SupplyAccounted == Spec => []SupplyIsAccountedFor
<1>1. IInv => SupplyIsAccountedFor
  BY DEF IInv, InOrder, Accounted, SupplyIsAccountedFor
<1> QED
  BY <1>1, Invariance, PTL

(* A service in FAULT grants nothing but on the way out of it. *)
LEMMA NoGrant ==
    ASSUME NEW s, NEW x, Sound(s), Sound(x), NotGranted(s, x)
    PROVE  ~Grants(s, x)
  BY DEF Sound, Services, NotGranted, Grants

(* No method, cycle, failure or passing of time grants SUPPLY in FAULT,    *)
(* except the one that clears it.                                          *)
THEOREM FaultGrantsNothing == Spec => FaultNeverSupplies
<1> DEFINE Granted == up /\ up' /\ Faulted(svc) /\ did' # "clear" => ~Grants(svc, svc')
<1>1. IInv /\ IInv' /\ [Next]_vars => [Granted]_vars
  <2> SUFFICES ASSUME IInv, IInv', Next, up, up', Faulted(svc), did' # "clear"
               PROVE  ~Grants(svc, svc')
    OBVIOUS
  <2>1. mode \in Modes /\ Sound(svc)
    BY DEF IInv, TypeOK
  <2>2. CASE Tick
    <3>1. svc' \in Later(svc)
      BY <2>2 DEF Tick
    <3>2. /\ Sound(svc')
          /\ svc'.valve = "supply" => svc.valve = "supply" /\ svc'.lease = svc.lease - 1
      BY <2>1, <3>1, LaterFacts
    <3> QED
      BY <2>1, <3>2 DEF Sound, Services, Grants
  <2>3. CASE ~Tick
    <3> SUFFICES Sound(svc') /\ NotGranted(svc, svc')
      BY <2>1, NoGrant
    <3>1. ~Boot /\ ~Crash /\ ~Shutdown
      <4>1. ~up' \/ ~(Crash \/ Shutdown)
        BY DEF Crash, Shutdown, Ends
      <4> QED
        BY <4>1 DEF Boot
    <3>2. CASE Cycle
      <4>1. PICK first \in Round(svc) : \E r \in Guarded(first) : svc' = r.s
        BY <3>2 DEF Cycle
      <4> QED
        BY <2>1, <4>1, GuardedFacts DEF Serves
    <3>3. CASE \E d \in Durations : ApiStart(d)
      <4>1. PICK d \in Durations : \E r \in StartTimedShower(svc, d) : svc' = r.s
        BY <3>3 DEF ApiStart, Call
      <4> QED
        BY <2>1, <4>1, StartTimedShowerFacts DEF NotGranted
    <3>4. CASE ApiDrain
      <4>1. PICK r \in DrainNow(svc) : svc' = r.s
        BY <3>4 DEF ApiDrain, Call
      <4> QED
        BY <2>1, <4>1, DrainNowFacts
    <3>5. ~ApiClearFault
      BY DEF ApiClearFault, Call
    <3>6. CASE \E max \in Durations : ApiSettings(max)
      <4>1. PICK max \in Durations : \E r \in UpdateSettings(svc, max) : svc' = r.s
        BY <3>6 DEF ApiSettings, Call
      <4> QED
        BY <2>1, <4>1, UpdateSettingsFacts DEF Serves
    <3>7. CASE ApiStatus
      <4>1. PICK r \in Status(svc) : svc' = r.s
        BY <3>7 DEF ApiStatus, Call
      <4> QED
        BY <2>1, <4>1, StatusFacts DEF Serves
    <3>8. CASE ApiStoreFails
      <4>1. PICK r \in LatchPersistenceFailure(svc) : svc' = r.s
        BY <3>8 DEF ApiStoreFails, Call
      <4> QED
        BY <2>1, <4>1, LatchFacts DEF Falls
    <3>9. CASE ValveDrained \/ ValveLost
      <4>1. svc' \in {Drained(svc), Lost(svc)}
        BY <3>9 DEF ValveDrained, ValveLost
      <4> QED
        BY <2>1, <4>1, ValveOnly DEF Falls
    <3> QED
      BY <2>3, <3>1, <3>2, <3>3, <3>4, <3>5, <3>6, <3>7, <3>8, <3>9 DEF Next
  <2> QED
    BY <2>2, <2>3
<1> QED
  BY <1>1, Invariance, PTL DEF Spec, FaultNeverSupplies

(* Time passes only in a tick. *)
LEMMA OnlyTick ==
    ASSUME Next, did' = "tick"
    PROVE  Tick
  BY DEF Next, Boot, Crash, Shutdown, Ends, Cycle, ApiStart, ApiDrain, ApiClearFault,
         ApiSettings, ApiStatus, ApiStoreFails, Call, ValveDrained, ValveLost

(* In a tick the loop is not at its cycle, so what lies ahead of the cycle *)
(* is still ahead of the tick's end.                                       *)
LEMMA TickWaits ==
    ASSUME IInv, Tick, up, wait # dead
    PROVE  wait >= 1 /\ svc' \in Later(svc)
  BY DEF IInv, TypeOK, Tick, dead

(* While the loop's thread lives, no exception has gone through a method   *)
(* and the Hub supplies, the daemon's lease is never let lapse.            *)
THEOREM LeaseIsKept == Spec => LeaseKeptAlive
<1> DEFINE Alive == did' = "tick" /\ up /\ wait # dead /\ ~broken /\ svc.command = "SUPPLY"
                       /\ svc.valve = "supply" => svc'.valve = "supply"
<1>1. IInv /\ [Next]_vars => [Alive]_vars
  <2> SUFFICES ASSUME IInv, Next, did' = "tick", up, wait # dead, ~broken,
                      svc.command = "SUPPLY", svc.valve = "supply"
               PROVE  svc'.valve = "supply"
    OBVIOUS
  <2>1. wait >= 1 /\ wait \in Int /\ svc' \in Later(svc)
    BY OnlyTick, TickWaits DEF IInv, TypeOK, dead
  <2>2. svc.lease > wait /\ svc.lease \in Int
    BY DEF IInv, LeaseAhead, TypeOK, Services
  <2>3. svc.lease > 1
    BY <2>1, <2>2
  <2> QED
    BY <2>1, <2>3, LaterFacts DEF IInv
<1> QED
  BY <1>1, Invariance, PTL DEF Spec, LeaseKeptAlive

(* While the loop's thread lives and no failure is latched, no time passes *)
(* after a shower's deadline before its DRAIN has been commanded.          *)
THEOREM DeadlineMet == Spec => DeadlineIsKept
<1> DEFINE Met == did' = "tick" /\ up /\ wait # dead /\ ~svc.latched => ~(svc.timer /\ Expired(svc))
<1>1. IInv /\ [Next]_vars => [Met]_vars
  <2> SUFFICES ASSUME IInv, Next, did' = "tick", up, wait # dead, ~svc.latched, svc.timer
               PROVE  ~Expired(svc)
    OBVIOUS
  <2>1. wait >= 1 /\ wait \in Int
    BY OnlyTick, TickWaits DEF IInv, TypeOK, dead
  <2>2. svc.left >= wait /\ svc.left \in Int
    BY DEF IInv, DeadlineAhead, TypeOK, Services
  <2> QED
    BY <2>1, <2>2 DEF Expired
<1> QED
  BY <1>1, Invariance, PTL DEF Spec, DeadlineIsKept
=============================================================================
