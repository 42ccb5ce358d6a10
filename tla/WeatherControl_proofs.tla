------------------------ MODULE WeatherControl_proofs ------------------------
(***************************************************************************)
(* WeatherControl for any lease, cycle and durations.                      *)
(*                                                                         *)
(* As for ControlService, what a method does is a lemma about each of its  *)
(* results.  A process may end inside a method, so every lemma says two    *)
(* things: what holds of the record and of the valve wherever the process  *)
(* ends, and what holds of the service if the method returns.              *)
(***************************************************************************)
EXTENDS WeatherControl, TLAPS

(* A lease is held exactly while the valve supplies. *)
Sound(s) ==
    /\ s \in Services
    /\ s.valve = "supply" <=> s.lease > 0
    /\ s.left >= 0

(* A fault that has done its work: a latched one is always such a fault    *)
(* outside of the method that latches it.                                  *)
Down(s) == Faulted(s) /\ ~s.timer
Fit(s)  == Sound(s) /\ (s.latched => Down(s))

(* The valve is not opened and its lease not renewed. *)
NotGranted(s, x) == x.valve = "supply" => s.valve = "supply" /\ x.lease = s.lease

(* The record keeps its marker and only gains inhibitions. *)
Worse(s, x) ==
    /\ x.rec.marker = s.rec.marker
    /\ s.rec.off => x.rec.off
    /\ s.rec.inhibited => x.rec.inhibited

Safe(s, x) == Sound(x) /\ NotGranted(s, x) /\ Worse(s, x)

(* The service's own state is left alone; only what it knows of the valve  *)
(* may change.                                                             *)
Same(s, x) ==
    /\ x.state = s.state /\ x.timer = s.timer /\ x.left = s.left
    /\ x.latched = s.latched /\ x.rec = s.rec

Hows == {"ok", "error", "crash"}

LEMMA SafeTrans ==
    ASSUME NEW s, NEW x, NEW y, Safe(s, x), Safe(x, y)
    PROVE  Safe(s, y)
  BY DEF Safe, NotGranted, Worse

LEMMA SafeRefl ==
    ASSUME NEW s, Sound(s)
    PROVE  Safe(s, s)
  BY DEF Safe, NotGranted, Worse

LEMMA FitSame ==
    ASSUME NEW s, NEW x, Fit(s), Sound(x), Same(s, x) \/ Down(x)
    PROVE  Fit(x)
  BY DEF Fit, Same, Down, Faulted

(* A call whose failure is ignored. *)
LEMMA Ignored ==
    ASSUME NEW q, NEW r, q.how \in Hows,
           r \in CASE q.how = "ok" -> Done(q.s) [] q.how = "error" -> Done(q.s) [] OTHER -> {q}
    PROVE  r.s = q.s /\ r.how = (IF q.how = "crash" THEN "crash" ELSE "ok")
<1>1. CASE q.how \in {"ok", "error"}
  <2>1. r = [s |-> q.s, how |-> "ok"]
    BY <1>1 DEF Done
  <2> QED
    BY <1>1, <2>1
<1>2. CASE q.how = "crash"
  <2>1. r = q
    BY <1>2
  <2> QED
    BY <1>2, <2>1
<1> QED
  BY <1>1, <1>2 DEF Hows

(* A call whose success counts for nothing. *)
LEMMA Spoilt ==
    ASSUME NEW q, NEW r, q.how \in Hows,
           r \in CASE q.how = "ok" -> Refused(q.s) [] q.how = "error" -> Refused(q.s)
                   [] OTHER -> {q}
    PROVE  r.s = q.s /\ r.how = (IF q.how = "crash" THEN "crash" ELSE "error")
<1>1. CASE q.how \in {"ok", "error"}
  <2>1. r = [s |-> q.s, how |-> "error"]
    BY <1>1 DEF Refused
  <2> QED
    BY <1>1, <2>1
<1>2. CASE q.how = "crash"
  <2>1. r = q
    BY <1>2
  <2> QED
    BY <1>2, <2>1
<1> QED
  BY <1>1, <1>2 DEF Hows

-----------------------------------------------------------------------------
(* The driver. *)

LEMMA Valves == "drain" \in {"drain", "supply", "unconfirmed"} /\ "supply" \in {"drain", "supply", "unconfirmed"}
                  /\ "unconfirmed" \in {"drain", "supply", "unconfirmed"}
  OBVIOUS

LEMMA ValveOnly ==
    ASSUME NEW s, Sound(s), NEW x \in {s, Lost(s), Drained(s)}
    PROVE  Safe(s, x) /\ Same(s, x) /\ x.last = s.last
<1>1. s \in Services /\ 0 \in 0..Lease
  BY WeatherAssumption DEF Sound
<1>2. Drained(s) \in Services /\ Lost(s) \in Services
  BY <1>1, Valves, Zenon DEF Services, Drained, Lost
<1>3. CASE x = s
  BY <1>3, SafeRefl DEF Same
<1>4. CASE x = Lost(s)
  <2>1. x.valve = "unconfirmed" /\ x.lease = 0 /\ x.last = s.last /\ Same(s, x)
    BY <1>1, <1>4 DEF Lost, Services, Same
  <2> QED
    BY <1>2, <1>4, <2>1 DEF Sound, Safe, NotGranted, Worse, Same
<1>5. CASE x = Drained(s)
  <2>1. x.valve = "drain" /\ x.lease = 0 /\ x.last = s.last /\ Same(s, x)
    BY <1>1, <1>5 DEF Drained, Services, Same
  <2> QED
    BY <1>2, <1>5, <2>1 DEF Sound, Safe, NotGranted, Worse, Same
<1> QED
  BY <1>3, <1>4, <1>5

LEMMA DrainedFacts ==
    ASSUME NEW s, Sound(s)
    PROVE  Drained(s).valve = "drain"
  BY DEF Sound, Services, Drained

LEMMA OpenedFacts ==
    ASSUME NEW s, Sound(s)
    PROVE  /\ Sound(Opened(s)) /\ Same(s, Opened(s))
           /\ Opened(s).valve = "supply" /\ Opened(s).lease = Lease
<1>1. s \in Services /\ Lease \in 0..Lease /\ Lease > 0
  BY WeatherAssumption DEF Sound
<1>2. Opened(s) \in Services
  BY <1>1, Valves, Zenon DEF Services, Opened
<1>3. Opened(s).valve = "supply" /\ Opened(s).lease = Lease /\ Same(s, Opened(s))
  BY <1>1 DEF Services, Opened, Same
<1> QED
  BY <1>1, <1>2, <1>3 DEF Sound, Same

LEMMA ConfirmedFacts ==
    ASSUME NEW s, Sound(s), NEW action
    PROVE  /\ Sound(Confirmed(s, action)) /\ Same(s, Confirmed(s, action))
           /\ Confirmed(s, action).valve = s.valve /\ Confirmed(s, action).lease = s.lease
           /\ Confirmed(s, action).last = IF action = "drain" THEN "DRAIN" ELSE "SUPPLY"
<1> DEFINE x == Confirmed(s, action)
<1>1. s \in Services
  BY DEF Sound
<1>2. /\ x.valve = s.valve /\ x.lease = s.lease /\ Same(s, x)
      /\ x.last = IF action = "drain" THEN "DRAIN" ELSE "SUPPLY"
  BY <1>1 DEF Confirmed, Services, Same
<1>3. x \in Services
  <2>1. /\ (IF action = "drain" THEN "DRAIN" ELSE "SUPPLY") \in {"none", "DRAIN", "SUPPLY"}
        /\ (action = "drain" \/ s.ready) \in BOOLEAN
    BY <1>1 DEF Services
  <2> QED
    BY <1>1, <2>1, Zenon DEF Services, Confirmed
<1> QED
  BY <1>2, <1>3 DEF Sound, Same

(* The withdrawal of _supply_ready. *)
LEMMA UnreadyFacts ==
    ASSUME NEW s, Sound(s), NEW x, x = [s EXCEPT !.ready = FALSE]
    PROVE  Sound(x) /\ Same(s, x) /\ x.valve = s.valve /\ x.lease = s.lease /\ x.last = s.last
<1>1. s \in Services
  BY DEF Sound
<1>2. x \in Services
  BY <1>1, Zenon DEF Services
<1>3. Same(s, x) /\ x.valve = s.valve /\ x.lease = s.lease /\ x.last = s.last
  BY <1>1 DEF Services, Same
<1> QED
  BY <1>2, <1>3 DEF Sound, Same

LEMMA AttemptDrain ==
    ASSUME NEW s, Sound(s), NEW r \in Attempt(s, "drain")
    PROVE  /\ r.how \in Hows /\ Safe(s, r.s) /\ Same(s, r.s)
           /\ r.how = "ok" => r.s.valve = "drain" /\ r.s.last = "DRAIN"
<1>1. Accepted(s, "drain") = {Drained(s)}
  BY DEF Accepted
<1>2. /\ Safe(s, Drained(s)) /\ Same(s, Drained(s)) /\ Sound(Drained(s))
      /\ Drained(s).valve = "drain"
  BY ValveOnly, DrainedFacts DEF Safe
<1>3. CASE r = [s |-> Confirmed(Drained(s), "drain"), how |-> "ok"]
  <2>1. /\ Sound(r.s) /\ Same(Drained(s), r.s)
        /\ r.s.valve = "drain" /\ r.s.last = "DRAIN" /\ r.how = "ok"
    BY <1>2, <1>3, ConfirmedFacts
  <2> HIDE <1>3
  <2> QED
    BY <1>2, <2>1 DEF Hows, Safe, Same, NotGranted, Worse
<1>4. CASE \E x \in {s, Lost(s), Drained(s)} : r = [s |-> [x EXCEPT !.ready = FALSE], how |-> "error"]
  <2>1. PICK x \in {s, Lost(s), Drained(s)} : r = [s |-> [x EXCEPT !.ready = FALSE], how |-> "error"]
    BY <1>4
  <2>2. Safe(s, x) /\ Same(s, x) /\ Sound(x)
    BY ValveOnly DEF Safe
  <2>3. r.s = [x EXCEPT !.ready = FALSE] /\ r.how = "error"
    BY <2>1
  <2>4. Sound(r.s) /\ Same(x, r.s) /\ r.s.valve = x.valve /\ r.s.lease = x.lease
    BY <2>2, <2>3, UnreadyFacts
  <2> QED
    BY <2>2, <2>3, <2>4 DEF Hows, Safe, Same, NotGranted, Worse
<1>5. CASE \E x \in {s, Drained(s)} : r = [s |-> x, how |-> "crash"]
  BY <1>2, <1>5, SafeRefl DEF Hows, Same
<1> QED
  BY <1>1, <1>3, <1>4, <1>5 DEF Attempt, Crashed

LEMMA AttemptSupply ==
    ASSUME NEW s, Sound(s), NEW action \in {"begin", "renew"}, NEW r \in Attempt(s, action)
    PROVE  /\ r.how \in Hows /\ Sound(r.s) /\ Same(s, r.s)
           /\ r.how = "ok" => r.s.valve = "supply" /\ r.s.last = "SUPPLY"
           /\ action = "renew" /\ s.valve # "supply" => r.s.valve # "supply"
<1> DEFINE Reached == Accepted(s, action)
<1>1. /\ Reached \subseteq {Opened(s)}
      /\ action = "renew" /\ s.valve # "supply" => Reached = {}
  BY DEF Accepted
<1>2. Sound(Opened(s)) /\ Same(s, Opened(s)) /\ Opened(s).valve = "supply"
  BY OpenedFacts
<1>3. CASE \E x \in Reached : r = [s |-> Confirmed(x, action), how |-> "ok"]
  <2>1. r = [s |-> Confirmed(Opened(s), action), how |-> "ok"] /\ Reached # {}
    BY <1>1, <1>3
  <2>2. /\ Sound(r.s) /\ Same(Opened(s), r.s)
        /\ r.s.valve = "supply" /\ r.s.last = "SUPPLY" /\ r.how = "ok"
    BY <1>2, <2>1, ConfirmedFacts
  <2> HIDE DEF Reached
  <2> QED
    BY <1>1, <1>2, <2>1, <2>2 DEF Hows, Same
<1> DEFINE Tried == Reached \cup {s, Lost(s), Drained(s)}
<1>4. \A x \in Tried : /\ Sound(x) /\ Same(s, x)
                       /\ action = "renew" /\ s.valve # "supply" => x.valve # "supply"
  <2> SUFFICES ASSUME NEW x \in Tried
               PROVE  /\ Sound(x) /\ Same(s, x)
                      /\ action = "renew" /\ s.valve # "supply" => x.valve # "supply"
    OBVIOUS
  <2> HIDE DEF Reached
  <2>1. CASE x \in Reached
    BY <1>1, <1>2, <2>1
  <2>2. CASE x \in {s, Lost(s), Drained(s)}
    BY <2>2, ValveOnly DEF Safe, NotGranted
  <2> QED
    BY <2>1, <2>2
<1>5. CASE \E x \in Tried : r = [s |-> [x EXCEPT !.ready = FALSE], how |-> "error"]
  <2> HIDE DEF Tried
  <2>1. PICK x \in Tried : r = [s |-> [x EXCEPT !.ready = FALSE], how |-> "error"]
    BY <1>5
  <2>2. r.s = [x EXCEPT !.ready = FALSE] /\ r.how = "error"
    BY <2>1
  <2>3. Sound(r.s) /\ Same(x, r.s) /\ r.s.valve = x.valve
    BY <1>4, <2>2, UnreadyFacts
  <2> QED
    BY <1>4, <2>2, <2>3 DEF Hows, Same
<1>6. CASE \E x \in Tried : r = [s |-> x, how |-> "crash"]
  BY <1>4, <1>6 DEF Hows
<1> QED
  BY <1>3, <1>5, <1>6 DEF Attempt, Crashed

-----------------------------------------------------------------------------
(* The stores and the fault latch. *)

LEMMA NoTimerFacts ==
    ASSUME NEW s, Sound(s)
    PROVE  /\ Sound(NoTimer(s)) /\ Safe(s, NoTimer(s)) /\ ~NoTimer(s).timer
           /\ NoTimer(s).state = s.state /\ NoTimer(s).latched = s.latched
           /\ NoTimer(s).rec = s.rec /\ NoTimer(s).valve = s.valve /\ NoTimer(s).last = s.last
<1>1. s \in Services /\ 0 \in Nat /\ 0 \in Int
  BY DEF Sound
<1>2. NoTimer(s) \in Services
  BY <1>1, Zenon DEF Services, NoTimer
<1>3. /\ NoTimer(s).state = s.state /\ NoTimer(s).latched = s.latched
      /\ NoTimer(s).rec = s.rec /\ NoTimer(s).last = s.last /\ ~NoTimer(s).timer
      /\ NoTimer(s).valve = s.valve /\ NoTimer(s).lease = s.lease /\ NoTimer(s).left = 0
  BY <1>1 DEF Services, NoTimer
<1> QED
  BY <1>2, <1>3 DEF Safe, Sound, NotGranted, Worse

(* The service with another record. *)
LEMMA RecordFacts ==
    ASSUME NEW s, Sound(s), NEW rec \in Records, NEW x, x = [s EXCEPT !.rec = rec]
    PROVE  /\ Sound(x) /\ x.rec = rec /\ x.state = s.state /\ x.timer = s.timer
           /\ x.left = s.left /\ x.latched = s.latched /\ x.last = s.last
           /\ x.valve = s.valve /\ x.lease = s.lease
<1>1. s \in Services
  BY DEF Sound
<1>2. x \in Services
  BY <1>1, Zenon DEF Services
<1>3. /\ x.rec = rec /\ x.state = s.state /\ x.timer = s.timer
      /\ x.left = s.left /\ x.latched = s.latched /\ x.last = s.last
      /\ x.valve = s.valve /\ x.lease = s.lease
  BY <1>1 DEF Services
<1> QED
  BY <1>2, <1>3 DEF Sound

(* A fault on record changes nothing else. *)
LEMMA PersistFaultFacts ==
    ASSUME NEW s, Sound(s), NEW r \in PersistFault(s)
    PROVE  /\ r.how \in {"ok", "crash"} /\ Safe(s, r.s)
           /\ r.s.state = s.state /\ r.s.timer = s.timer /\ r.s.latched = s.latched
<1> DEFINE written == [s EXCEPT !.rec.off = TRUE, !.rec.inhibited = TRUE]
           rec == [s.rec EXCEPT !.off = TRUE, !.inhibited = TRUE]
<1>1. s.rec \in Records /\ s \in Services
  BY DEF Sound, Services
<1>2. /\ rec \in Records /\ rec.off /\ rec.inhibited /\ rec.marker = s.rec.marker
  BY <1>1 DEF Records
<1>3. written = [s EXCEPT !.rec = rec]
  BY <1>1 DEF Services, Records
<1>4. r \in {[s |-> s, how |-> "ok"], [s |-> written, how |-> "ok"],
             [s |-> s, how |-> "crash"], [s |-> written, how |-> "crash"]}
  BY DEF PersistFault, Done, Crashed
<1> HIDE DEF written, rec
<1>5. /\ Sound(written) /\ written.rec = rec /\ written.state = s.state
      /\ written.timer = s.timer /\ written.latched = s.latched
      /\ written.valve = s.valve /\ written.lease = s.lease
  BY <1>2, <1>3, RecordFacts
<1>6. Safe(s, written)
  BY <1>2, <1>5 DEF Safe, NotGranted, Worse
<1>7. r.s \in {s, written} /\ r.how \in {"ok", "crash"}
  BY <1>4
<1> QED
  BY <1>5, <1>6, <1>7, SafeRefl

LEMMA SendDrainQuietlyFacts ==
    ASSUME NEW s, Sound(s), NEW r \in SendDrainQuietly(s)
    PROVE  r.how \in Hows /\ Safe(s, r.s) /\ Same(s, r.s)
<1>1. PICK q \in Attempt(s, "drain") :
         r \in CASE q.how = "ok"    -> Done(q.s)
                 [] q.how = "error" -> Then(Attempt(q.s, "drain"), Late, Refused)
                 [] OTHER           -> {q}
  BY DEF SendDrainQuietly, Then
<1>2. q.how \in Hows /\ Safe(s, q.s) /\ Same(s, q.s) /\ Sound(q.s)
  BY AttemptDrain DEF Safe
<1>3. CASE q.how = "ok"
  <2>1. r = [s |-> q.s, how |-> "ok"]
    BY <1>1, <1>3 DEF Done
  <2> QED
    BY <1>2, <2>1 DEF Hows
<1>4. CASE q.how = "crash"
  <2>1. r = q
    BY <1>1, <1>4
  <2> QED
    BY <1>2, <2>1
<1>5. CASE q.how = "error"
  <2>1. PICK a \in Attempt(q.s, "drain") :
           r \in CASE a.how = "ok" -> Late(a.s) [] a.how = "error" -> Refused(a.s)
                   [] OTHER -> {a}
    BY <1>1, <1>5 DEF Then
  <2>2. a.how \in Hows /\ Safe(q.s, a.s) /\ Same(q.s, a.s) /\ Sound(a.s)
    BY <1>2, AttemptDrain DEF Safe
  <2>3. Safe(s, a.s) /\ Same(s, a.s)
    BY <1>2, <2>2, SafeTrans DEF Same
  <2>4. CASE a.how = "ok"
    <3>1. r = [s |-> [a.s EXCEPT !.ready = FALSE], how |-> "error"]
      BY <2>1, <2>4 DEF Late, Refused
    <3>2. r.s = [a.s EXCEPT !.ready = FALSE] /\ r.how = "error"
      BY <3>1
    <3>3. Sound(r.s) /\ Same(a.s, r.s) /\ r.s.valve = a.s.valve /\ r.s.lease = a.s.lease
      BY <2>2, <3>2, UnreadyFacts
    <3> QED
      BY <2>3, <3>2, <3>3 DEF Hows, Safe, NotGranted, Worse, Same
  <2>5. CASE a.how = "error"
    <3>1. r = [s |-> a.s, how |-> "error"]
      BY <2>1, <2>5 DEF Refused
    <3> QED
      BY <2>3, <3>1 DEF Hows
  <2>6. CASE a.how = "crash"
    <3>1. r = a
      BY <2>1, <2>6
    <3> QED
      BY <2>2, <2>3, <3>1
  <2> QED
    BY <2>2, <2>4, <2>5, <2>6 DEF Hows
<1> QED
  BY <1>2, <1>3, <1>4, <1>5 DEF Hows

(* FAULT over whatever is there. *)
LEMMA SetFault ==
    ASSUME NEW s, Sound(s), NEW x, x = [s EXCEPT !.state = "FAULT"]
    PROVE  /\ Sound(x) /\ Safe(s, x) /\ Faulted(x) /\ x.timer = s.timer /\ x.latched = s.latched
           /\ x.rec = s.rec /\ x.last = s.last /\ x.valve = s.valve
<1>1. s \in Services /\ "FAULT" \in {"STARTING", "MANUAL_DRAIN", "TIMED_SHOWER", "AUTO_SUPPLY", "FAULT"}
  BY DEF Sound
<1>2. x \in Services
  BY <1>1, Zenon DEF Services
<1>3. /\ x.state = "FAULT" /\ x.timer = s.timer /\ x.latched = s.latched /\ x.rec = s.rec
      /\ x.valve = s.valve /\ x.lease = s.lease /\ x.left = s.left /\ x.last = s.last
  BY <1>1 DEF Services
<1> QED
  BY <1>2, <1>3 DEF Sound, Safe, NotGranted, Worse, Faulted

(* The first failure of a store: an inhibition on record if it can be      *)
(* written, DRAIN as well as can be, FAULT.  A later one does nothing.     *)
LEMMA LatchFacts ==
    ASSUME NEW s, Fit(s), NEW r \in LatchPersistenceFailure(s)
    PROVE  /\ r.how \in {"ok", "crash"} /\ Safe(s, r.s)
           /\ r.how = "ok" => Down(r.s)
<1>1. CASE s.latched
  <2>1. r = [s |-> s, how |-> "ok"]
    BY <1>1 DEF LatchPersistenceFailure, Done
  <2> QED
    BY <1>1, <2>1, SafeRefl DEF Fit
<1>2. CASE ~s.latched
  <2> DEFINE l == [s EXCEPT !.latched = TRUE]
             End(y) == Done([y EXCEPT !.state = "FAULT"])
  <2>1. PICK q \in PersistFault(l) :
           r \in CASE q.how = "ok"    -> Regardless(SendDrainQuietly(NoTimer(q.s)), End)
                   [] q.how = "error" -> Regardless(SendDrainQuietly(NoTimer(q.s)), End)
                   [] OTHER           -> {q}
    BY <1>2 DEF LatchPersistenceFailure, Regardless, Then
  <2>2. s \in Services /\ Sound(s)
    BY DEF Fit, Sound
  <2>3. l \in Services
    BY <2>2, Zenon DEF Services
  <2>4. l.valve = s.valve /\ l.lease = s.lease /\ l.left = s.left /\ l.rec = s.rec
    BY <2>2 DEF Services
  <2> HIDE DEF l
  <2>5. Sound(l) /\ Safe(s, l)
    BY <2>2, <2>3, <2>4 DEF Sound, Safe, NotGranted, Worse
  <2>6. q.how \in {"ok", "crash"} /\ Safe(l, q.s)
    BY <2>5, PersistFaultFacts
  <2>7. Safe(s, q.s) /\ Sound(q.s)
    BY <2>5, <2>6, SafeTrans DEF Safe
  <2>8. CASE q.how = "crash"
    <3>1. r = q
      BY <2>1, <2>8
    <3> QED
      BY <2>7, <2>8, <3>1
  <2>9. CASE q.how = "ok"
    <3> DEFINE n == NoTimer(q.s)
    <3>1. Sound(n) /\ Safe(s, n) /\ ~n.timer
      BY <2>7, NoTimerFacts, SafeTrans
    <3>2. PICK d \in SendDrainQuietly(n) :
             r \in CASE d.how = "ok" -> End(d.s) [] d.how = "error" -> End(d.s) [] OTHER -> {d}
      BY <2>1, <2>9 DEF Regardless, Then
    <3> HIDE DEF n
    <3>3. d.how \in Hows /\ Safe(s, d.s) /\ Sound(d.s) /\ ~d.s.timer
      BY <3>1, SendDrainQuietlyFacts, SafeTrans DEF Safe, Same
    <3>4. CASE d.how = "crash"
      <4>1. r = d
        BY <3>2, <3>4
      <4> QED
        BY <3>3, <3>4, <4>1
    <3>5. CASE d.how \in {"ok", "error"}
      <4>1. r = [s |-> [d.s EXCEPT !.state = "FAULT"], how |-> "ok"]
        BY <3>2, <3>5 DEF Done
      <4>2. r.s = [d.s EXCEPT !.state = "FAULT"] /\ r.how = "ok"
        BY <4>1
      <4>3. Safe(d.s, r.s) /\ Faulted(r.s) /\ r.s.timer = d.s.timer
        BY <3>3, <4>2, SetFault
      <4> QED
        BY <3>3, <4>2, <4>3, SafeTrans DEF Down
    <3> QED
      BY <3>3, <3>4, <3>5 DEF Hows
  <2> QED
    BY <2>6, <2>8, <2>9
<1> QED
  BY <1>1, <1>2

(* A call to a store that succeeded leaves the service alone; after one    *)
(* that failed the Hub is in FAULT.                                        *)
LEMMA StoredFacts ==
    ASSUME NEW s, Fit(s), NEW r \in Stored(s)
    PROVE  /\ r.how \in Hows /\ Safe(s, r.s)
           /\ r.how = "ok" => r.s = s
           /\ r.how = "error" => Down(r.s)
<1>1. CASE r \in Done(s)
  <2>1. r = [s |-> s, how |-> "ok"]
    BY <1>1 DEF Done
  <2> QED
    BY <2>1, SafeRefl DEF Hows, Fit
<1>2. CASE r \in Regardless(LatchPersistenceFailure(s), Refused)
  <2>1. PICK q \in LatchPersistenceFailure(s) :
           r \in CASE q.how = "ok" -> Refused(q.s) [] q.how = "error" -> Refused(q.s)
                   [] OTHER -> {q}
    BY <1>2 DEF Regardless, Then
  <2>2. /\ q.how \in {"ok", "crash"} /\ Safe(s, q.s)
        /\ q.how = "ok" => Down(q.s)
    BY LatchFacts
  <2>3. CASE q.how = "ok"
    <3>1. r = [s |-> q.s, how |-> "error"]
      BY <2>1, <2>3 DEF Refused
    <3> QED
      BY <2>2, <2>3, <3>1 DEF Hows
  <2>4. CASE q.how = "crash"
    <3>1. r = q
      BY <2>1, <2>4
    <3> QED
      BY <2>2, <2>4, <3>1 DEF Hows
  <2> QED
    BY <2>2, <2>3, <2>4
<1> QED
  BY <1>1, <1>2 DEF Stored

LEMMA LoadFacts ==
    ASSUME NEW s, Fit(s), NEW r \in Load(s)
    PROVE  /\ r.how \in Hows /\ Safe(s, r.s)
           /\ r.how = "ok" => r.s = s
           /\ r.how = "error" => Down(r.s)
  BY StoredFacts DEF Load

(* Writes to the record are atomic: the process ends before or after one.  *)
LEMMA SaveFacts ==
    ASSUME NEW s, Fit(s), NEW rec \in Records, NEW r \in Save(s, rec)
    PROVE  /\ r.how \in Hows /\ Sound(r.s) /\ NotGranted(s, r.s)
           /\ Worse(s, r.s) \/ r.s.rec = rec
           /\ r.how = "ok" => r.s = [s EXCEPT !.rec = rec]
           /\ r.how = "error" => Down(r.s) /\ Worse(s, r.s)
<1> DEFINE saved == [s EXCEPT !.rec = rec]
<1>1. /\ Sound(saved) /\ saved.rec = rec /\ saved.valve = s.valve /\ saved.lease = s.lease
      /\ Sound(s) /\ Safe(s, s)
  BY RecordFacts, SafeRefl DEF Fit
<1>2. r \in {[s |-> saved, how |-> "ok"], [s |-> s, how |-> "crash"], [s |-> saved, how |-> "crash"]}
         \cup Regardless(LatchPersistenceFailure(s), Refused)
  BY DEF Save, Done, Crashed
<1>3. CASE r = [s |-> saved, how |-> "ok"]
  BY <1>1, <1>3 DEF Hows, NotGranted
<1>4. CASE r = [s |-> s, how |-> "crash"]
  BY <1>1, <1>4 DEF Hows, Safe
<1>5. CASE r = [s |-> saved, how |-> "crash"]
  BY <1>1, <1>5 DEF Hows, NotGranted
<1>6. CASE r \in Regardless(LatchPersistenceFailure(s), Refused)
  <2>1. r \in Stored(s)
    BY <1>6 DEF Stored
  <2>2. /\ r.how \in Hows /\ Safe(s, r.s)
        /\ r.how = "error" => Down(r.s)
    BY <2>1, StoredFacts
  <2>3. r.how # "ok"
    <3>1. PICK q \in LatchPersistenceFailure(s) :
             r \in CASE q.how = "ok" -> Refused(q.s) [] q.how = "error" -> Refused(q.s)
                     [] OTHER -> {q}
      BY <1>6 DEF Regardless, Then
    <3>2. q.how \in {"ok", "crash"}
      BY LatchFacts
    <3>3. CASE q.how = "ok"
      <4>1. r = [s |-> q.s, how |-> "error"]
        BY <3>1, <3>3 DEF Refused
      <4> QED
        BY <4>1
    <3>4. CASE q.how = "crash"
      <4>1. r = q
        BY <3>1, <3>4
      <4> QED
        BY <3>4, <4>1
    <3> QED
      BY <3>2, <3>3, <3>4
  <2> QED
    BY <2>2, <2>3 DEF Safe
<1> HIDE DEF saved
<1> QED
  BY <1>2, <1>3, <1>4, <1>5, <1>6

(* SUPPLY: opened and confirmed, or the service is as it was or in FAULT.  *)
LEMMA SendSupplyFacts ==
    ASSUME NEW s, Fit(s), NEW action \in {"begin", "renew"}, NEW r \in SendSupply(s, action)
    PROVE  /\ r.how \in Hows /\ Sound(r.s) /\ Worse(s, r.s)
           /\ action = "renew" /\ s.valve # "supply" => r.s.valve # "supply"
           /\ r.how = "ok" => Same(s, r.s) /\ r.s.valve = "supply" /\ r.s.last = "SUPPLY"
           /\ r.how = "error" => Same(s, r.s) \/ Down(r.s)
<1>1. CASE ~s.ready
  <2>1. r = [s |-> s, how |-> "error"]
    BY <1>1 DEF SendSupply, Refused
  <2> QED
    BY <2>1 DEF Hows, Fit, Worse, Same
<1>2. CASE s.ready
  <2>1. PICK q \in Attempt(s, action) :
           r \in CASE q.how = "ok"    -> Done(q.s)
                   [] q.how = "error" -> Regardless(Stored(q.s), Refused)
                   [] OTHER           -> {q}
    BY <1>2 DEF SendSupply, Then
  <2>2. /\ q.how \in Hows /\ Sound(q.s) /\ Same(s, q.s)
        /\ q.how = "ok" => q.s.valve = "supply" /\ q.s.last = "SUPPLY"
        /\ action = "renew" /\ s.valve # "supply" => q.s.valve # "supply"
    BY AttemptSupply DEF Fit
  <2>3. Fit(q.s) /\ Worse(s, q.s)
    BY <2>2, FitSame DEF Same, Worse
  <2>4. CASE q.how = "ok"
    <3>1. r = [s |-> q.s, how |-> "ok"]
      BY <2>1, <2>4 DEF Done
    <3> QED
      BY <2>2, <2>3, <2>4, <3>1
  <2>5. CASE q.how = "crash"
    <3>1. r = q
      BY <2>1, <2>5
    <3> QED
      BY <2>2, <2>3, <2>5, <3>1
  <2>6. CASE q.how = "error"
    <3>1. PICK e \in Stored(q.s) :
             r \in CASE e.how = "ok" -> Refused(e.s) [] e.how = "error" -> Refused(e.s)
                     [] OTHER -> {e}
      BY <2>1, <2>6 DEF Regardless, Then
    <3>2. /\ e.how \in Hows /\ Safe(q.s, e.s)
          /\ e.how = "ok" => e.s = q.s
          /\ e.how = "error" => Down(e.s)
      BY <2>3, StoredFacts
    <3>3. r.s = e.s /\ r.how = (IF e.how = "crash" THEN "crash" ELSE "error")
      BY <3>1, <3>2 DEF Refused, Hows
    <3>4. /\ Sound(e.s) /\ Worse(s, e.s)
          /\ action = "renew" /\ s.valve # "supply" => e.s.valve # "supply"
      BY <2>2, <2>3, <3>2 DEF Safe, NotGranted, Worse
    <3> QED
      BY <2>2, <3>2, <3>3, <3>4 DEF Hows
  <2> QED
    BY <2>2, <2>4, <2>5, <2>6 DEF Hows
<1> QED
  BY <1>1, <1>2

LEMMA SendDrainFacts ==
    ASSUME NEW s, Fit(s), NEW r \in SendDrain(s)
    PROVE  /\ r.how \in Hows /\ Safe(s, r.s)
           /\ r.how = "ok" => Same(s, r.s) /\ r.s.valve = "drain" /\ r.s.last = "DRAIN"
           /\ r.how = "error" => Same(s, r.s) \/ Down(r.s)
<1>1. PICK q \in Attempt(s, "drain") :
         r \in CASE q.how = "ok"    -> Done(q.s)
                 [] q.how = "error" ->
                      Then(Stored(q.s),
                           LAMBDA y : Then(Attempt(y, "drain"), Late,
                                           LAMBDA z : Regardless(Stored(z), Refused)),
                           Refused)
                 [] OTHER           -> {q}
  BY DEF SendDrain, Then
<1>2. /\ q.how \in Hows /\ Safe(s, q.s) /\ Same(s, q.s) /\ Sound(q.s)
      /\ q.how = "ok" => q.s.valve = "drain" /\ q.s.last = "DRAIN"
  BY AttemptDrain DEF Safe, Fit
<1>3. Fit(q.s)
  BY <1>2, FitSame
<1>4. CASE q.how = "ok"
  <2>1. r = [s |-> q.s, how |-> "ok"]
    BY <1>1, <1>4 DEF Done
  <2> QED
    BY <1>2, <1>4, <2>1
<1>5. CASE q.how = "crash"
  <2>1. r = q
    BY <1>1, <1>5
  <2> QED
    BY <1>2, <1>5, <2>1
<1>6. CASE q.how = "error"
  <2>1. PICK e \in Stored(q.s) :
           r \in CASE e.how = "ok"    -> Then(Attempt(e.s, "drain"), Late,
                                              LAMBDA z : Regardless(Stored(z), Refused))
                   [] e.how = "error" -> Refused(e.s)
                   [] OTHER           -> {e}
    BY <1>1, <1>6 DEF Then
  <2>2. /\ e.how \in Hows /\ Safe(q.s, e.s)
        /\ e.how = "ok" => e.s = q.s
        /\ e.how = "error" => Down(e.s)
    BY <1>3, StoredFacts
  <2>3. Safe(s, e.s)
    BY <1>2, <2>2, SafeTrans
  <2>4. CASE e.how = "error"
    <3>1. r = [s |-> e.s, how |-> "error"]
      BY <2>1, <2>4 DEF Refused
    <3> QED
      BY <2>2, <2>3, <2>4, <3>1 DEF Hows
  <2>5. CASE e.how = "crash"
    <3>1. r = e
      BY <2>1, <2>5
    <3> QED
      BY <2>2, <2>3, <2>5, <3>1
  <2>6. CASE e.how = "ok"
    <3>1. PICK a \in Attempt(q.s, "drain") :
             r \in CASE a.how = "ok"    -> Late(a.s)
                     [] a.how = "error" -> Regardless(Stored(a.s), Refused)
                     [] OTHER           -> {a}
      BY <2>1, <2>2, <2>6 DEF Then
    <3>2. a.how \in Hows /\ Safe(q.s, a.s) /\ Same(q.s, a.s) /\ Sound(a.s)
      BY <1>2, AttemptDrain DEF Safe
    <3>3. Safe(s, a.s) /\ Same(s, a.s) /\ Fit(a.s)
      BY <1>2, <3>2, SafeTrans, FitSame DEF Same
    <3>4. CASE a.how = "ok"
      <4>1. r = [s |-> [a.s EXCEPT !.ready = FALSE], how |-> "error"]
        BY <3>1, <3>4 DEF Late, Refused
      <4>2. r.s = [a.s EXCEPT !.ready = FALSE] /\ r.how = "error"
        BY <4>1
      <4>3. Sound(r.s) /\ Same(a.s, r.s) /\ r.s.valve = a.s.valve /\ r.s.lease = a.s.lease
        BY <3>2, <4>2, UnreadyFacts
      <4> QED
        BY <3>3, <4>2, <4>3 DEF Hows, Safe, NotGranted, Worse, Same
    <3>5. CASE a.how = "crash"
      <4>1. r = a
        BY <3>1, <3>5
      <4> QED
        BY <3>2, <3>3, <3>5, <4>1
    <3>6. CASE a.how = "error"
      <4>1. PICK b \in Stored(a.s) :
               r \in CASE b.how = "ok" -> Refused(b.s) [] b.how = "error" -> Refused(b.s)
                       [] OTHER -> {b}
        BY <3>1, <3>6 DEF Regardless, Then
      <4>2. /\ b.how \in Hows /\ Safe(a.s, b.s)
            /\ b.how = "ok" => b.s = a.s
            /\ b.how = "error" => Down(b.s)
        BY <3>3, StoredFacts
      <4>3. r.s = b.s /\ r.how = (IF b.how = "crash" THEN "crash" ELSE "error")
        BY <4>1, <4>2 DEF Refused, Hows
      <4>4. Safe(s, b.s)
        BY <3>3, <4>2, SafeTrans
      <4> QED
        BY <3>3, <4>2, <4>3, <4>4 DEF Hows
    <3> QED
      BY <3>2, <3>4, <3>5, <3>6 DEF Hows
  <2> QED
    BY <2>2, <2>4, <2>5, <2>6 DEF Hows
<1> QED
  BY <1>2, <1>4, <1>5, <1>6 DEF Hows

LEMMA FaultFacts ==
    ASSUME NEW s, Fit(s), NEW r \in Fault(s)
    PROVE  /\ r.how \in {"ok", "crash"} /\ Safe(s, r.s)
           /\ r.how = "ok" => Down(r.s)
<1>1. CASE s.latched
  <2>1. r = [s |-> s, how |-> "ok"]
    BY <1>1 DEF Fault, Done
  <2> QED
    BY <1>1, <2>1, SafeRefl DEF Fit
<1>2. CASE ~s.latched
  <2> DEFINE n == NoTimer(s)
             f == Decide(n, "FAULT")
             End(x) == Regardless(Stored(x), Done)
  <2>1. PICK q \in PersistFault(f) :
           r \in CASE q.how = "ok" -> End(q.s) [] q.how = "error" -> End(q.s) [] OTHER -> {q}
    BY <1>2 DEF Fault, Regardless, Then
  <2>2. Sound(n) /\ Safe(s, n) /\ ~n.timer /\ n.latched = s.latched
    BY NoTimerFacts DEF Fit
  <2> HIDE DEF n
  <2>3. f = [n EXCEPT !.state = "FAULT"]
    BY <1>2, <2>2 DEF Decide
  <2> HIDE DEF f
  <2>4. Safe(s, f) /\ Sound(f) /\ Down(f)
    BY <2>2, <2>3, SetFault, SafeTrans DEF Down
  <2>5. q.how \in {"ok", "crash"} /\ Safe(s, q.s) /\ Sound(q.s) /\ Down(q.s)
    BY <2>4, PersistFaultFacts, SafeTrans DEF Safe, Down, Faulted
  <2>6. CASE q.how = "crash"
    <3>1. r = q
      BY <2>1, <2>6
    <3> QED
      BY <2>5, <2>6, <3>1
  <2>7. CASE q.how = "ok"
    <3>1. PICK e \in Stored(q.s) :
             r \in CASE e.how = "ok" -> Done(e.s) [] e.how = "error" -> Done(e.s) [] OTHER -> {e}
      BY <2>1, <2>7 DEF Regardless, Then
    <3>2. /\ e.how \in Hows /\ Safe(q.s, e.s)
          /\ e.how = "ok" => e.s = q.s
          /\ e.how = "error" => Down(e.s)
      BY <2>5, StoredFacts DEF Fit
    <3>3. r.s = e.s /\ r.how = (IF e.how = "crash" THEN "crash" ELSE "ok")
      BY <3>1, <3>2 DEF Done, Hows
    <3> QED
      BY <2>5, <3>2, <3>3, SafeTrans DEF Hows
  <2> QED
    BY <2>5, <2>6, <2>7
<1> QED
  BY <1>1, <1>2

LEMMA AbortSupplyFacts ==
    ASSUME NEW s, Fit(s), NEW r \in AbortSupply(s)
    PROVE  /\ r.how \in {"ok", "crash"} /\ Safe(s, r.s)
           /\ r.how = "ok" => Down(r.s)
<1>1. PICK q \in SendDrain(s) :
         r \in CASE q.how = "ok" -> Fault(q.s) [] q.how = "error" -> Fault(q.s)
                 [] OTHER -> {q}
  BY DEF AbortSupply, Regardless, Then
<1>2. /\ q.how \in Hows /\ Safe(s, q.s) /\ Sound(q.s)
      /\ q.how # "crash" => Same(s, q.s) \/ Down(q.s)
  BY SendDrainFacts DEF Safe, Hows
<1>3. CASE q.how = "crash"
  <2>1. r = q
    BY <1>1, <1>3
  <2> QED
    BY <1>2, <1>3, <2>1
<1>4. CASE q.how \in {"ok", "error"}
  <2>1. r \in Fault(q.s)
    BY <1>1, <1>4
  <2>2. Fit(q.s)
    BY <1>2, <1>4, FitSame
  <2> QED
    BY <1>2, <2>1, <2>2, FaultFacts, SafeTrans
<1> QED
  BY <1>2, <1>3, <1>4 DEF Hows

-----------------------------------------------------------------------------
(* DRAIN and SUPPLY, with the record. *)

(* An open valve is on record; what keeps it shut while the process runs,  *)
(* and once it has ended.                                                  *)
Recorded(s) == s.valve = "supply" => s.rec.marker # "none" \/ s.rec.inhibited
Shut(s)     == s.rec.off \/ s.rec.inhibited \/ (Faulted(s) /\ s.rec.marker # "none")
Left(s)     == s.rec.off \/ s.rec.inhibited \/ s.rec.marker # "none"

(* A service outside of FAULT whose valve is open knows that it commanded  *)
(* SUPPLY, so the DRAIN that is left out is not needed.                    *)
Honest(s) == ~Faulted(s) /\ s.valve = "supply" => s.last = "SUPPLY"

(* What the service believes agrees with what is on record. *)
Agrees(s) ==
    Supplying(s) => /\ s.rec.marker = (IF s.state = "TIMED_SHOWER" THEN "manual" ELSE "auto")
                    /\ ~s.rec.off /\ ~s.rec.inhibited /\ s.last = "SUPPLY"

InOrder(s) ==
    /\ Fit(s) /\ Honest(s) /\ Agrees(s)
    /\ s.timer <=> s.state = "TIMED_SHOWER"

(* What holds of the record at every result of a method. *)
Keeps(s, r) ==
    /\ Sound(r.s) /\ Recorded(r.s)
    /\ Shut(s) => IF r.how = "crash" THEN Left(r.s) ELSE Shut(r.s)

LEMMA SetState ==
    ASSUME NEW s, Sound(s), NEW state \in {"MANUAL_DRAIN", "TIMED_SHOWER", "AUTO_SUPPLY"},
           NEW x, x = Decide(s, state), ~s.latched
    PROVE  /\ Sound(x) /\ x.state = state /\ x.timer = s.timer /\ x.latched = s.latched
           /\ x.rec = s.rec /\ x.last = s.last /\ x.valve = s.valve /\ x.lease = s.lease
           /\ x.left = s.left /\ ~Faulted(x)
<1>1. /\ s \in Services
      /\ state \in {"STARTING", "MANUAL_DRAIN", "TIMED_SHOWER", "AUTO_SUPPLY", "FAULT"}
      /\ x = [s EXCEPT !.state = state]
  BY DEF Sound, Decide
<1>2. x \in Services
  BY <1>1, Zenon DEF Services
<1>3. /\ x.state = state /\ x.timer = s.timer /\ x.latched = s.latched
      /\ x.rec = s.rec /\ x.last = s.last /\ x.valve = s.valve /\ x.lease = s.lease
      /\ x.left = s.left
  BY <1>1 DEF Services
<1> QED
  BY <1>2, <1>3 DEF Sound, Faulted

(* The end of a DRAIN: the marker goes only if the valve is shut or a      *)
(* fault's inhibition takes its place.                                     *)
LEMMA SettleFacts ==
    ASSUME NEW s, Fit(s), NEW r \in Settle(s)
    PROVE  /\ r.how \in {"ok", "crash"} /\ Sound(r.s) /\ NotGranted(s, r.s)
           /\ Recorded(s) /\ (s.valve # "supply" \/ Faulted(s)) => Recorded(r.s)
           /\ s.rec.off => r.s.rec.off
           /\ Shut(s) => IF r.how = "crash" THEN Left(r.s) ELSE Shut(r.s)
           /\ r.how = "ok" =>
                 Down(r.s) \/ (/\ r.s.timer = s.timer /\ r.s.valve = s.valve /\ r.s.last = s.last
                               /\ r.s.latched = s.latched
                               /\ r.s.state = IF Faulted(s) \/ s.rec.inhibited THEN s.state
                                              ELSE "MANUAL_DRAIN")
<1> DEFINE rec == [off |-> s.rec.off \/ Faulted(s), marker |-> "none",
                   inhibited |-> s.rec.inhibited \/ Faulted(s)]
           done(x) == IF Faulted(s) \/ s.rec.inhibited THEN x ELSE Decide(x, "MANUAL_DRAIN")
<1>1. s.rec \in Records /\ Sound(s)
  BY DEF Fit, Sound, Services
<1>2. rec \in Records
  BY <1>1 DEF Records, Faulted
<1>3. rec.marker = "none" /\ rec.off = (s.rec.off \/ Faulted(s)) /\ rec.inhibited = (s.rec.inhibited \/ Faulted(s))
  OBVIOUS
<1>4. ASSUME NEW x, Sound(x), x.timer = s.timer, x.valve = s.valve, x.lease = s.lease,
             x.last = s.last, x.latched = s.latched, x.state = s.state
      PROVE  LET y == done(x)
             IN  /\ Sound(y) /\ y.timer = s.timer /\ y.valve = s.valve /\ y.lease = s.lease
                 /\ y.last = s.last /\ y.latched = s.latched /\ y.rec = x.rec
                 /\ y.state = IF Faulted(s) \/ s.rec.inhibited THEN s.state ELSE "MANUAL_DRAIN"
  <2>1. CASE Faulted(s) \/ s.rec.inhibited
    BY <1>4, <2>1
  <2>2. CASE ~(Faulted(s) \/ s.rec.inhibited)
    <3>1. ~x.latched
      BY <1>4, <2>2 DEF Fit, Down
    <3>2. done(x) = Decide(x, "MANUAL_DRAIN")
      BY <2>2
    <3> HIDE DEF done
    <3>3. /\ Sound(done(x)) /\ done(x).state = "MANUAL_DRAIN" /\ done(x).timer = x.timer
          /\ done(x).latched = x.latched /\ done(x).rec = x.rec /\ done(x).last = x.last
          /\ done(x).valve = x.valve /\ done(x).lease = x.lease
      BY <1>4, <3>1, <3>2, SetState
    <3> QED
      BY <1>4, <2>2, <3>3
  <2> QED
    BY <2>1, <2>2
<1>5. CASE r \in Then(Save(s, rec), LAMBDA x : Done(done(x)), Done)
  <2>1. PICK q \in Save(s, rec) :
           r \in CASE q.how = "ok" -> Done(done(q.s)) [] q.how = "error" -> Done(q.s)
                   [] OTHER -> {q}
    BY <1>5 DEF Then
  <2> HIDE DEF rec, done
  <2>2. /\ q.how \in Hows /\ Sound(q.s) /\ NotGranted(s, q.s)
        /\ Worse(s, q.s) \/ q.s.rec = rec
        /\ q.how = "ok" => q.s = [s EXCEPT !.rec = rec]
        /\ q.how = "error" => Down(q.s) /\ Worse(s, q.s)
    BY <1>2, SaveFacts
  <2>3. /\ Recorded(s) /\ (s.valve # "supply" \/ Faulted(s)) => Recorded(q.s)
        /\ s.rec.off => q.s.rec.off
        /\ Shut(s) => Left(q.s)
    BY <1>3, <2>2 DEF Recorded, NotGranted, Worse, Shut, Left
  <2>4. CASE q.how = "crash"
    <3>1. r = q
      BY <2>1, <2>4
    <3> QED
      BY <2>2, <2>3, <2>4, <3>1
  <2>5. CASE q.how = "error"
    <3>1. r = [s |-> q.s, how |-> "ok"]
      BY <2>1, <2>5 DEF Done
    <3>2. Shut(s) => Shut(q.s)
      BY <2>2, <2>5 DEF Shut, Worse, Down
    <3> QED
      BY <2>2, <2>3, <2>5, <3>1, <3>2
  <2>6. CASE q.how = "ok"
    <3>1. r.s = done(q.s) /\ r.how = "ok"
      BY <2>1, <2>6 DEF Done
    <3>2. /\ q.s.rec = rec /\ q.s.state = s.state /\ q.s.timer = s.timer
          /\ q.s.latched = s.latched /\ q.s.last = s.last
          /\ q.s.valve = s.valve /\ q.s.lease = s.lease
      BY <1>1, <1>2, <2>2, <2>6, RecordFacts
    <3>3. /\ Sound(r.s) /\ r.s.timer = s.timer /\ r.s.valve = s.valve /\ r.s.lease = s.lease
          /\ r.s.last = s.last /\ r.s.latched = s.latched /\ r.s.rec = rec
          /\ r.s.state = IF Faulted(s) \/ s.rec.inhibited THEN s.state ELSE "MANUAL_DRAIN"
      BY <1>4, <2>2, <3>1, <3>2
    <3>4. Shut(s) => Shut(r.s)
      BY <1>3, <3>3 DEF Shut
    <3>5. Recorded(s) /\ (s.valve # "supply" \/ Faulted(s)) => Recorded(r.s)
      BY <1>3, <3>3 DEF Recorded
    <3> QED
      BY <1>3, <3>1, <3>3, <3>4, <3>5 DEF NotGranted
  <2> QED
    BY <2>2, <2>4, <2>5, <2>6 DEF Hows
<1>6. CASE r = [s |-> done(s), how |-> "ok"] /\ s.rec.marker = "none" /\ ~(Faulted(s) /\ ~s.rec.inhibited)
  <2>1. r.s = done(s) /\ r.how = "ok"
    BY <1>6
  <2> HIDE DEF done
  <2>2. /\ Sound(r.s) /\ r.s.timer = s.timer /\ r.s.valve = s.valve /\ r.s.lease = s.lease
        /\ r.s.last = s.last /\ r.s.latched = s.latched /\ r.s.rec = s.rec
        /\ r.s.state = IF Faulted(s) \/ s.rec.inhibited THEN s.state ELSE "MANUAL_DRAIN"
    BY <1>1, <1>4, <2>1
  <2> QED
    BY <1>6, <2>1, <2>2 DEF Recorded, Shut, NotGranted, Faulted
<1>7. r \in IF s.rec.marker # "none" \/ (Faulted(s) /\ ~s.rec.inhibited)
            THEN Then(Save(s, rec), LAMBDA x : Done(done(x)), Done) ELSE Done(done(s))
  BY DEF Settle
<1> HIDE DEF done, rec
<1> QED
  BY <1>5, <1>6, <1>7 DEF Done

(* A service that is down is in order, and stays down.                     *)
LEMMA DownInOrder ==
    ASSUME NEW s, Sound(s), Down(s)
    PROVE  InOrder(s) /\ Fit(s)
  BY DEF Down, InOrder, Fit, Honest, Agrees, Supplying, Faulted

(* What is lost on the way down is never the record's. *)
LEMMA SafeKeeps ==
    ASSUME NEW s, NEW x, Safe(s, x)
    PROVE  /\ Recorded(s) => Recorded(x)
           /\ Shut(s) => Left(x)
           /\ Shut(s) /\ Down(x) => Shut(x)
           /\ s.rec.off => x.rec.off
           /\ Sound(x) /\ NotGranted(s, x)
  BY DEF Safe, NotGranted, Worse, Recorded, Shut, Left, Down

LEMMA QuietlyFacts ==
    ASSUME NEW s, Sound(s), Down(s), NEW r \in Regardless(SendDrainQuietly(s), Done)
    PROVE  /\ r.how \in {"ok", "crash"} /\ Safe(s, r.s)
           /\ r.how = "ok" => Down(r.s)
<1>1. PICK q \in SendDrainQuietly(s) :
         r \in CASE q.how = "ok" -> Done(q.s) [] q.how = "error" -> Done(q.s) [] OTHER -> {q}
  BY DEF Regardless, Then
<1>2. q.how \in Hows /\ Safe(s, q.s) /\ Same(s, q.s)
  BY SendDrainQuietlyFacts
<1>3. r.s = q.s /\ r.how = (IF q.how = "crash" THEN "crash" ELSE "ok")
  BY <1>1, <1>2, Ignored
<1> QED
  BY <1>2, <1>3 DEF Same, Down, Faulted, Hows

(* The record is read again before the DRAIN is settled. *)
LEMMA LoadSettleFacts ==
    ASSUME NEW s, Fit(s), NEW r \in Then(Load(s), Settle, Done)
    PROVE  /\ r.how \in {"ok", "crash"} /\ Sound(r.s) /\ NotGranted(s, r.s)
           /\ Recorded(s) /\ (s.valve # "supply" \/ Faulted(s)) => Recorded(r.s)
           /\ s.rec.off => r.s.rec.off
           /\ Shut(s) => IF r.how = "crash" THEN Left(r.s) ELSE Shut(r.s)
           /\ r.how = "ok" =>
                 Down(r.s) \/ (/\ r.s.timer = s.timer /\ r.s.valve = s.valve /\ r.s.last = s.last
                               /\ r.s.latched = s.latched
                               /\ r.s.state = IF Faulted(s) \/ s.rec.inhibited THEN s.state
                                              ELSE "MANUAL_DRAIN")
<1>1. PICK q \in Load(s) :
         r \in CASE q.how = "ok" -> Settle(q.s) [] q.how = "error" -> Done(q.s) [] OTHER -> {q}
  BY DEF Then
<1>2. /\ q.how \in Hows /\ Safe(s, q.s)
      /\ q.how = "ok" => q.s = s
      /\ q.how = "error" => Down(q.s)
  BY LoadFacts
<1>3. CASE q.how = "ok"
  <2>1. r \in Settle(s)
    BY <1>1, <1>2, <1>3
  <2> QED
    BY <2>1, SettleFacts
<1>4. CASE q.how \in {"error", "crash"}
  <2>1. r.s = q.s /\ r.how = (IF q.how = "crash" THEN "crash" ELSE "ok")
    BY <1>1, <1>2, <1>4, Ignored
  <2>2. Shut(s) => IF r.how = "crash" THEN Left(r.s) ELSE Shut(r.s)
    BY <1>2, <1>4, <2>1, SafeKeeps
  <2> QED
    BY <1>2, <1>4, <2>1, <2>2, SafeKeeps
<1> QED
  BY <1>2, <1>3, <1>4 DEF Hows

(* A DRAIN is sent, unless nobody asked for one and it was the last command. *)
LEMMA CommandFacts ==
    ASSUME NEW s, Fit(s), NEW inhibit \in BOOLEAN,
           NEW r \in IF inhibit \/ s.last # "DRAIN" THEN SendDrain(s) ELSE Done(s)
    PROVE  /\ r.how \in Hows /\ Safe(s, r.s)
           /\ r.how # "crash" => Fit(r.s)
           /\ r.how = "ok" => /\ Same(s, r.s) /\ r.s.last = "DRAIN"
                              /\ r.s.valve = "drain" \/ (r.s = s /\ s.last = "DRAIN")
<1>1. CASE inhibit \/ s.last # "DRAIN"
  <2>1. r \in SendDrain(s)
    BY <1>1
  <2>2. /\ r.how \in Hows /\ Safe(s, r.s) /\ Sound(r.s)
        /\ r.how = "ok" => Same(s, r.s) /\ r.s.valve = "drain" /\ r.s.last = "DRAIN"
        /\ r.how = "error" => Same(s, r.s) \/ Down(r.s)
    BY <2>1, SendDrainFacts DEF Safe
  <2>3. r.how # "crash" => Fit(r.s)
    BY <2>2, FitSame DEF Hows
  <2> QED
    BY <2>2, <2>3
<1>2. CASE ~(inhibit \/ s.last # "DRAIN")
  <2>1. r = [s |-> s, how |-> "ok"] /\ s.last = "DRAIN"
    BY <1>2 DEF Done
  <2> QED
    BY <2>1, SafeRefl DEF Hows, Same, Fit
<1> QED
  BY <1>1, <1>2

(* The command and what follows it, in a service whose timer is over.      *)
LEMMA CommandedFacts ==
    ASSUME NEW s, Fit(s), NEW inhibit \in BOOLEAN, NEW n, n = NoTimer(s),
           NEW r \in Then(IF inhibit \/ n.last # "DRAIN" THEN SendDrain(n) ELSE Done(n),
                          LAMBDA z : Then(Load(z), Settle, Done), Fault)
    PROVE  /\ r.how \in {"ok", "crash"} /\ Sound(r.s) /\ NotGranted(s, r.s)
           /\ Recorded(s) /\ Honest(s) => Recorded(r.s)
           /\ s.rec.off => r.s.rec.off
           /\ Shut(s) => IF r.how = "crash" THEN Left(r.s) ELSE Shut(r.s)
           /\ r.how = "ok" =>
                 Down(r.s) \/ (/\ ~r.s.timer /\ r.s.latched = s.latched
                               /\ Honest(s) /\ ~Faulted(s) => r.s.valve # "supply"
                               /\ inhibit \/ s.last # "DRAIN" => r.s.valve = "drain"
                               /\ r.s.state = IF Faulted(s) \/ s.rec.inhibited THEN s.state
                                              ELSE "MANUAL_DRAIN")
<1>1. /\ Sound(n) /\ Safe(s, n) /\ ~n.timer /\ n.state = s.state /\ n.latched = s.latched
      /\ n.rec = s.rec /\ n.valve = s.valve /\ n.last = s.last
  BY NoTimerFacts DEF Fit
<1>2. Fit(n)
  BY <1>1 DEF Fit, Down, Faulted
<1>3. PICK q \in IF inhibit \/ n.last # "DRAIN" THEN SendDrain(n) ELSE Done(n) :
         r \in CASE q.how = "ok"    -> Then(Load(q.s), Settle, Done)
                 [] q.how = "error" -> Fault(q.s)
                 [] OTHER           -> {q}
  BY DEF Then
<1>4. /\ q.how \in Hows /\ Safe(n, q.s)
      /\ q.how # "crash" => Fit(q.s)
      /\ q.how = "ok" => /\ Same(n, q.s) /\ q.s.last = "DRAIN"
                         /\ q.s.valve = "drain" \/ (q.s = n /\ n.last = "DRAIN")
  BY <1>2, CommandFacts
<1>5. Safe(s, q.s)
  BY <1>1, <1>4, SafeTrans
<1>6. CASE q.how = "crash"
  <2>1. r = q
    BY <1>3, <1>6
  <2> QED
    BY <1>5, <1>6, <2>1, SafeKeeps
<1>7. CASE q.how = "error"
  <2>1. r \in Fault(q.s)
    BY <1>3, <1>7
  <2>2. /\ r.how \in {"ok", "crash"} /\ Safe(q.s, r.s)
        /\ r.how = "ok" => Down(r.s)
    BY <1>4, <1>7, <2>1, FaultFacts
  <2>3. Safe(s, r.s)
    BY <1>5, <2>2, SafeTrans
  <2> QED
    BY <2>2, <2>3, SafeKeeps
<1>8. CASE q.how = "ok"
  <2>1. r \in Then(Load(q.s), Settle, Done)
    BY <1>3, <1>8
  <2>2. /\ r.how \in {"ok", "crash"} /\ Sound(r.s) /\ NotGranted(q.s, r.s)
        /\ Recorded(q.s) /\ (q.s.valve # "supply" \/ Faulted(q.s)) => Recorded(r.s)
        /\ q.s.rec.off => r.s.rec.off
        /\ Shut(q.s) => IF r.how = "crash" THEN Left(r.s) ELSE Shut(r.s)
        /\ r.how = "ok" =>
              Down(r.s) \/ (/\ r.s.timer = q.s.timer /\ r.s.valve = q.s.valve /\ r.s.last = q.s.last
                            /\ r.s.latched = q.s.latched
                            /\ r.s.state = IF Faulted(q.s) \/ q.s.rec.inhibited THEN q.s.state
                                           ELSE "MANUAL_DRAIN")
    BY <1>4, <1>8, <2>1, LoadSettleFacts
  <2>3. /\ q.s.state = s.state /\ q.s.rec = s.rec /\ q.s.latched = s.latched /\ ~q.s.timer
        /\ Faulted(q.s) <=> Faulted(s)
        /\ Shut(q.s) <=> Shut(s)
    BY <1>1, <1>4, <1>8 DEF Same, Faulted, Shut
  <2>4. Honest(s) => q.s.valve # "supply" \/ Faulted(s)
    BY <1>1, <1>4, <1>8 DEF Honest
  <2>5. Recorded(s) => Recorded(q.s)
    BY <1>5, SafeKeeps
  <2>6. inhibit \/ s.last # "DRAIN" => q.s.valve = "drain"
    BY <1>1, <1>2, <1>3, <1>8, SendDrainFacts
  <2>7. NotGranted(s, r.s)
    BY <1>5, <2>2 DEF Safe, NotGranted
  <2> QED
    BY <2>2, <2>3, <2>4, <2>5, <2>6, <2>7
<1> QED
  BY <1>4, <1>6, <1>7, <1>8 DEF Hows

(* A write that keeps the marker and only inhibits. *)
LEMMA SaveWorse ==
    ASSUME NEW s, Fit(s), NEW rec \in Records, NEW r \in Save(s, rec), rec.marker = s.rec.marker,
           s.rec.off => rec.off, s.rec.inhibited => rec.inhibited
    PROVE  Safe(s, r.s)
  BY SaveFacts DEF Safe, Worse

(* How a method ends that ends in DRAIN. *)
Ended(s, x) ==
    /\ InOrder(x) /\ ~x.timer /\ ~Supplying(x)
    /\ s.timer => Faulted(x) \/ (x.state = "MANUAL_DRAIN" /\ x.valve = "drain")

LEMMA DownEnded ==
    ASSUME NEW s, NEW x, Sound(x), Down(x)
    PROVE  Ended(s, x)
  BY DownInOrder DEF Ended, Down, Faulted, Supplying

LEMMA DrainWeatherFacts ==
    ASSUME NEW s, Fit(s), NEW inhibit \in BOOLEAN, NEW r \in DrainWeather(s, inhibit)
    PROVE  /\ r.how \in {"ok", "crash"} /\ Sound(r.s) /\ NotGranted(s, r.s)
           /\ Recorded(s) /\ Honest(s) => Recorded(r.s)
           /\ Shut(s) => IF r.how = "crash" THEN Left(r.s) ELSE Shut(r.s)
           /\ InOrder(s) /\ r.how = "ok" => Ended(s, r.s)
           /\ inhibit /\ r.how = "ok" => Faulted(r.s) \/ r.s.rec.off
<1> DEFINE Quietly(x) == Regardless(SendDrainQuietly(x), Done)
           Rec(x) == [x.rec EXCEPT !.off = TRUE]
           Noted(x) == IF inhibit THEN Save(x, Rec(x)) ELSE Done(x)
           Tail(y) == Then(IF inhibit \/ NoTimer(y).last # "DRAIN" THEN SendDrain(NoTimer(y))
                           ELSE Done(NoTimer(y)),
                           LAMBDA z : Then(Load(z), Settle, Done), Fault)
<1>1. PICK q \in Load(s) :
         r \in CASE q.how = "ok"    -> Then(Noted(q.s), Tail, Quietly)
                 [] q.how = "error" -> Quietly(q.s)
                 [] OTHER           -> {q}
  BY DEF DrainWeather, Then
<1>2. /\ q.how \in Hows /\ Safe(s, q.s) /\ Sound(q.s)
      /\ q.how = "ok" => q.s = s
      /\ q.how = "error" => Down(q.s)
  BY LoadFacts DEF Safe
<1>3. ASSUME Safe(s, r.s), r.how \in {"ok", "crash"}, r.how = "ok" => Down(r.s)
      PROVE  /\ r.how \in {"ok", "crash"} /\ Sound(r.s) /\ NotGranted(s, r.s)
             /\ Recorded(s) /\ Honest(s) => Recorded(r.s)
             /\ Shut(s) => IF r.how = "crash" THEN Left(r.s) ELSE Shut(r.s)
             /\ InOrder(s) /\ r.how = "ok" => Ended(s, r.s)
             /\ inhibit /\ r.how = "ok" => Faulted(r.s) \/ r.s.rec.off
  BY <1>3, SafeKeeps, DownEnded DEF Down
<1>4. CASE q.how = "crash"
  <2>1. r = q
    BY <1>1, <1>4
  <2> QED
    BY <1>2, <1>3, <1>4, <2>1
<1>5. CASE q.how = "error"
  <2>1. r \in Quietly(q.s)
    BY <1>1, <1>5
  <2>2. /\ r.how \in {"ok", "crash"} /\ Safe(q.s, r.s)
        /\ r.how = "ok" => Down(r.s)
    BY <1>2, <1>5, <2>1, QuietlyFacts
  <2> QED
    BY <1>2, <1>3, <2>2, SafeTrans
<1>6. CASE q.how = "ok"
  <2>1. r \in Then(Noted(s), Tail, Quietly)
    BY <1>1, <1>2, <1>6
  <2>2. PICK w \in Noted(s) :
           r \in CASE w.how = "ok"    -> Tail(w.s)
                   [] w.how = "error" -> Quietly(w.s)
                   [] OTHER           -> {w}
    BY <2>1 DEF Then
  <2>3. s.rec \in Records /\ Sound(s)
    BY DEF Fit, Sound, Services
  <2>4. /\ Rec(s) \in Records /\ Rec(s).off /\ Rec(s).marker = s.rec.marker
        /\ Rec(s).inhibited = s.rec.inhibited
    BY <2>3 DEF Records
  <2> HIDE DEF Rec
  <2>5. CASE inhibit
    <3>1. w \in Save(s, Rec(s))
      BY <2>2, <2>5
    <3>2. /\ w.how \in Hows /\ Safe(s, w.s) /\ Sound(w.s)
          /\ w.how = "ok" => w.s = [s EXCEPT !.rec = Rec(s)]
          /\ w.how = "error" => Down(w.s)
      BY <2>4, <3>1, SaveFacts, SaveWorse DEF Safe
    <3>3. CASE w.how = "crash"
      <4>1. r = w
        BY <2>2, <3>3
      <4> QED
        BY <1>3, <3>2, <3>3, <4>1
    <3>4. CASE w.how = "error"
      <4>1. r \in Quietly(w.s)
        BY <2>2, <3>4
      <4>2. /\ r.how \in {"ok", "crash"} /\ Safe(w.s, r.s)
            /\ r.how = "ok" => Down(r.s)
        BY <3>2, <3>4, <4>1, QuietlyFacts
      <4> QED
        BY <1>3, <3>2, <4>2, SafeTrans
    <3>5. CASE w.how = "ok"
      <4> DEFINE y == w.s
      <4>1. /\ y.rec = Rec(s) /\ y.state = s.state /\ y.timer = s.timer /\ y.latched = s.latched
            /\ y.last = s.last /\ y.valve = s.valve /\ y.lease = s.lease
        BY <2>3, <2>4, <3>2, <3>5, RecordFacts
      <4>2. Fit(y)
        BY <3>2, <4>1 DEF Fit, Down, Faulted
      <4>3. r \in Tail(y)
        BY <2>2, <3>5
      <4> HIDE DEF y
      <4>4. /\ r.how \in {"ok", "crash"} /\ Sound(r.s) /\ NotGranted(y, r.s)
            /\ Recorded(y) /\ Honest(y) => Recorded(r.s)
            /\ y.rec.off => r.s.rec.off
            /\ Shut(y) => IF r.how = "crash" THEN Left(r.s) ELSE Shut(r.s)
            /\ r.how = "ok" =>
                  Down(r.s) \/ (/\ ~r.s.timer /\ r.s.latched = y.latched
                                /\ Honest(y) /\ ~Faulted(y) => r.s.valve # "supply"
                                /\ inhibit \/ y.last # "DRAIN" => r.s.valve = "drain"
                                /\ r.s.state = IF Faulted(y) \/ y.rec.inhibited THEN y.state
                                               ELSE "MANUAL_DRAIN")
        BY <4>2, <4>3, CommandedFacts
      <4>5. /\ Recorded(s) => Recorded(y)
            /\ Honest(s) => Honest(y)
            /\ Shut(y) /\ y.rec.off
            /\ Faulted(y) <=> Faulted(s)
            /\ NotGranted(s, r.s)
        BY <2>4, <4>1, <4>4 DEF Recorded, Honest, Shut, Faulted, NotGranted
      <4>6. ASSUME InOrder(s), r.how = "ok" PROVE Ended(s, r.s)
        <5>1. CASE Down(r.s)
          BY <4>4, <5>1, DownEnded
        <5>2. CASE ~Down(r.s)
          <6>1. /\ ~r.s.timer /\ r.s.latched = s.latched /\ r.s.valve = "drain"
                /\ r.s.state = IF Faulted(s) \/ s.rec.inhibited THEN s.state ELSE "MANUAL_DRAIN"
            BY <2>4, <2>5, <4>1, <4>4, <4>5, <4>6, <5>2
          <6>2. ~Supplying(r.s) /\ r.s.state # "TIMED_SHOWER"
            BY <4>6, <6>1 DEF InOrder, Agrees, Supplying, Faulted
          <6>3. Fit(r.s)
            BY <4>4, <4>6, <6>1 DEF InOrder, Fit, Down, Faulted
          <6>4. s.timer => r.s.state = "MANUAL_DRAIN"
            BY <4>6, <6>1 DEF InOrder, Agrees, Supplying, Faulted
          <6> QED
            BY <6>1, <6>2, <6>3, <6>4 DEF Ended, InOrder, Honest, Agrees
        <5> QED
          BY <5>1, <5>2
      <4> QED
        BY <4>4, <4>5, <4>6
    <3> QED
      BY <3>2, <3>3, <3>4, <3>5 DEF Hows
  <2>6. CASE ~inhibit
    <3>1. w = [s |-> s, how |-> "ok"]
      BY <2>2, <2>6 DEF Done
    <3>2. r \in Tail(s)
      BY <2>2, <3>1
    <3>3. /\ r.how \in {"ok", "crash"} /\ Sound(r.s) /\ NotGranted(s, r.s)
          /\ Recorded(s) /\ Honest(s) => Recorded(r.s)
          /\ s.rec.off => r.s.rec.off
          /\ Shut(s) => IF r.how = "crash" THEN Left(r.s) ELSE Shut(r.s)
          /\ r.how = "ok" =>
                Down(r.s) \/ (/\ ~r.s.timer /\ r.s.latched = s.latched
                              /\ Honest(s) /\ ~Faulted(s) => r.s.valve # "supply"
                              /\ inhibit \/ s.last # "DRAIN" => r.s.valve = "drain"
                              /\ r.s.state = IF Faulted(s) \/ s.rec.inhibited THEN s.state
                                             ELSE "MANUAL_DRAIN")
      BY <3>2, CommandedFacts
    <3>4. ASSUME InOrder(s), r.how = "ok" PROVE Ended(s, r.s)
      <4>1. CASE Down(r.s)
        BY <3>3, <4>1, DownEnded
      <4>2. CASE ~Down(r.s)
        <5>1. /\ ~r.s.timer /\ r.s.latched = s.latched
              /\ ~Faulted(s) => r.s.valve # "supply"
              /\ s.last # "DRAIN" => r.s.valve = "drain"
              /\ r.s.state = IF Faulted(s) \/ s.rec.inhibited THEN s.state ELSE "MANUAL_DRAIN"
          BY <3>3, <3>4, <4>2 DEF InOrder
        <5>2. ~Supplying(r.s) /\ r.s.state # "TIMED_SHOWER" /\ ~Faulted(r.s)
          BY <3>4, <4>2, <5>1 DEF InOrder, Agrees, Supplying, Faulted, Down
        <5>3. Fit(r.s) /\ ~Faulted(s)
          BY <3>3, <3>4, <5>1, <5>2 DEF InOrder, Fit, Down, Faulted
        <5>4. s.timer => r.s.state = "MANUAL_DRAIN" /\ s.last # "DRAIN"
          BY <3>4, <5>1, <5>3 DEF InOrder, Agrees, Supplying, Faulted
        <5> QED
          BY <5>1, <5>2, <5>3, <5>4 DEF Ended, InOrder, Honest, Agrees
      <4> QED
        BY <4>1, <4>2
    <3> QED
      BY <2>6, <3>3, <3>4
  <2> QED
    BY <2>5, <2>6
<1> QED
  BY <1>2, <1>4, <1>5, <1>6 DEF Hows

(* How a method ends that ends in SUPPLY, but for the shower's timer, which *)
(* its caller sets.                                                         *)
Supplied(s, x, marker) ==
    /\ Sound(x) /\ ~x.latched /\ x.timer = s.timer /\ x.last = "SUPPLY"
    /\ x.state = IF marker = "manual" THEN "TIMED_SHOWER" ELSE "AUTO_SUPPLY"
    /\ x.rec.marker = marker /\ ~x.rec.off /\ ~x.rec.inhibited

LEMMA SuppliedInOrder ==
    ASSUME NEW s, NEW x, NEW marker \in {"manual", "auto"}, Supplied(s, x, marker),
           s.timer <=> marker = "manual"
    PROVE  InOrder(x)
  BY DEF Supplied, InOrder, Fit, Honest, Agrees

LEMMA DispatchFacts ==
    ASSUME NEW s, InOrder(s), ~Faulted(s), NEW marker \in {"manual", "auto"}, NEW nonce \in BOOLEAN,
           s.rec.marker = marker, ~s.rec.off, ~s.rec.inhibited,
           NEW r \in Dispatch(s, marker, SupplyAction(s), nonce)
    PROVE  /\ r.how \in {"ok", "crash"} /\ Sound(r.s) /\ Recorded(r.s)
           /\ s.last = "SUPPLY" /\ s.valve # "supply" => r.s.valve # "supply"
           /\ r.how = "ok" => Ended(s, r.s) \/ Supplied(s, r.s, marker)
<1> DEFINE state == IF marker = "manual" THEN "TIMED_SHOWER" ELSE "AUTO_SUPPLY"
<1>1. Fit(s) /\ Recorded(s) /\ Honest(s) /\ Sound(s) /\ ~s.latched
  BY DEF InOrder, Fit, Recorded, Down
<1>2. CASE r \in DrainWeather(s, FALSE)
  <2>1. /\ r.how \in {"ok", "crash"} /\ Sound(r.s) /\ NotGranted(s, r.s)
        /\ Recorded(s) /\ Honest(s) => Recorded(r.s)
        /\ InOrder(s) /\ r.how = "ok" => Ended(s, r.s)
    BY <1>1, <1>2, DrainWeatherFacts
  <2> QED
    BY <1>1, <2>1 DEF NotGranted
<1>3. CASE r \in AbortSupply(s)
  <2>1. /\ r.how \in {"ok", "crash"} /\ Safe(s, r.s)
        /\ r.how = "ok" => Down(r.s)
    BY <1>1, <1>3, AbortSupplyFacts
  <2> QED
    BY <1>1, <2>1, SafeKeeps, DownEnded DEF NotGranted
<1>4. CASE r \in Then(SendSupply(s, SupplyAction(s)), LAMBDA x : Done(Decide(x, state)), AbortSupply)
  <2>1. PICK q \in SendSupply(s, SupplyAction(s)) :
           r \in CASE q.how = "ok"    -> Done(Decide(q.s, state))
                   [] q.how = "error" -> AbortSupply(q.s)
                   [] OTHER           -> {q}
    BY <1>4 DEF Then
  <2>2. /\ SupplyAction(s) \in {"begin", "renew"}
        /\ s.last = "SUPPLY" => SupplyAction(s) = "renew"
    BY DEF SupplyAction
  <2>3. /\ q.how \in Hows /\ Sound(q.s) /\ Worse(s, q.s)
        /\ SupplyAction(s) = "renew" /\ s.valve # "supply" => q.s.valve # "supply"
        /\ q.how = "ok" => Same(s, q.s) /\ q.s.valve = "supply" /\ q.s.last = "SUPPLY"
        /\ q.how = "error" => Same(s, q.s) \/ Down(q.s)
    BY <1>1, <2>2, SendSupplyFacts
  <2>4. CASE q.how = "crash"
    <3>1. r = q
      BY <2>1, <2>4
    <3> QED
      BY <2>2, <2>3, <2>4, <3>1 DEF Worse, Recorded
  <2>5. CASE q.how = "error"
    <3>1. r \in AbortSupply(q.s) /\ Fit(q.s)
      BY <1>1, <2>1, <2>3, <2>5, FitSame
    <3>2. /\ r.how \in {"ok", "crash"} /\ Safe(q.s, r.s)
          /\ r.how = "ok" => Down(r.s)
      BY <3>1, AbortSupplyFacts
    <3>3. r.s.rec.marker = marker
      BY <2>3, <3>2 DEF Safe, Worse
    <3> QED
      BY <2>2, <2>3, <3>2, <3>3, DownEnded DEF Safe, NotGranted, Recorded
  <2>6. CASE q.how = "ok"
    <3>1. r.s = Decide(q.s, state) /\ r.how = "ok"
      BY <2>1, <2>6 DEF Done
    <3>2. ~q.s.latched /\ state \in {"MANUAL_DRAIN", "TIMED_SHOWER", "AUTO_SUPPLY"}
      BY <1>1, <2>3, <2>6 DEF Same
    <3>3. /\ Sound(r.s) /\ r.s.state = state /\ r.s.timer = q.s.timer /\ r.s.latched = q.s.latched
          /\ r.s.rec = q.s.rec /\ r.s.last = q.s.last /\ r.s.valve = q.s.valve
      BY <2>3, <3>1, <3>2, SetState
    <3> QED
      BY <2>2, <2>3, <2>6, <3>1, <3>2, <3>3 DEF Same, Supplied, Recorded
  <2> QED
    BY <2>3, <2>4, <2>5, <2>6 DEF Hows
<1> QED
  BY <1>2, <1>3, <1>4 DEF Dispatch

(* SUPPLY is given only to a record without an inhibition, after its       *)
(* marker is on record; a renewal is given only to the supply on record.   *)
LEMMA WeatherSupplyFacts ==
    ASSUME NEW s, InOrder(s), Recorded(s), ~Faulted(s), NEW marker \in {"manual", "auto"},
           NEW nonce \in BOOLEAN, NEW r \in WeatherSupply(s, marker, nonce)
    PROVE  /\ r.how \in {"ok", "crash"} /\ Sound(r.s) /\ Recorded(r.s)
           /\ Shut(s) => /\ NotGranted(s, r.s)
                         /\ IF r.how = "crash" THEN Left(r.s) ELSE Shut(r.s)
           /\ s.last = "SUPPLY" /\ s.valve # "supply" => r.s.valve # "supply"
           /\ r.how = "ok" => Ended(s, r.s) \/ Supplied(s, r.s, marker)
<1> DEFINE Rec(x) == [x.rec EXCEPT !.marker = marker]
           OnLoad(x) == IF x.rec.off \/ x.rec.inhibited THEN DrainWeather(x, FALSE)
                        ELSE IF SupplyAction(x) = "begin"
                        THEN Then(Save(x, Rec(x)), LAMBDA y : Dispatch(y, marker, "begin", nonce), Done)
                        ELSE IF x.rec.marker # marker THEN AbortSupply(x)
                        ELSE Dispatch(x, marker, "renew", nonce)
<1>1. Fit(s) /\ Honest(s) /\ Sound(s) /\ ~s.latched
  BY DEF InOrder, Fit, Down
<1>2. PICK q \in Load(s) :
         r \in CASE q.how = "ok" -> OnLoad(q.s) [] q.how = "error" -> Done(q.s) [] OTHER -> {q}
  BY DEF WeatherSupply, Then
<1>3. /\ q.how \in Hows /\ Safe(s, q.s)
      /\ q.how = "ok" => q.s = s
      /\ q.how = "error" => Down(q.s)
  BY <1>1, LoadFacts
<1>4. ASSUME Safe(s, r.s), r.how \in {"ok", "crash"}, r.how = "ok" => Down(r.s)
      PROVE  /\ r.how \in {"ok", "crash"} /\ Sound(r.s) /\ Recorded(r.s)
             /\ Shut(s) => /\ NotGranted(s, r.s)
                           /\ IF r.how = "crash" THEN Left(r.s) ELSE Shut(r.s)
             /\ s.last = "SUPPLY" /\ s.valve # "supply" => r.s.valve # "supply"
             /\ r.how = "ok" => Ended(s, r.s) \/ Supplied(s, r.s, marker)
  BY <1>4, SafeKeeps, DownEnded DEF NotGranted
<1>5. CASE q.how \in {"error", "crash"}
  <2>1. r.s = q.s /\ r.how = (IF q.how = "crash" THEN "crash" ELSE "ok")
    <3>1. CASE q.how = "error"
      <4>1. r = [s |-> q.s, how |-> "ok"]
        BY <1>2, <3>1 DEF Done
      <4> QED
        BY <3>1, <4>1
    <3>2. CASE q.how = "crash"
      <4>1. r = q
        BY <1>2, <3>2
      <4> QED
        BY <3>2, <4>1
    <3> QED
      BY <1>5, <3>1, <3>2
  <2> QED
    BY <1>3, <1>4, <1>5, <2>1
<1>6. CASE q.how = "ok"
  <2>1. r \in OnLoad(s)
    BY <1>2, <1>3, <1>6
  <2>2. CASE s.rec.off \/ s.rec.inhibited
    <3>1. r \in DrainWeather(s, FALSE)
      BY <2>1, <2>2
    <3>2. /\ r.how \in {"ok", "crash"} /\ Sound(r.s) /\ NotGranted(s, r.s)
          /\ Recorded(s) /\ Honest(s) => Recorded(r.s)
          /\ Shut(s) => IF r.how = "crash" THEN Left(r.s) ELSE Shut(r.s)
          /\ InOrder(s) /\ r.how = "ok" => Ended(s, r.s)
      BY <1>1, <3>1, DrainWeatherFacts
    <3> QED
      BY <1>1, <3>2 DEF NotGranted
  <2>3. CASE ~s.rec.off /\ ~s.rec.inhibited
    <3>1. ~Shut(s)
      BY <2>3 DEF Shut
    <3>2. CASE SupplyAction(s) = "begin"
      <4>1. r \in Then(Save(s, Rec(s)), LAMBDA y : Dispatch(y, marker, "begin", nonce), Done)
        BY <2>1, <2>3, <3>2
      <4>2. PICK w \in Save(s, Rec(s)) :
               r \in CASE w.how = "ok"    -> Dispatch(w.s, marker, "begin", nonce)
                       [] w.how = "error" -> Done(w.s)
                       [] OTHER           -> {w}
        BY <4>1 DEF Then
      <4>3. s.rec \in Records
        BY <1>1 DEF Sound, Services
      <4>4. /\ Rec(s) \in Records /\ Rec(s).marker = marker
            /\ Rec(s).off = s.rec.off /\ Rec(s).inhibited = s.rec.inhibited
        BY <4>3 DEF Records
      <4> HIDE DEF Rec
      <4>5. /\ w.how \in Hows /\ Sound(w.s) /\ NotGranted(s, w.s)
            /\ Worse(s, w.s) \/ w.s.rec = Rec(s)
            /\ w.how = "ok" => w.s = [s EXCEPT !.rec = Rec(s)]
            /\ w.how = "error" => Down(w.s) /\ Worse(s, w.s)
        BY <1>1, <4>2, <4>4, SaveFacts
      <4>6. /\ Recorded(w.s)
            /\ s.last = "SUPPLY" /\ s.valve # "supply" => w.s.valve # "supply"
        BY <4>4, <4>5 DEF Recorded, NotGranted, Worse
      <4>7. CASE w.how = "crash"
        <5>1. r = w
          BY <4>2, <4>7
        <5> QED
          BY <3>1, <4>5, <4>6, <4>7, <5>1
      <4>8. CASE w.how = "error"
        <5>1. r = [s |-> w.s, how |-> "ok"]
          BY <4>2, <4>8 DEF Done
        <5> QED
          BY <3>1, <4>5, <4>6, <4>8, <5>1, DownEnded
      <4>9. CASE w.how = "ok"
        <5> DEFINE y == w.s
        <5>1. /\ y.rec = Rec(s) /\ y.state = s.state /\ y.timer = s.timer /\ y.left = s.left
              /\ y.latched = s.latched /\ y.last = s.last /\ y.valve = s.valve
          BY <1>1, <4>4, <4>5, <4>9, RecordFacts
        <5>2. s.last # "SUPPLY" /\ SupplyAction(y) = "begin"
          BY <3>2, <5>1 DEF SupplyAction
        <5>3. r \in Dispatch(y, marker, SupplyAction(y), nonce)
          BY <4>2, <4>9, <5>2
        <5>4. InOrder(y) /\ ~Faulted(y)
          BY <1>1, <4>5, <5>1, <5>2 DEF InOrder, Fit, Honest, Agrees, Supplying, Faulted, Down
        <5> HIDE DEF y
        <5>5. /\ r.how \in {"ok", "crash"} /\ Sound(r.s) /\ Recorded(r.s)
              /\ r.how = "ok" => Ended(y, r.s) \/ Supplied(y, r.s, marker)
          BY <2>3, <4>4, <5>1, <5>3, <5>4, DispatchFacts
        <5>6. r.how = "ok" => Ended(s, r.s) \/ Supplied(s, r.s, marker)
          BY <5>1, <5>5 DEF Ended, Supplied
        <5> QED
          BY <3>1, <5>2, <5>5, <5>6
      <4> QED
        BY <4>5, <4>7, <4>8, <4>9 DEF Hows
    <3>3. CASE SupplyAction(s) # "begin" /\ s.rec.marker # marker
      <4>1. r \in AbortSupply(s)
        BY <2>1, <2>3, <3>3
      <4>2. /\ r.how \in {"ok", "crash"} /\ Safe(s, r.s)
            /\ r.how = "ok" => Down(r.s)
        BY <1>1, <4>1, AbortSupplyFacts
      <4> QED
        BY <1>4, <4>2
    <3>4. CASE SupplyAction(s) # "begin" /\ s.rec.marker = marker
      <4>1. SupplyAction(s) = "renew"
        BY <3>4 DEF SupplyAction
      <4>2. r \in Dispatch(s, marker, SupplyAction(s), nonce)
        BY <2>1, <2>3, <3>4, <4>1
      <4> QED
        BY <2>3, <3>1, <3>4, <4>2, DispatchFacts
    <3> QED
      BY <3>2, <3>3, <3>4
  <2> QED
    BY <2>2, <2>3
<1> QED
  BY <1>3, <1>5, <1>6 DEF Hows

-----------------------------------------------------------------------------
(* The methods. *)

(* What a method leaves behind if it returns: a service in order, and DRAIN *)
(* or FAULT where a shower was.                                             *)
Orderly(s, x) ==
    /\ InOrder(x)
    /\ s.timer /\ ~x.timer => Faulted(x) \/ (x.state = "MANUAL_DRAIN" /\ x.valve = "drain")

(* What no method does but a person's START. *)
Unbidden(s, x) == Shut(s) => NotGranted(s, x)

(* Nor does it make good a renewal that is refused. *)
Unrenewed(s, x) == s.last = "SUPPLY" /\ s.valve # "supply" => x.valve # "supply"

Turns(s, r) ==
    /\ r.how \in Hows /\ Keeps(s, r) /\ Unbidden(s, r.s) /\ Unrenewed(s, r.s)
    /\ r.how # "crash" => Orderly(s, r.s)

LEMMA StayTurns ==
    ASSUME NEW s, InOrder(s), Recorded(s), NEW r, r.s = s, r.how \in Hows
    PROVE  Turns(s, r)
<1>1. Sound(s)
  BY DEF InOrder, Fit
<1>2. Shut(s) => Left(s)
  BY DEF Shut, Left
<1> QED
  BY <1>1, <1>2 DEF Turns, Keeps, Unbidden, Unrenewed, NotGranted, Orderly

LEMMA SafeTurns ==
    ASSUME NEW s, Recorded(s), NEW r, r.how \in Hows, Safe(s, r.s), r.how # "crash" => Down(r.s)
    PROVE  Turns(s, r)
<1>1. /\ Recorded(r.s) /\ Sound(r.s) /\ NotGranted(s, r.s)
      /\ Shut(s) => Left(r.s)
      /\ Shut(s) /\ r.how # "crash" => Shut(r.s)
  BY SafeKeeps
<1>2. r.how # "crash" => Orderly(s, r.s)
  BY <1>1, DownInOrder DEF Orderly, Down
<1> QED
  BY <1>1, <1>2 DEF Turns, Keeps, Unbidden, Unrenewed, NotGranted

(* A failure after a method has done its work. *)
LEMMA TurnsThenFalls ==
    ASSUME NEW s, NEW q, Turns(s, q), q.how # "crash",
           NEW r, r.how \in Hows, Safe(q.s, r.s), r.how # "crash" => Down(r.s)
    PROVE  Turns(s, r)
<1>1. /\ Recorded(q.s) /\ Unbidden(s, q.s) /\ Unrenewed(s, q.s)
      /\ Shut(s) => Shut(q.s)
  BY DEF Turns, Keeps
<1>2. Turns(q.s, r) /\ Sound(r.s) /\ NotGranted(q.s, r.s)
  BY <1>1, SafeTurns, SafeKeeps
<1>3. Keeps(s, r)
  BY <1>1, <1>2 DEF Turns, Keeps
<1>4. r.how # "crash" => Orderly(s, r.s)
  BY <1>2, DownInOrder DEF Orderly, Down
<1>5. Unbidden(s, r.s) /\ Unrenewed(s, r.s)
  BY <1>1, <1>2 DEF Unbidden, Unrenewed, NotGranted
<1> QED
  BY <1>3, <1>4, <1>5 DEF Turns

LEMMA DrainTurns ==
    ASSUME NEW s, InOrder(s), Recorded(s), NEW inhibit \in BOOLEAN, NEW r \in DrainWeather(s, inhibit)
    PROVE  /\ Turns(s, r) /\ NotGranted(s, r.s)
           /\ r.how = "ok" => Ended(s, r.s)
           /\ r.how \in {"ok", "crash"}
           /\ inhibit /\ r.how = "ok" => Faulted(r.s) \/ r.s.rec.off
<1>1. Fit(s) /\ Honest(s)
  BY DEF InOrder
<1>2. /\ r.how \in {"ok", "crash"} /\ Sound(r.s) /\ NotGranted(s, r.s)
      /\ Recorded(s) /\ Honest(s) => Recorded(r.s)
      /\ Shut(s) => IF r.how = "crash" THEN Left(r.s) ELSE Shut(r.s)
      /\ InOrder(s) /\ r.how = "ok" => Ended(s, r.s)
      /\ inhibit /\ r.how = "ok" => Faulted(r.s) \/ r.s.rec.off
  BY <1>1, DrainWeatherFacts
<1>3. Keeps(s, r) /\ Unbidden(s, r.s) /\ Unrenewed(s, r.s)
  BY <1>1, <1>2 DEF Keeps, Unbidden, Unrenewed, NotGranted
<1>4. r.how # "crash" => Orderly(s, r.s)
  BY <1>2 DEF Ended, Orderly
<1> QED
  BY <1>2, <1>3, <1>4 DEF Turns, Hows

LEMMA SupplyTurns ==
    ASSUME NEW s, InOrder(s), Recorded(s), ~Faulted(s), NEW marker,
           marker = IF s.timer THEN "manual" ELSE "auto",
           NEW nonce \in BOOLEAN, NEW r \in WeatherSupply(s, marker, nonce)
    PROVE  Turns(s, r)
<1>1. /\ r.how \in {"ok", "crash"} /\ Sound(r.s) /\ Recorded(r.s)
      /\ Shut(s) => /\ NotGranted(s, r.s)
                    /\ IF r.how = "crash" THEN Left(r.s) ELSE Shut(r.s)
      /\ s.last = "SUPPLY" /\ s.valve # "supply" => r.s.valve # "supply"
      /\ r.how = "ok" => Ended(s, r.s) \/ Supplied(s, r.s, marker)
  BY WeatherSupplyFacts
<1>2. Supplied(s, r.s, marker) => InOrder(r.s) /\ r.s.timer = s.timer
  BY SuppliedInOrder DEF Supplied
<1>3. r.how # "crash" => Orderly(s, r.s)
  BY <1>1, <1>2 DEF Ended, Orderly
<1> QED
  BY <1>1, <1>3 DEF Turns, Keeps, Unbidden, Unrenewed, Hows

(* A record with a fault's inhibition on it: DRAIN and FAULT. *)
LEMMA InhibitedTurns ==
    ASSUME NEW s, InOrder(s), Recorded(s), s.rec.inhibited,
           NEW r \in Regardless(SendDrain(s), LAMBDA y : Done(Decide(y, "FAULT")))
    PROVE  Turns(s, r)
<1>1. PICK q \in SendDrain(s) :
         r \in CASE q.how = "ok"    -> Done(Decide(q.s, "FAULT"))
                 [] q.how = "error" -> Done(Decide(q.s, "FAULT"))
                 [] OTHER           -> {q}
  BY DEF Regardless, Then
<1>2. Fit(s) /\ ~s.timer
  BY DEF InOrder, Agrees, Supplying
<1>3. /\ q.how \in Hows /\ Safe(s, q.s) /\ Sound(q.s)
      /\ q.how # "crash" => Same(s, q.s) \/ Down(q.s)
  BY <1>2, SendDrainFacts DEF Safe, Hows
<1>4. CASE q.how = "crash"
  <2>1. r = q
    BY <1>1, <1>4
  <2> QED
    BY <1>3, <1>4, <2>1, SafeTurns
<1>5. CASE q.how # "crash"
  <2>1. r = [s |-> Decide(q.s, "FAULT"), how |-> "ok"]
    BY <1>1, <1>3, <1>5 DEF Done, Hows
  <2>2. r.s = [q.s EXCEPT !.state = "FAULT"] /\ r.how = "ok"
    BY <2>1 DEF Decide
  <2>3. Safe(q.s, r.s) /\ Faulted(r.s) /\ r.s.timer = q.s.timer
    BY <1>3, <2>2, SetFault
  <2>4. Safe(s, r.s) /\ Down(r.s)
    BY <1>2, <1>3, <1>5, <2>3, SafeTrans DEF Same, Down
  <2> QED
    BY <2>2, <2>4, SafeTurns DEF Hows
<1> QED
  BY <1>4, <1>5

LEMMA RunWeatherTurns ==
    ASSUME NEW s, InOrder(s), Recorded(s), NEW verdicts \in SUBSET BOOLEAN,
           NEW r \in RunWeather(s, verdicts)
    PROVE  Turns(s, r)
<1> DEFINE Decided(y) == IF y.timer
                         THEN IF Expired(y) THEN DrainWeather(y, FALSE)
                              ELSE WeatherSupply(y, "manual", FALSE)
                         ELSE UNION {IF ~y.rec.off /\ eligible THEN WeatherSupply(y, "auto", FALSE)
                                     ELSE DrainWeather(y, FALSE) : eligible \in verdicts}
           Loaded(x) == IF x.rec.inhibited
                        THEN Regardless(SendDrain(x), LAMBDA y : Done(Decide(y, "FAULT")))
                        ELSE Then(Load(x), Decided, Done)
<1>1. Fit(s)
  BY DEF InOrder
<1>2. CASE Faulted(s) \/ ~s.started
  <2>1. r = [s |-> s, how |-> "ok"]
    BY <1>2 DEF RunWeather, Done
  <2> QED
    BY <2>1, StayTurns DEF Hows
<1>3. CASE ~(Faulted(s) \/ ~s.started)
  <2>1. PICK q \in Load(s) :
           r \in CASE q.how = "ok" -> Loaded(q.s) [] q.how = "error" -> Done(q.s) [] OTHER -> {q}
    BY <1>3 DEF RunWeather, Then
  <2>2. /\ q.how \in Hows /\ Safe(s, q.s)
        /\ q.how = "ok" => q.s = s
        /\ q.how = "error" => Down(q.s)
    BY <1>1, LoadFacts
  <2>3. CASE q.how = "error"
    <3>1. r = [s |-> q.s, how |-> "ok"]
      BY <2>1, <2>3 DEF Done
    <3> QED
      BY <2>2, <2>3, <3>1, SafeTurns DEF Hows
  <2>4. CASE q.how = "crash"
    <3>1. r = q
      BY <2>1, <2>4
    <3> QED
      BY <2>2, <2>4, <3>1, SafeTurns
  <2>5. CASE q.how = "ok"
    <3>1. r \in Loaded(s)
      BY <2>1, <2>2, <2>5
    <3>2. CASE s.rec.inhibited
      BY <3>1, <3>2, InhibitedTurns
    <3>3. CASE ~s.rec.inhibited
      <4>1. PICK p \in Load(s) :
               r \in CASE p.how = "ok" -> Decided(p.s) [] p.how = "error" -> Done(p.s)
                       [] OTHER -> {p}
        BY <3>1, <3>3 DEF Then
      <4>2. /\ p.how \in Hows /\ Safe(s, p.s)
            /\ p.how = "ok" => p.s = s
            /\ p.how = "error" => Down(p.s)
        BY <1>1, LoadFacts
      <4>3. CASE p.how = "error"
        <5>1. r = [s |-> p.s, how |-> "ok"]
          BY <4>1, <4>3 DEF Done
        <5> QED
          BY <4>2, <4>3, <5>1, SafeTurns DEF Hows
      <4>4. CASE p.how = "crash"
        <5>1. r = p
          BY <4>1, <4>4
        <5> QED
          BY <4>2, <4>4, <5>1, SafeTurns
      <4>5. CASE p.how = "ok"
        <5>1. r \in Decided(s)
          BY <4>1, <4>2, <4>5
        <5>2. CASE s.timer
          <6>1. r \in DrainWeather(s, FALSE) \/ r \in WeatherSupply(s, "manual", FALSE)
            BY <5>1, <5>2
          <6> QED
            BY <1>3, <5>2, <6>1, DrainTurns, SupplyTurns
        <5>3. CASE ~s.timer
          <6>1. r \in DrainWeather(s, FALSE) \/ r \in WeatherSupply(s, "auto", FALSE)
            BY <5>1, <5>3
          <6> QED
            BY <1>3, <5>3, <6>1, DrainTurns, SupplyTurns
        <5> QED
          BY <5>2, <5>3
      <4> QED
        BY <4>2, <4>3, <4>4, <4>5 DEF Hows
    <3> QED
      BY <3>2, <3>3
  <2> QED
    BY <2>2, <2>3, <2>4, <2>5 DEF Hows
<1> QED
  BY <1>2, <1>3

(* A change of what none of the properties tells apart. *)
Alike(s, x) == Sound(x) /\ Same(s, x) /\ x.last = s.last /\ x.valve = s.valve /\ x.lease = s.lease

LEMMA AlikeTurns ==
    ASSUME NEW s, NEW x, InOrder(s), Recorded(s), Alike(s, x)
    PROVE  InOrder(x) /\ Recorded(x) /\ \A r : Turns(x, r) => Turns(s, r)
<1>1. InOrder(x) /\ Recorded(x)
  BY DEF Alike, Same, InOrder, Fit, Honest, Agrees, Supplying, Faulted, Down, Recorded
<1>2. /\ Shut(s) <=> Shut(x)
      /\ s.timer = x.timer /\ s.valve = x.valve /\ s.lease = x.lease /\ s.last = x.last
  BY DEF Alike, Same, Shut, Faulted
<1> QED
  BY <1>1, <1>2 DEF Turns, Keeps, Unbidden, Unrenewed, NotGranted, Orderly

LEMMA StartedAlike ==
    ASSUME NEW s, Sound(s), NEW b \in BOOLEAN, NEW x, x = [s EXCEPT !.started = b]
    PROVE  Alike(s, x)
<1>1. s \in Services
  BY DEF Sound
<1>2. x \in Services
  BY <1>1, Zenon DEF Services
<1>3. Same(s, x) /\ x.last = s.last /\ x.valve = s.valve /\ x.lease = s.lease
  BY <1>1 DEF Services, Same
<1> QED
  BY <1>2, <1>3 DEF Sound, Alike, Same

LEMMA LimitAlike ==
    ASSUME NEW s, Sound(s), NEW limit \in Durations, NEW x, x = [s EXCEPT !.limit = limit]
    PROVE  Alike(s, x)
<1>1. s \in Services
  BY DEF Sound
<1>2. x \in Services
  BY <1>1, Zenon DEF Services
<1>3. Same(s, x) /\ x.last = s.last /\ x.valve = s.valve /\ x.lease = s.lease
  BY <1>1 DEF Services, Same
<1> QED
  BY <1>2, <1>3 DEF Sound, Alike, Same

LEMMA UpdateSettingsTurns ==
    ASSUME NEW s, InOrder(s), Recorded(s), NEW limit \in Durations,
           NEW r \in UpdateSettings(s, limit)
    PROVE  Turns(s, r)
<1> DEFINE l == [s EXCEPT !.limit = limit]
           After(x) == IF ~x.timer THEN RunWeather(x, Verdicts)
                       ELSE IF limit < x.duration THEN DrainWeather(x, TRUE) ELSE Done(x)
<1>1. InOrder(l) /\ Recorded(l) /\ Fit(l) /\ \A q : Turns(l, q) => Turns(s, q)
  BY LimitAlike, AlikeTurns DEF InOrder, Fit
<1>2. PICK q \in Stored(l) :
         r \in CASE q.how = "ok" -> After(q.s) [] q.how = "error" -> Done(q.s) [] OTHER -> {q}
  BY DEF UpdateSettings, Then
<1> HIDE DEF l
<1>3. /\ q.how \in Hows /\ Safe(l, q.s)
      /\ q.how = "ok" => q.s = l
      /\ q.how = "error" => Down(q.s)
  BY <1>1, StoredFacts
<1>4. CASE q.how = "error"
  <2>1. r = [s |-> q.s, how |-> "ok"]
    BY <1>2, <1>4 DEF Done
  <2> QED
    BY <1>1, <1>3, <1>4, <2>1, SafeTurns DEF Hows
<1>5. CASE q.how = "crash"
  <2>1. r = q
    BY <1>2, <1>5
  <2> QED
    BY <1>1, <1>3, <1>5, <2>1, SafeTurns
<1>6. CASE q.how = "ok"
  <2>1. r \in RunWeather(l, BOOLEAN) \/ r \in DrainWeather(l, TRUE) \/ r = [s |-> l, how |-> "ok"]
    BY <1>2, <1>3, <1>6 DEF Done, Verdicts
  <2>2. CASE r \in RunWeather(l, BOOLEAN)
    BY <1>1, <2>2, RunWeatherTurns
  <2>3. CASE r \in DrainWeather(l, TRUE)
    BY <1>1, <2>3, DrainTurns
  <2>4. CASE r = [s |-> l, how |-> "ok"]
    <3>1. r.s = l /\ r.how \in Hows
      BY <2>4 DEF Hows
    <3> QED
      BY <1>1, <3>1, StayTurns
  <2> QED
    BY <2>1, <2>2, <2>3, <2>4
<1> QED
  BY <1>3, <1>4, <1>5, <1>6 DEF Hows

LEMMA UpdateWeatherSettingsTurns ==
    ASSUME NEW s, InOrder(s), Recorded(s), NEW r \in UpdateWeatherSettings(s)
    PROVE  Turns(s, r)
<1>1. PICK q \in Stored(s) :
         r \in CASE q.how = "ok" -> RunWeather(q.s, Verdicts) [] q.how = "error" -> Refused(q.s)
                 [] OTHER -> {q}
  BY DEF UpdateWeatherSettings, Then
<1>2. /\ q.how \in Hows /\ Safe(s, q.s)
      /\ q.how = "ok" => q.s = s
      /\ q.how = "error" => Down(q.s)
  BY StoredFacts DEF InOrder
<1>3. CASE q.how = "error"
  <2>1. r = [s |-> q.s, how |-> "error"]
    BY <1>1, <1>3 DEF Refused
  <2> QED
    BY <1>2, <1>3, <2>1, SafeTurns DEF Hows
<1>4. CASE q.how = "crash"
  <2>1. r = q
    BY <1>1, <1>4
  <2> QED
    BY <1>2, <1>4, <2>1, SafeTurns
<1>5. CASE q.how = "ok"
  <2>1. r \in RunWeather(s, BOOLEAN)
    BY <1>1, <1>2, <1>5 DEF Verdicts
  <2> QED
    BY <2>1, RunWeatherTurns
<1> QED
  BY <1>2, <1>3, <1>4, <1>5 DEF Hows

LEMMA StatusTurns ==
    ASSUME NEW s, InOrder(s), Recorded(s), NEW r \in Status(s)
    PROVE  Turns(s, r)
<1> DEFINE Seen(x) == Regardless(Stored(x), Done)
<1>1. PICK q \in IF s.timer /\ Expired(s) THEN DrainWeather(s, FALSE) ELSE Done(s) :
         r \in CASE q.how = "ok" -> Seen(q.s) [] q.how = "error" -> Seen(q.s) [] OTHER -> {q}
  BY DEF Status, Regardless, Then
<1>2. Turns(s, q) /\ q.how \in {"ok", "crash"}
  <2>1. CASE q \in DrainWeather(s, FALSE)
    BY <2>1, DrainTurns
  <2>2. CASE q = [s |-> s, how |-> "ok"]
    <3>1. q.s = s /\ q.how = "ok"
      BY <2>2
    <3> QED
      BY <3>1, StayTurns DEF Hows
  <2> QED
    BY <1>1, <2>1, <2>2 DEF Done
<1>3. CASE q.how = "crash"
  <2>1. r = q
    BY <1>1, <1>3
  <2> QED
    BY <1>2, <2>1
<1>4. CASE q.how = "ok"
  <2>1. InOrder(q.s) /\ Fit(q.s)
    BY <1>2, <1>4 DEF Turns, Orderly, InOrder
  <2>2. PICK p \in Stored(q.s) :
           r \in CASE p.how = "ok" -> Done(p.s) [] p.how = "error" -> Done(p.s) [] OTHER -> {p}
    BY <1>1, <1>4 DEF Regardless, Then
  <2>3. /\ p.how \in Hows /\ Safe(q.s, p.s)
        /\ p.how = "ok" => p.s = q.s
        /\ p.how = "error" => Down(p.s)
    BY <2>1, StoredFacts
  <2>4. r.s = p.s /\ r.how = (IF p.how = "crash" THEN "crash" ELSE "ok")
    BY <2>2, <2>3, Ignored
  <2>5. CASE p.how = "ok"
    BY <1>2, <1>4, <2>3, <2>4, <2>5 DEF Turns, Keeps, Hows
  <2>6. CASE p.how # "ok"
    <3>1. r.how \in Hows /\ Safe(q.s, r.s) /\ (r.how # "crash" => Down(r.s))
      BY <2>3, <2>4, <2>6 DEF Hows
    <3> QED
      BY <1>2, <1>4, <3>1, TurnsThenFalls
  <2> QED
    BY <2>5, <2>6
<1> QED
  BY <1>2, <1>3, <1>4

LEMMA StoreFailsTurns ==
    ASSUME NEW s, InOrder(s), Recorded(s), NEW r \in LatchPersistenceFailure(s)
    PROVE  Turns(s, r)
<1>1. /\ r.how \in {"ok", "crash"} /\ Safe(s, r.s)
      /\ r.how = "ok" => Down(r.s)
  BY LatchFacts DEF InOrder
<1> QED
  BY <1>1, SafeTurns DEF Hows

(* A fault is left only for MANUAL_DRAIN, with the user's inhibition on    *)
(* record.                                                                 *)
LEMMA ClearFaultTurns ==
    ASSUME NEW s, InOrder(s), Recorded(s), NEW r \in ClearFault(s)
    PROVE  /\ Turns(s, r)
           /\ r.how # "crash" /\ Faulted(s) => Faulted(r.s) \/ r.s.rec.off
<1> DEFINE rec == [off |-> TRUE, inhibited |-> FALSE, marker |-> "none"]
           Cleared(y) == Then(Save(y, rec), LAMBDA z : Done(Decide(z, "MANUAL_DRAIN")), Done)
           Drn(x) == Then(Load(x), Cleared, Done)
<1>1. CASE ~Faulted(s) \/ s.latched
  <2>1. r = [s |-> s, how |-> "ok"]
    BY <1>1 DEF ClearFault, Done
  <2> QED
    BY <2>1, <1>1, StayTurns DEF Hows, InOrder, Fit, Down
<1>2. CASE Faulted(s) /\ ~s.latched
  <2>1. PICK q \in SendDrain(s) :
           r \in CASE q.how = "ok" -> Drn(q.s) [] q.how = "error" -> Done(q.s) [] OTHER -> {q}
    BY <1>2 DEF ClearFault, Then
  <2>2. Fit(s) /\ Down(s)
    BY <1>2 DEF InOrder, Down, Faulted
  <2>3. /\ q.how \in Hows /\ Safe(s, q.s) /\ Sound(q.s)
        /\ q.how = "ok" => Same(s, q.s) /\ q.s.valve = "drain" /\ q.s.last = "DRAIN"
        /\ q.how = "error" => Down(q.s)
    BY <2>2, SendDrainFacts DEF Safe, Same, Down, Faulted
  <2>4. ASSUME r.how \in Hows, Safe(s, r.s), r.how # "crash" => Down(r.s)
        PROVE  /\ Turns(s, r)
               /\ r.how # "crash" /\ Faulted(s) => Faulted(r.s) \/ r.s.rec.off
    BY <2>4, SafeTurns DEF Down
  <2>5. CASE q.how = "error"
    <3>1. r = [s |-> q.s, how |-> "ok"]
      BY <2>1, <2>5 DEF Done
    <3> QED
      BY <2>3, <2>4, <2>5, <3>1 DEF Hows
  <2>6. CASE q.how = "crash"
    <3>1. r = q
      BY <2>1, <2>6
    <3> QED
      BY <2>3, <2>4, <2>6, <3>1
  <2>7. CASE q.how = "ok"
    <3>1. r \in Drn(q.s)
      BY <2>1, <2>7
    <3>2. Down(q.s) /\ ~q.s.latched /\ Fit(q.s)
      BY <1>2, <2>2, <2>3, <2>7 DEF Same, Down, Faulted, Fit
    <3>3. PICK p \in Load(q.s) :
             r \in CASE p.how = "ok" -> Cleared(p.s) [] p.how = "error" -> Done(p.s)
                     [] OTHER -> {p}
      BY <3>1 DEF Then
    <3>4. /\ p.how \in Hows /\ Safe(q.s, p.s)
          /\ p.how = "ok" => p.s = q.s
          /\ p.how = "error" => Down(p.s)
      BY <3>2, LoadFacts
    <3>5. Safe(s, p.s)
      BY <2>3, <3>4, SafeTrans
    <3>6. CASE p.how = "error"
      <4>1. r = [s |-> p.s, how |-> "ok"]
        BY <3>3, <3>6 DEF Done
      <4> QED
        BY <2>4, <3>4, <3>5, <3>6, <4>1 DEF Hows
    <3>7. CASE p.how = "crash"
      <4>1. r = p
        BY <3>3, <3>7
      <4> QED
        BY <2>4, <3>4, <3>5, <3>7, <4>1
    <3>8. CASE p.how = "ok"
      <4>1. rec \in Records /\ rec.off /\ ~rec.inhibited
        BY DEF Records
      <4>2. PICK w \in Save(q.s, rec) :
               r \in CASE w.how = "ok" -> Done(Decide(w.s, "MANUAL_DRAIN"))
                       [] w.how = "error" -> Done(w.s) [] OTHER -> {w}
        BY <3>3, <3>4, <3>8 DEF Then
      <4> HIDE DEF rec
      <4>3. /\ w.how \in Hows /\ Sound(w.s) /\ NotGranted(q.s, w.s)
            /\ Worse(q.s, w.s) \/ w.s.rec = rec
            /\ w.how = "ok" => w.s = [q.s EXCEPT !.rec = rec]
            /\ w.how = "error" => Down(w.s) /\ Worse(q.s, w.s)
        BY <3>2, <4>1, <4>2, SaveFacts
      <4>4. /\ Recorded(w.s) /\ w.s.valve # "supply"
            /\ Shut(s) => Left(w.s)
        BY <2>3, <2>7, <4>1, <4>3, SafeKeeps DEF Recorded, NotGranted, Worse, Left, Shut, Same
      <4>5. CASE w.how = "error"
        <5>1. r = [s |-> w.s, how |-> "ok"]
          BY <4>2, <4>5 DEF Done
        <5>2. Safe(s, w.s)
          BY <2>3, <4>3, <4>5, SafeTrans DEF Safe
        <5> QED
          BY <2>4, <4>3, <4>5, <5>1, <5>2 DEF Hows
      <4>6. CASE w.how = "crash"
        <5>1. r = w
          BY <4>2, <4>6
        <5> QED
          BY <4>3, <4>4, <4>6, <5>1 DEF Turns, Keeps, Unbidden, Unrenewed, NotGranted
      <4>7. CASE w.how = "ok"
        <5>1. r.s = Decide(w.s, "MANUAL_DRAIN") /\ r.how = "ok"
          BY <4>2, <4>7 DEF Done
        <5>2. /\ w.s.rec = rec /\ w.s.timer = q.s.timer /\ w.s.latched = q.s.latched
              /\ w.s.valve = q.s.valve /\ w.s.last = q.s.last
          BY <2>3, <4>1, <4>3, <4>7, RecordFacts
        <5>3. /\ Sound(r.s) /\ r.s.state = "MANUAL_DRAIN" /\ r.s.timer = w.s.timer
              /\ r.s.latched = w.s.latched /\ r.s.rec = w.s.rec /\ r.s.valve = w.s.valve
          BY <3>2, <4>3, <5>1, <5>2, SetState
        <5>4. /\ ~r.s.timer /\ ~r.s.latched /\ r.s.rec.off /\ r.s.valve = "drain"
          BY <2>7, <2>3, <3>2, <4>1, <5>2, <5>3 DEF Down
        <5>5. InOrder(r.s)
          BY <5>3, <5>4 DEF InOrder, Fit, Honest, Agrees, Supplying
        <5>6. ~s.timer /\ Recorded(r.s) /\ Shut(r.s)
          BY <2>2, <5>4 DEF Down, Recorded, Shut
        <5> QED
          BY <5>1, <5>3, <5>4, <5>5, <5>6
             DEF Turns, Keeps, Unbidden, Unrenewed, NotGranted, Orderly, Hows
      <4> QED
        BY <4>3, <4>5, <4>6, <4>7 DEF Hows
    <3> QED
      BY <3>4, <3>6, <3>7, <3>8 DEF Hows
  <2> QED
    BY <2>3, <2>5, <2>6, <2>7 DEF Hows
<1> QED
  BY <1>1, <1>2

LEMMA TimerFacts ==
    ASSUME NEW t, NEW s, Supplied(t, s, "manual"), NEW duration \in Durations,
           NEW x, x = [s EXCEPT !.timer = TRUE, !.left = duration, !.duration = duration]
    PROVE  InOrder(x) /\ x.rec = s.rec /\ x.valve = s.valve
<1>1. s \in Services /\ duration \in Nat /\ duration \in Int /\ duration >= 0 /\ TRUE \in BOOLEAN
  BY WeatherAssumption DEF Supplied, Sound
<1>2. x \in Services
  BY <1>1, Zenon DEF Services
<1>3. /\ x.timer /\ x.left = duration /\ x.state = s.state /\ x.rec = s.rec
      /\ x.valve = s.valve /\ x.lease = s.lease /\ x.last = s.last /\ x.latched = s.latched
  BY <1>1 DEF Services
<1> QED
  BY <1>1, <1>2, <1>3 DEF Supplied, Sound, InOrder, Fit, Honest, Agrees

(* The shower itself, from a service that supplies nothing.                *)
LEMMA ShowerFacts ==
    ASSUME NEW s, InOrder(s), Recorded(s), ~s.timer, NEW duration \in Durations,
           NEW nonce \in BOOLEAN,
           NEW r \in IF Faulted(s) THEN Done(s)
                     ELSE Regardless(WeatherSupply(s, "manual", nonce), LAMBDA z :
                            Done(IF z.state # "TIMED_SHOWER" THEN z
                                 ELSE [z EXCEPT !.timer = TRUE, !.left = duration,
                                                !.duration = duration]))
    PROVE  /\ r.how \in Hows /\ Sound(r.s) /\ Recorded(r.s)
           /\ r.how # "crash" => InOrder(r.s)
<1> DEFINE Begun(z) == IF z.state # "TIMED_SHOWER" THEN z
                       ELSE [z EXCEPT !.timer = TRUE, !.left = duration, !.duration = duration]
<1>1. CASE Faulted(s)
  <2>1. r = [s |-> s, how |-> "ok"]
    BY <1>1 DEF Done
  <2> QED
    BY <2>1 DEF Hows, InOrder, Fit
<1>2. CASE ~Faulted(s)
  <2>1. PICK q \in WeatherSupply(s, "manual", nonce) :
           r \in CASE q.how = "ok" -> Done(Begun(q.s)) [] q.how = "error" -> Done(Begun(q.s))
                   [] OTHER -> {q}
    BY <1>2 DEF Regardless, Then
  <2> HIDE DEF Begun
  <2>2. /\ q.how \in {"ok", "crash"} /\ Sound(q.s) /\ Recorded(q.s)
        /\ q.how = "ok" => Ended(s, q.s) \/ Supplied(s, q.s, "manual")
    BY <1>2, WeatherSupplyFacts
  <2>3. CASE q.how = "crash"
    <3>1. r = q
      BY <2>1, <2>3
    <3> QED
      BY <2>2, <2>3, <3>1 DEF Hows
  <2>4. CASE q.how = "ok"
    <3>1. r.s = Begun(q.s) /\ r.how = "ok"
      <4>1. r \in Done(Begun(q.s))
        BY <2>1, <2>4
      <4>2. r = [s |-> Begun(q.s), how |-> "ok"]
        BY <4>1 DEF Done
      <4> QED
        BY <4>2
    <3>2. CASE Ended(s, q.s)
      <4>1. r.s = q.s
        BY <3>1, <3>2 DEF Ended, Supplying, Begun
      <4> QED
        BY <2>2, <3>1, <3>2, <4>1 DEF Ended, Hows
    <3>3. CASE Supplied(s, q.s, "manual")
      <4>1. r.s = [q.s EXCEPT !.timer = TRUE, !.left = duration, !.duration = duration]
        BY <3>1, <3>3 DEF Supplied, Begun
      <4>2. InOrder(r.s) /\ r.s.rec = q.s.rec /\ r.s.valve = q.s.valve
        BY <3>3, <4>1, TimerFacts
      <4> QED
        BY <2>2, <3>1, <4>2 DEF InOrder, Fit, Recorded, Hows
    <3> QED
      BY <2>2, <2>4, <3>2, <3>3
  <2> QED
    BY <2>2, <2>3, <2>4
<1> QED
  BY <1>1, <1>2

(* An API call for a shower is no person's START: an inhibition refuses it. *)
LEMMA StartManualFacts ==
    ASSUME NEW s, InOrder(s), Recorded(s), NEW duration \in Durations, NEW nonce \in BOOLEAN,
           NEW r \in StartManual(s, duration, nonce)
    PROVE  /\ r.how \in Hows /\ Keeps(s, r) /\ Unbidden(s, r.s)
           /\ r.how # "crash" => Orderly(s, r.s)
<1> DEFINE Begun(z) == IF z.state # "TIMED_SHOWER" THEN z
                       ELSE [z EXCEPT !.timer = TRUE, !.left = duration, !.duration = duration]
           Idle(y) == IF Faulted(y) THEN Done(y)
                      ELSE Regardless(WeatherSupply(y, "manual", nonce),
                                      LAMBDA z : Done(Begun(z)))
           Loaded(x) == IF x.rec.off \/ x.rec.inhibited THEN Done(x)
                        ELSE IF x.timer THEN IF Expired(x) THEN DrainWeather(x, FALSE) ELSE Done(x)
                        ELSE IF duration > x.limit THEN Done(x)
                        ELSE Regardless(IF x.last = "SUPPLY" THEN DrainWeather(x, FALSE) ELSE Done(x),
                                        Idle)
<1>1. Fit(s) /\ Sound(s)
  BY DEF InOrder, Fit
<1>2. ASSUME Turns(s, r)
      PROVE  /\ r.how \in Hows /\ Keeps(s, r) /\ Unbidden(s, r.s)
             /\ r.how # "crash" => Orderly(s, r.s)
  BY <1>2 DEF Turns
<1>3. ASSUME r = [s |-> s, how |-> "ok"] PROVE Turns(s, r)
  <2>1. r.s = s /\ r.how \in Hows
    BY <1>3 DEF Hows
  <2> QED
    BY <2>1, StayTurns
<1>4. CASE Faulted(s) \/ ~s.started
  BY <1>2, <1>3, <1>4 DEF StartManual, Done
<1>5. CASE ~(Faulted(s) \/ ~s.started)
  <2>1. PICK q \in Load(s) :
           r \in CASE q.how = "ok" -> Loaded(q.s) [] q.how = "error" -> Done(q.s) [] OTHER -> {q}
    BY <1>5 DEF StartManual, Then
  <2> HIDE DEF Loaded, Idle
  <2>2. /\ q.how \in Hows /\ Safe(s, q.s)
        /\ q.how = "ok" => q.s = s
        /\ q.how = "error" => Down(q.s)
    BY <1>1, LoadFacts
  <2>3. CASE q.how = "error"
    <3>1. r = [s |-> q.s, how |-> "ok"]
      BY <2>1, <2>3 DEF Done
    <3> QED
      BY <1>2, <2>2, <2>3, <3>1, SafeTurns DEF Hows
  <2>4. CASE q.how = "crash"
    <3>1. r = q
      BY <2>1, <2>4
    <3> QED
      BY <1>2, <2>2, <2>4, <3>1, SafeTurns
  <2>5. CASE q.how = "ok"
    <3>1. r \in Loaded(s)
      BY <2>1, <2>2, <2>5
    <3>2. CASE r = [s |-> s, how |-> "ok"]
      BY <1>2, <1>3, <3>2
    <3>3. CASE r \in DrainWeather(s, FALSE)
      BY <1>2, <3>3, DrainTurns
    <3>4. CASE /\ ~s.rec.off /\ ~s.rec.inhibited /\ ~s.timer
               /\ r \in Regardless(IF s.last = "SUPPLY" THEN DrainWeather(s, FALSE) ELSE Done(s), Idle)
      <4>1. PICK y \in IF s.last = "SUPPLY" THEN DrainWeather(s, FALSE) ELSE Done(s) :
               r \in CASE y.how = "ok" -> Idle(y.s) [] y.how = "error" -> Idle(y.s) [] OTHER -> {y}
        BY <3>4 DEF Regardless, Then
      <4>2. /\ Turns(s, y) /\ y.how \in {"ok", "crash"}
            /\ y.how = "ok" => ~y.s.timer
        <5>1. CASE y \in DrainWeather(s, FALSE)
          BY <5>1, DrainTurns DEF Ended
        <5>2. CASE y = [s |-> s, how |-> "ok"]
          <6>1. y.s = s /\ y.how = "ok"
            BY <5>2
          <6> QED
            BY <3>4, <6>1, StayTurns DEF Hows
        <5> QED
          BY <4>1, <5>1, <5>2 DEF Done
      <4>3. CASE y.how = "crash"
        <5>1. r = y
          BY <4>1, <4>3
        <5> QED
          BY <1>2, <4>2, <5>1
      <4>4. CASE y.how = "ok"
        <5>1. InOrder(y.s) /\ Recorded(y.s)
          BY <4>2, <4>4 DEF Turns, Keeps, Orderly
        <5>2. r \in Idle(y.s)
          BY <4>1, <4>4
        <5>3. /\ r.how \in Hows /\ Sound(r.s) /\ Recorded(r.s)
              /\ r.how # "crash" => InOrder(r.s)
          BY <4>2, <4>4, <5>1, <5>2, ShowerFacts DEF Idle
        <5>4. ~Shut(s)
          BY <1>5, <3>4 DEF Shut
        <5> QED
          BY <3>4, <5>3, <5>4 DEF Keeps, Unbidden, Orderly
      <4> QED
        BY <4>2, <4>3, <4>4
    <3> QED
      BY <3>1, <3>2, <3>3, <3>4 DEF Done, Loaded
  <2> QED
    BY <2>2, <2>3, <2>4, <2>5 DEF Hows
<1> QED
  BY <1>4, <1>5

(* A person's START lifts the user's inhibition, never a fault's.          *)
LEMMA StartShowerFacts ==
    ASSUME NEW s, InOrder(s), Recorded(s), NEW duration \in Durations,
           NEW r \in StartShower(s, duration)
    PROVE  /\ r.how \in Hows /\ Sound(r.s) /\ Recorded(r.s)
           /\ r.how # "crash" => Orderly(s, r.s)
<1> DEFINE Rec(y) == [y.rec EXCEPT !.off = FALSE]
           Lifted(y, eligible) ==
               IF ~eligible /\ duration > y.limit THEN Done(y)
               ELSE Then(Save(y, Rec(y)), LAMBDA z : IF eligible THEN WeatherSupply(z, "auto", TRUE)
                                                     ELSE StartManual(z, duration, TRUE), Done)
           Asked(y) == UNION {Lifted(y, eligible) : eligible \in Verdicts}
           Loaded(x) == IF x.rec.inhibited THEN Fault(x) ELSE Then(Load(x), Asked, Done)
<1>1. Fit(s) /\ Sound(s)
  BY DEF InOrder, Fit
<1>2. ASSUME Turns(s, r)
      PROVE  /\ r.how \in Hows /\ Sound(r.s) /\ Recorded(r.s)
             /\ r.how # "crash" => Orderly(s, r.s)
  BY <1>2 DEF Turns, Keeps
<1>3. ASSUME r = [s |-> s, how |-> "ok"] PROVE Turns(s, r)
  <2>1. r.s = s /\ r.how \in Hows
    BY <1>3 DEF Hows
  <2> QED
    BY <2>1, StayTurns
<1>4. CASE Faulted(s) \/ ~s.started
  BY <1>2, <1>3, <1>4 DEF StartShower, Done
<1>5. CASE ~(Faulted(s) \/ ~s.started) /\ s.timer
  <2>1. r \in StartManual(s, duration, TRUE)
    BY <1>5 DEF StartShower
  <2> QED
    BY <2>1, StartManualFacts DEF Keeps
<1>6. CASE ~(Faulted(s) \/ ~s.started) /\ ~s.timer
  <2>1. PICK q \in Load(s) :
           r \in CASE q.how = "ok" -> Loaded(q.s) [] q.how = "error" -> Done(q.s) [] OTHER -> {q}
    BY <1>6 DEF StartShower, Then
  <2>2. /\ q.how \in Hows /\ Safe(s, q.s)
        /\ q.how = "ok" => q.s = s
        /\ q.how = "error" => Down(q.s)
    BY <1>1, LoadFacts
  <2>3. CASE q.how = "error"
    <3>1. r = [s |-> q.s, how |-> "ok"]
      BY <2>1, <2>3 DEF Done
    <3> QED
      BY <1>2, <2>2, <2>3, <3>1, SafeTurns DEF Hows
  <2>4. CASE q.how = "crash"
    <3>1. r = q
      BY <2>1, <2>4
    <3> QED
      BY <1>2, <2>2, <2>4, <3>1, SafeTurns
  <2>5. CASE q.how = "ok" /\ s.rec.inhibited
    <3>1. r \in Fault(s)
      BY <2>1, <2>2, <2>5
    <3>2. /\ r.how \in {"ok", "crash"} /\ Safe(s, r.s)
          /\ r.how = "ok" => Down(r.s)
      BY <1>1, <3>1, FaultFacts
    <3> QED
      BY <1>2, <3>2, SafeTurns DEF Hows
  <2>6. CASE q.how = "ok" /\ ~s.rec.inhibited
    <3>1. PICK p \in Load(s) :
             r \in CASE p.how = "ok" -> Asked(p.s) [] p.how = "error" -> Done(p.s) [] OTHER -> {p}
      BY <2>1, <2>2, <2>6 DEF Then
    <3>2. /\ p.how \in Hows /\ Safe(s, p.s)
          /\ p.how = "ok" => p.s = s
          /\ p.how = "error" => Down(p.s)
      BY <1>1, LoadFacts
    <3>3. CASE p.how = "error"
      <4>1. r = [s |-> p.s, how |-> "ok"]
        BY <3>1, <3>3 DEF Done
      <4> QED
        BY <1>2, <3>2, <3>3, <4>1, SafeTurns DEF Hows
    <3>4. CASE p.how = "crash"
      <4>1. r = p
        BY <3>1, <3>4
      <4> QED
        BY <1>2, <3>2, <3>4, <4>1, SafeTurns
    <3>5. CASE p.how = "ok"
      <4>1. PICK eligible \in BOOLEAN : r \in Lifted(s, eligible)
        BY <3>1, <3>2, <3>5 DEF Verdicts
      <4>2. CASE ~eligible /\ duration > s.limit
        BY <1>2, <1>3, <4>1, <4>2 DEF Done
      <4>3. CASE ~(~eligible /\ duration > s.limit)
        <5>1. PICK w \in Save(s, Rec(s)) :
                 r \in CASE w.how = "ok" -> IF eligible THEN WeatherSupply(w.s, "auto", TRUE)
                                            ELSE StartManual(w.s, duration, TRUE)
                         [] w.how = "error" -> Done(w.s) [] OTHER -> {w}
          BY <4>1, <4>3 DEF Then
        <5>2. s.rec \in Records
          BY <1>1 DEF Sound, Services
        <5>3. /\ Rec(s) \in Records /\ ~Rec(s).off /\ Rec(s).marker = s.rec.marker
              /\ Rec(s).inhibited = s.rec.inhibited
          BY <5>2 DEF Records
        <5> HIDE DEF Rec
        <5>4. /\ w.how \in Hows /\ Sound(w.s) /\ NotGranted(s, w.s)
              /\ Worse(s, w.s) \/ w.s.rec = Rec(s)
              /\ w.how = "ok" => w.s = [s EXCEPT !.rec = Rec(s)]
              /\ w.how = "error" => Down(w.s) /\ Worse(s, w.s)
          BY <1>1, <5>1, <5>3, SaveFacts
        <5>5. Recorded(w.s)
          BY <5>3, <5>4 DEF Recorded, NotGranted, Worse
        <5>6. CASE w.how = "error"
          <6>1. r = [s |-> w.s, how |-> "ok"]
            BY <5>1, <5>6 DEF Done
          <6> QED
            BY <1>6, <5>4, <5>5, <5>6, <6>1, DownInOrder DEF Orderly, Hows
        <5>7. CASE w.how = "crash"
          <6>1. r = w
            BY <5>1, <5>7
          <6> QED
            BY <5>4, <5>5, <5>7, <6>1
        <5>8. CASE w.how = "ok"
          <6> DEFINE z == w.s
          <6>1. /\ z.rec = Rec(s) /\ z.state = s.state /\ z.timer = s.timer /\ z.left = s.left
                /\ z.latched = s.latched /\ z.last = s.last /\ z.valve = s.valve
            BY <1>1, <5>3, <5>4, <5>8, RecordFacts
          <6>2. r \in WeatherSupply(z, "auto", TRUE) \/ r \in StartManual(z, duration, TRUE)
            BY <5>1, <5>8
          <6>3. InOrder(z) /\ ~Faulted(z) /\ ~z.timer /\ Recorded(z)
            BY <1>1, <1>6, <5>3, <5>4, <5>5, <6>1
               DEF InOrder, Fit, Honest, Agrees, Supplying, Faulted, Down
          <6> HIDE DEF z
          <6>4. CASE r \in WeatherSupply(z, "auto", TRUE)
            <7>1. Turns(z, r)
              BY <6>3, <6>4, SupplyTurns
            <7> QED
              BY <1>6, <7>1 DEF Turns, Keeps, Orderly
          <6>5. CASE r \in StartManual(z, duration, TRUE)
            BY <1>6, <6>3, <6>5, StartManualFacts DEF Keeps, Orderly
          <6> QED
            BY <6>2, <6>4, <6>5
        <5> QED
          BY <5>4, <5>6, <5>7, <5>8 DEF Hows
      <4> QED
        BY <4>2, <4>3
    <3> QED
      BY <3>2, <3>3, <3>4, <3>5 DEF Hows
  <2> QED
    BY <2>2, <2>3, <2>4, <2>5, <2>6 DEF Hows
<1> QED
  BY <1>4, <1>5, <1>6

-----------------------------------------------------------------------------
(* The start of the process. *)

(* What an earlier process left on record keeps the valve shut. *)
Boots(s, r) ==
    /\ r.how \in Hows /\ Sound(r.s) /\ Recorded(r.s)
    /\ Left(s) => /\ NotGranted(s, r.s)
                  /\ IF r.how = "crash" THEN Left(r.s) ELSE Shut(r.s)
    /\ r.how # "crash" => InOrder(r.s)

LEMMA SafeBoots ==
    ASSUME NEW s, Recorded(s), NEW r, r.how \in Hows, Safe(s, r.s), r.how # "crash" => Down(r.s)
    PROVE  Boots(s, r)
<1>1. Recorded(r.s) /\ Sound(r.s) /\ NotGranted(s, r.s)
  BY SafeKeeps
<1>2. Left(s) => Left(r.s) /\ (Down(r.s) => Shut(r.s))
  BY DEF Left, Shut, Safe, Worse, Down
<1>3. r.how # "crash" => InOrder(r.s)
  BY <1>1, DownInOrder
<1> QED
  BY <1>1, <1>2, <1>3 DEF Boots

LEMMA RecoverBoots ==
    ASSUME NEW s, Sound(s), s.state = "STARTING", ~s.timer, ~s.latched, s.valve = "drain",
           NEW r \in Recover(s)
    PROVE  Boots(s, r)
<1> DEFINE rec == [s.rec EXCEPT !.off = @ \/ s.rec.marker # "none"]
           Rec(x) == [x.rec EXCEPT !.marker = "none"]
           Run(y) == RunWeather([y EXCEPT !.started = TRUE], {FALSE})
           Unmarked(x) == Then(IF x.rec.marker = "none" THEN Done(x) ELSE Save(x, Rec(x)), Run, Done)
<1>1. PICK q \in Save(s, rec) :
         r \in CASE q.how = "ok" -> Unmarked(q.s) [] q.how = "error" -> Done(q.s) [] OTHER -> {q}
  BY DEF Recover, Then
<1>2. s.rec \in Records /\ Fit(s) /\ Recorded(s)
  BY DEF Sound, Services, Fit, Recorded
<1>3. /\ rec \in Records /\ rec.marker = s.rec.marker /\ rec.inhibited = s.rec.inhibited
      /\ rec.off <=> s.rec.off \/ s.rec.marker # "none"
  BY <1>2 DEF Records
<1> HIDE DEF Unmarked, rec
<1>4. /\ q.how \in Hows /\ Safe(s, q.s) /\ Sound(q.s)
      /\ q.how = "ok" => q.s = [s EXCEPT !.rec = rec]
      /\ q.how = "error" => Down(q.s)
  BY <1>1, <1>2, <1>3, SaveFacts, SaveWorse DEF Safe
<1>5. CASE q.how = "error"
  <2>1. r = [s |-> q.s, how |-> "ok"]
    BY <1>1, <1>5 DEF Done
  <2> QED
    BY <1>2, <1>4, <1>5, <2>1, SafeBoots DEF Hows
<1>6. CASE q.how = "crash"
  <2>1. r = q
    BY <1>1, <1>6
  <2> QED
    BY <1>2, <1>4, <1>6, <2>1, SafeBoots
<1>7. CASE q.how = "ok"
  <2> DEFINE x == q.s
  <2>1. /\ x.rec = rec /\ x.state = s.state /\ x.timer = s.timer /\ x.latched = s.latched
        /\ x.last = s.last /\ x.valve = s.valve /\ x.lease = s.lease
    BY <1>3, <1>4, <1>7, RecordFacts
  <2>2. r \in Unmarked(x) /\ Sound(x) /\ Safe(s, x)
    BY <1>1, <1>4, <1>7
  <2> HIDE DEF x
  <2>3. PICK p \in IF x.rec.marker = "none" THEN Done(x) ELSE Save(x, Rec(x)) :
           r \in CASE p.how = "ok" -> Run(p.s) [] p.how = "error" -> Done(p.s) [] OTHER -> {p}
    BY <2>2 DEF Unmarked, Then
  <2>4. /\ Rec(x) \in Records /\ Rec(x).marker = "none" /\ Rec(x).off = x.rec.off
        /\ Rec(x).inhibited = x.rec.inhibited
    BY <1>3, <2>1 DEF Records
  <2> HIDE DEF Rec
  <2>5. Fit(x) /\ x.state = "STARTING" /\ ~x.timer /\ ~x.latched /\ x.valve = "drain"
    BY <2>1, <2>2 DEF Fit
  <2>6. /\ p.how \in Hows /\ Sound(p.s) /\ p.s.valve # "supply"
        /\ x.rec.off => p.s.rec.off
        /\ x.rec.inhibited => p.s.rec.inhibited
        /\ p.how = "ok" => /\ p.s.state = "STARTING" /\ ~p.s.timer /\ ~p.s.latched
        /\ p.how = "error" => Down(p.s)
    <3>1. CASE x.rec.marker = "none"
      <4>1. p = [s |-> x, how |-> "ok"]
        BY <2>3, <3>1 DEF Done
      <4> QED
        BY <2>2, <2>5, <4>1 DEF Hows
    <3>2. CASE x.rec.marker # "none"
      <4>1. p \in Save(x, Rec(x))
        BY <2>3, <3>2
      <4>2. /\ p.how \in Hows /\ Sound(p.s) /\ NotGranted(x, p.s)
            /\ Worse(x, p.s) \/ p.s.rec = Rec(x)
            /\ p.how = "ok" => p.s = [x EXCEPT !.rec = Rec(x)]
            /\ p.how = "error" => Down(p.s)
        BY <2>4, <2>5, <4>1, SaveFacts
      <4>3. p.how = "ok" => /\ p.s.state = "STARTING" /\ ~p.s.timer /\ ~p.s.latched
        BY <2>2, <2>4, <2>5, <4>2, RecordFacts
      <4>4. /\ x.rec.off => p.s.rec.off
            /\ x.rec.inhibited => p.s.rec.inhibited
        BY <2>4, <4>2 DEF Worse
      <4> QED
        BY <2>5, <4>2, <4>3, <4>4 DEF NotGranted
    <3> QED
      BY <3>1, <3>2
  <2>7. /\ Left(s) => p.s.rec.off \/ p.s.rec.inhibited
        /\ Recorded(p.s)
    BY <1>3, <2>1, <2>6 DEF Left, Recorded
  <2>8. CASE p.how = "error"
    <3>1. r = [s |-> p.s, how |-> "ok"]
      BY <2>3, <2>8 DEF Done
    <3> QED
      BY <2>6, <2>7, <2>8, <3>1, DownInOrder DEF Boots, Hows, NotGranted, Shut
  <2>9. CASE p.how = "crash"
    <3>1. r = p
      BY <2>3, <2>9
    <3> QED
      BY <2>6, <2>7, <2>9, <3>1 DEF Boots, NotGranted, Left
  <2>10. CASE p.how = "ok"
    <3> DEFINE y == [p.s EXCEPT !.started = TRUE]
    <3>1. r \in RunWeather(y, {FALSE})
      BY <2>3, <2>10
    <3>2. Alike(p.s, y)
      BY <2>6, StartedAlike
    <3> HIDE DEF y
    <3>3. InOrder(p.s)
      BY <2>6, <2>10 DEF InOrder, Fit, Honest, Agrees, Supplying
    <3>4. InOrder(y) /\ Recorded(y)
      BY <2>7, <3>2, <3>3, AlikeTurns
    <3>5. Turns(y, r)
      BY <3>1, <3>4, RunWeatherTurns
    <3>6. Left(s) => Shut(y) /\ NotGranted(y, r.s)
      BY <2>7, <3>2, <3>5 DEF Alike, Same, Shut, Turns, Unbidden
    <3>7. y.valve # "supply"
      BY <2>6, <3>2 DEF Alike
    <3> QED
      BY <3>5, <3>6, <3>7 DEF Turns, Keeps, Boots, Orderly, NotGranted
  <2> QED
    BY <2>6, <2>8, <2>9, <2>10 DEF Hows
<1> QED
  BY <1>4, <1>5, <1>6, <1>7 DEF Hows

LEMMA StartupBoots ==
    ASSUME NEW s, Sound(s), Recorded(s), s.state = "STARTING", ~s.timer, ~s.latched,
           NEW r \in Startup(s)
    PROVE  Boots(s, r)
<1> DEFINE Drn(x) == Then(Stored(x), Recover, Done)
<1>1. PICK q \in SendDrain(s) :
         r \in CASE q.how = "ok" -> Drn(q.s) [] q.how = "error" -> Fault(q.s) [] OTHER -> {q}
  BY DEF Startup, Then
<1> HIDE DEF Drn
<1>2. Fit(s)
  BY DEF Fit
<1>3. /\ q.how \in Hows /\ Safe(s, q.s) /\ Sound(q.s)
      /\ q.how = "ok" => Same(s, q.s) /\ q.s.valve = "drain" /\ q.s.last = "DRAIN"
      /\ q.how = "error" => Same(s, q.s) \/ Down(q.s)
  BY <1>2, SendDrainFacts DEF Safe
<1>4. CASE q.how = "error"
  <2>1. r \in Fault(q.s) /\ Fit(q.s)
    BY <1>1, <1>2, <1>3, <1>4, FitSame
  <2>2. /\ r.how \in {"ok", "crash"} /\ Safe(q.s, r.s)
        /\ r.how = "ok" => Down(r.s)
    BY <2>1, FaultFacts
  <2>3. Safe(s, r.s)
    BY <1>3, <2>2, SafeTrans
  <2> QED
    BY <2>2, <2>3, SafeBoots DEF Hows
<1>5. CASE q.how = "crash"
  <2>1. r = q
    BY <1>1, <1>5
  <2> QED
    BY <1>3, <1>5, <2>1, SafeBoots
<1>6. CASE q.how = "ok"
  <2>1. r \in Drn(q.s) /\ Fit(q.s)
    BY <1>1, <1>2, <1>3, <1>6, FitSame
  <2>2. PICK p \in Stored(q.s) :
           r \in CASE p.how = "ok" -> Recover(p.s) [] p.how = "error" -> Done(p.s) [] OTHER -> {p}
    BY <2>1 DEF Drn, Then
  <2>3. /\ p.how \in Hows /\ Safe(q.s, p.s)
        /\ p.how = "ok" => p.s = q.s
        /\ p.how = "error" => Down(p.s)
    BY <2>1, StoredFacts
  <2>4. Safe(s, p.s)
    BY <1>3, <2>3, SafeTrans
  <2>5. CASE p.how = "error"
    <3>1. r = [s |-> p.s, how |-> "ok"]
      BY <2>2, <2>5 DEF Done
    <3> QED
      BY <2>3, <2>4, <2>5, <3>1, SafeBoots DEF Hows
  <2>6. CASE p.how = "crash"
    <3>1. r = p
      BY <2>2, <2>6
    <3> QED
      BY <2>3, <2>4, <2>6, <3>1, SafeBoots
  <2>7. CASE p.how = "ok"
    <3>1. Boots(q.s, r)
      <4>1. r \in Recover(q.s)
        BY <2>2, <2>3, <2>7
      <4>2. q.s.state = "STARTING" /\ ~q.s.timer /\ ~q.s.latched /\ q.s.valve = "drain"
        BY <1>3, <1>6 DEF Same
      <4> QED
        BY <1>3, <4>1, <4>2, RecoverBoots
    <3>2. (Left(s) <=> Left(q.s)) /\ q.s.valve # "supply"
      BY <1>3, <1>6 DEF Same, Left
    <3> QED
      BY <3>1, <3>2 DEF Boots, NotGranted
  <2> QED
    BY <2>3, <2>5, <2>6, <2>7 DEF Hows
<1> QED
  BY <1>3, <1>4, <1>5, <1>6 DEF Hows

LEMMA LatchDone ==
    ASSUME NEW s, Fit(s), NEW r \in Regardless(LatchPersistenceFailure(s), Done)
    PROVE  /\ r.how \in {"ok", "crash"} /\ Safe(s, r.s)
           /\ r.how = "ok" => Down(r.s)
<1>1. PICK q \in LatchPersistenceFailure(s) :
         r \in CASE q.how = "ok" -> Done(q.s) [] q.how = "error" -> Done(q.s) [] OTHER -> {q}
  BY DEF Regardless, Then
<1>2. /\ q.how \in {"ok", "crash"} /\ Safe(s, q.s)
      /\ q.how = "ok" => Down(q.s)
  BY LatchFacts
<1>3. r.s = q.s /\ r.how = (IF q.how = "crash" THEN "crash" ELSE "ok")
  BY <1>1, <1>2, Ignored DEF Hows
<1> QED
  BY <1>2, <1>3

(* An action whose outcome is unknown inhibits what the startup left. *)
LEMMA ReconcileFacts ==
    ASSUME NEW s, InOrder(s), NEW r \in Reconcile(s)
    PROVE  /\ r.how \in Hows
           /\ r = [s |-> s, how |-> "ok"] \/ (Safe(s, r.s) /\ (r.how # "crash" => Down(r.s)))
<1> DEFINE inhibited == [s EXCEPT !.rec.off = TRUE, !.rec.inhibited = TRUE]
           rec == [s.rec EXCEPT !.off = TRUE, !.inhibited = TRUE]
<1>1. Fit(s) /\ Sound(s) /\ s.rec \in Records /\ s \in Services
  BY DEF InOrder, Fit, Sound, Services
<1>2. /\ rec \in Records /\ rec.off /\ rec.inhibited /\ rec.marker = s.rec.marker
  BY <1>1 DEF Records
<1>3. inhibited = [s EXCEPT !.rec = rec]
  BY <1>1 DEF Services, Records
<1>4. r \in {[s |-> s, how |-> "ok"], [s |-> inhibited, how |-> "crash"]}
         \cup Regardless(LatchPersistenceFailure(s), Done)
         \cup Regardless(LatchPersistenceFailure(inhibited), Done)
  BY DEF Reconcile, Done, Crashed
<1> HIDE DEF inhibited, rec
<1>5. /\ Sound(inhibited) /\ inhibited.rec = rec /\ inhibited.state = s.state
      /\ inhibited.timer = s.timer /\ inhibited.latched = s.latched
      /\ inhibited.valve = s.valve /\ inhibited.lease = s.lease
  BY <1>1, <1>2, <1>3, RecordFacts
<1>6. Safe(s, inhibited) /\ Fit(inhibited)
  BY <1>1, <1>2, <1>5 DEF Safe, NotGranted, Worse, Fit, Down, Faulted
<1>7. CASE r = [s |-> inhibited, how |-> "crash"]
  BY <1>6, <1>7 DEF Hows
<1>8. CASE r \in Regardless(LatchPersistenceFailure(s), Done)
  BY <1>1, <1>8, LatchDone DEF Hows
<1>9. CASE r \in Regardless(LatchPersistenceFailure(inhibited), Done)
  BY <1>6, <1>9, LatchDone, SafeTrans DEF Hows
<1> QED
  BY <1>4, <1>7, <1>8, <1>9 DEF Hows

LEMMA BootBoots ==
    ASSUME NEW s, Sound(s), Recorded(s), s.state = "STARTING", ~s.timer, ~s.latched,
           NEW r \in Regardless(Startup(s), Reconcile)
    PROVE  Boots(s, r)
<1>1. PICK q \in Startup(s) :
         r \in CASE q.how = "ok" -> Reconcile(q.s) [] q.how = "error" -> Reconcile(q.s)
                 [] OTHER -> {q}
  BY DEF Regardless, Then
<1>2. Boots(s, q)
  BY StartupBoots
<1>3. CASE q.how = "crash"
  <2>1. r = q
    BY <1>1, <1>3
  <2> QED
    BY <1>2, <2>1
<1>4. CASE q.how # "crash"
  <2>1. r \in Reconcile(q.s) /\ InOrder(q.s) /\ Recorded(q.s)
    BY <1>1, <1>2, <1>4 DEF Boots, Hows
  <2>2. /\ r.how \in Hows
        /\ r = [s |-> q.s, how |-> "ok"] \/ (Safe(q.s, r.s) /\ (r.how # "crash" => Down(r.s)))
    BY <2>1, ReconcileFacts
  <2>3. CASE r = [s |-> q.s, how |-> "ok"]
    <3>1. r.s = q.s /\ r.how = "ok"
      BY <2>3
    <3> QED
      BY <1>2, <1>4, <3>1 DEF Boots, Hows
  <2>4. CASE Safe(q.s, r.s) /\ (r.how # "crash" => Down(r.s))
    <3>1. Boots(q.s, r)
      BY <2>1, <2>2, <2>4, SafeBoots
    <3>2. Left(s) => Shut(q.s) /\ Left(q.s) /\ NotGranted(s, q.s)
      BY <1>2, <1>4 DEF Boots, Shut, Left
    <3> QED
      BY <3>1, <3>2 DEF Boots, NotGranted
  <2> QED
    BY <2>2, <2>3, <2>4
<1> QED
  BY <1>3, <1>4

(* The gate may latch after the method has returned. *)
LEMMA GatedFacts ==
    ASSUME NEW results, \A q \in results : q.how \in Hows /\ (q.how # "crash" => Fit(q.s)),
           NEW r \in Gated(results)
    PROVE  \E q \in results :
              \/ r.s = q.s /\ (r.how = IF q.how = "crash" THEN "crash" ELSE "ok")
              \/ /\ q.how # "crash" /\ r.how \in {"ok", "crash"} /\ Safe(q.s, r.s)
                 /\ r.how = "ok" => Down(r.s)
<1> DEFINE After(x) == Done(x) \cup Regardless(LatchPersistenceFailure(x), Done)
<1>1. PICK q \in results :
         r \in CASE q.how = "ok" -> After(q.s) [] q.how = "error" -> After(q.s) [] OTHER -> {q}
  BY DEF Gated, Regardless, Then
<1> HIDE DEF After
<1>2. CASE q.how = "crash"
  <2>1. r = q
    BY <1>1, <1>2
  <2> QED
    BY <1>2, <2>1
<1>3. CASE q.how # "crash"
  <2>1. r \in After(q.s)
    BY <1>1, <1>3 DEF Hows
  <2>2. CASE r \in Done(q.s)
    <3>1. r = [s |-> q.s, how |-> "ok"]
      BY <2>2 DEF Done
    <3>2. r.s = q.s /\ r.how = "ok"
      BY <3>1
    <3> QED
      BY <1>3, <3>2
  <2>3. CASE r \in Regardless(LatchPersistenceFailure(q.s), Done)
    <3>1. /\ r.how \in {"ok", "crash"} /\ Safe(q.s, r.s)
          /\ r.how = "ok" => Down(r.s)
      BY <1>3, <2>3, LatchDone
    <3> QED
      BY <1>3, <3>1
  <2> QED
    BY <2>1, <2>2, <2>3 DEF After
<1> QED
  BY <1>2, <1>3

LEMMA LaterFacts ==
    ASSUME NEW s, Sound(s), NEW x \in Later(s)
    PROVE  /\ Sound(x) /\ x.state = s.state /\ x.timer = s.timer /\ x.latched = s.latched
           /\ x.rec = s.rec /\ x.last = s.last /\ x.lease <= s.lease
           /\ x.valve = "supply" => s.valve = "supply"
<1> DEFINE later == [s EXCEPT !.left = IF @ > 0 THEN @ - 1 ELSE @,
                             !.lease = IF @ > 0 THEN @ - 1 ELSE @]
<1>1. /\ s \in Services /\ s.left \in Int /\ s.left >= 0 /\ s.lease \in 0..Lease
      /\ Lease \in Nat /\ (s.valve = "supply" <=> s.lease > 0)
  BY WeatherAssumption DEF Sound, Services
<1>2. /\ (IF s.left > 0 THEN s.left - 1 ELSE s.left) \in Int
      /\ (IF s.lease > 0 THEN s.lease - 1 ELSE s.lease) \in 0..Lease /\ 0 \in 0..Lease
  BY <1>1
<1>3. later \in Services
  BY <1>1, <1>2, Zenon DEF Services
<1>4. /\ later.state = s.state /\ later.last = s.last /\ later.rec = s.rec
      /\ later.timer = s.timer /\ later.latched = s.latched /\ later.valve = s.valve
      /\ later.left = IF s.left > 0 THEN s.left - 1 ELSE s.left
      /\ later.lease = IF s.lease > 0 THEN s.lease - 1 ELSE s.lease
  BY <1>1 DEF Services
<1>5. x \in IF later.valve = "supply" /\ later.lease = 0 THEN {Drained(later), Lost(later)} ELSE {later}
  BY DEF Later
<1> HIDE DEF later
<1>6. CASE x = later /\ ~(later.valve = "supply" /\ later.lease = 0)
  BY <1>1, <1>3, <1>4, <1>6 DEF Sound
<1>7. CASE later.valve = "supply" /\ later.lease = 0 /\ x \in {Drained(later), Lost(later)}
  <2>1. Drained(later) \in Services /\ Lost(later) \in Services
    BY <1>2, <1>3, Valves, Zenon DEF Services, Drained, Lost
  <2>2. /\ x.state = later.state /\ x.last = later.last /\ x.rec = later.rec
        /\ x.timer = later.timer /\ x.latched = later.latched /\ x.left = later.left
        /\ x.valve # "supply" /\ x.lease = 0
    BY <1>3, <1>7 DEF Services, Drained, Lost
  <2> QED
    BY <1>1, <1>4, <1>7, <2>1, <2>2 DEF Sound
<1> QED
  BY <1>5, <1>6, <1>7

LEMMA FreshFacts ==
    ASSUME NEW s, Sound(s)
    PROVE  /\ Sound(Fresh(s)) /\ Fresh(s).rec = s.rec /\ Fresh(s).valve = s.valve
           /\ Fresh(s).lease = s.lease
           /\ Fresh(s).state = "STARTING" /\ ~Fresh(s).timer /\ ~Fresh(s).latched
  BY DEF Fresh, Sound, Services

-----------------------------------------------------------------------------
(* The invariant. *)

(* What a running process knows, and what an ended one leaves: whoever is  *)
(* owed a shut valve has it on record, in FAULT or by an inhibition while  *)
(* the process runs, by an inhibition or the marker once it has ended.     *)
Holds(u, s, o) ==
    /\ Sound(s) /\ Recorded(s)
    /\ o => IF u THEN Shut(s) ELSE Left(s)
    /\ IF u THEN InOrder(s) ELSE s.state = "STARTING" /\ ~s.timer /\ ~s.latched

IInv == TypeOK /\ Holds(up, svc, owed)

(* What a step from such a state may do: the three action properties.      *)
Promised ==
    /\ Grants(svc, svc') => ~owed \/ did' = "start"
    /\ did' \in {"cycle", "settings", "weather", "status"} /\ svc.last = "SUPPLY"
         /\ svc.valve # "supply" => ~Grants(svc, svc')
    /\ up /\ up' /\ svc.timer /\ ~svc'.timer =>
          Faulted(svc') \/ (svc'.state = "MANUAL_DRAIN" /\ svc'.valve = "drain")

Names == {"boot", "cycle", "notify", "start", "timed", "stop", "clear",
          "settings", "weather", "status", "tick", "valve"}

LEMMA Primed ==
    ASSUME up' \in BOOLEAN, wait' \in 0..CycleInterval, did' \in Names, owed' \in BOOLEAN,
           Holds(up', svc', owed')
    PROVE  IInv'
<1>1. TypeOK'
  BY DEF TypeOK, Names, Holds, Sound
<1>2. Holds(up, svc, owed)'
  BY DEF Holds, Sound, Recorded, Shut, Left, InOrder, Fit, Down, Honest, Agrees, Supplying, Faulted
<1> QED
  BY <1>1, <1>2 DEF IInv

LEMMA InitIInv == Init => IInv
<1> SUFFICES ASSUME Init PROVE IInv
  OBVIOUS
<1>1. PICK limit \in Durations :
         svc = Fresh([limit |-> limit, valve |-> "unconfirmed", lease |-> 0,
                      rec |-> [off |-> FALSE, inhibited |-> FALSE, marker |-> "none"]])
  BY DEF Init
<1>2. 0 \in 0..Lease /\ 0 \in 0..CycleInterval
  BY WeatherAssumption
<1>3. /\ svc \in Services /\ svc.valve = "unconfirmed" /\ svc.lease = 0 /\ svc.left = 0
      /\ svc.state = "STARTING" /\ ~svc.timer /\ ~svc.latched
  BY <1>1, <1>2 DEF Fresh, Services, Records
<1>4. up = FALSE /\ wait = 0 /\ did = "boot" /\ owed = FALSE
  BY DEF Init
<1>5. TypeOK
  BY <1>2, <1>3, <1>4 DEF TypeOK
<1>6. Sound(svc) /\ Recorded(svc)
  BY <1>3 DEF Sound, Recorded
<1> QED
  BY <1>3, <1>4, <1>5, <1>6 DEF IInv, Holds

LEMMA NoGrant ==
    ASSUME NEW s, NEW x, Sound(s), Sound(x), NotGranted(s, x) \/ x.valve # "supply"
    PROVE  ~Grants(s, x)
  BY DEF Sound, Services, NotGranted, Grants

(* The process ends, within a method or between two. *)
LEMMA EndsStep ==
    ASSUME IInv, NEW s, Sound(s), Recorded(s), NEW name \in Names, Ends(s, name),
           name # "start" /\ owed => Left(s) /\ NotGranted(svc, s),
           name \in {"cycle", "settings", "weather", "status"} => Unrenewed(svc, s)
    PROVE  IInv' /\ Promised
<1> DEFINE f == Fresh(s)
<1>1. /\ Sound(f) /\ f.rec = s.rec /\ f.valve = s.valve /\ f.lease = s.lease
      /\ f.state = "STARTING" /\ ~f.timer /\ ~f.latched
  BY FreshFacts
<1>2. /\ up' = FALSE /\ svc' = f /\ wait' = 0 /\ did' = name
      /\ owed' = ((owed /\ name # "start") \/ s.valve = "supply")
  BY DEF Ends
<1> HIDE DEF f
<1>3. owed' => Left(f)
  BY <1>1, <1>2 DEF Left, Recorded
<1>4. Holds(up', svc', owed')
  BY <1>1, <1>2, <1>3 DEF Holds, Recorded
<1>5. 0 \in 0..CycleInterval
  BY WeatherAssumption
<1>6. IInv'
  BY <1>2, <1>4, <1>5, Primed
<1>7. Sound(svc)
  BY DEF IInv, Holds
<1>8. name # "start" /\ owed => NotGranted(svc, f)
  BY <1>1 DEF NotGranted
<1>9. name \in {"cycle", "settings", "weather", "status"} => Unrenewed(svc, f)
  BY <1>1 DEF Unrenewed
<1> QED
  BY <1>1, <1>2, <1>6, <1>7, <1>8, <1>9, NoGrant DEF Promised, Unrenewed

(* A method returns. *)
LEMMA ReturnsStep ==
    ASSUME IInv, up, NEW s, Sound(s), Recorded(s), Orderly(svc, s), NEW name \in Names,
           up' = up, svc' = s, did' = name, wait' \in 0..CycleInterval, owed' \in BOOLEAN,
           owed' => Shut(s),
           name # "start" /\ owed => NotGranted(svc, s),
           name \in {"cycle", "settings", "weather", "status"} => Unrenewed(svc, s)
    PROVE  IInv' /\ Promised
<1>1. Holds(up', svc', owed')
  BY DEF Holds, Orderly
<1>2. IInv'
  BY <1>1, Primed DEF IInv, TypeOK
<1>3. Sound(svc)
  BY DEF IInv, Holds
<1> QED
  BY <1>2, <1>3, NoGrant DEF Promised, Unrenewed, Orderly

(* A method that is no person's START, to either of its ends.              *)
LEMMA MethodStep ==
    ASSUME IInv, up, NEW r, r.how \in Hows, Keeps(svc, r), Unbidden(svc, r.s),
           r.how # "crash" => Orderly(svc, r.s), NEW name \in Names, name # "start",
           name \in {"cycle", "settings", "weather", "status"} => Unrenewed(svc, r.s),
           IF r.how = "crash" THEN Ends(r.s, name)
           ELSE /\ up' = up /\ svc' = r.s /\ did' = name /\ wait' \in 0..CycleInterval
                /\ owed' \in BOOLEAN /\ (owed' => owed \/ Shut(r.s))
    PROVE  IInv' /\ Promised
<1>1. owed => Shut(svc)
  BY DEF IInv, Holds
<1>2. CASE r.how = "crash"
  BY <1>1, <1>2, EndsStep DEF Keeps, Unbidden
<1>3. CASE r.how # "crash"
  <2>1. owed' => Shut(r.s)
    BY <1>1, <1>3 DEF Keeps
  <2>2. owed => NotGranted(svc, r.s)
    BY <1>1 DEF Unbidden
  <2> QED
    BY <1>3, <2>1, <2>2, ReturnsStep DEF Keeps
<1> QED
  BY <1>2, <1>3

(* One step per action: the lemma of its method says what it does to the   *)
(* service, the record and the valve.                                      *)
LEMMA NextStep == IInv /\ Next => IInv' /\ Promised
<1> SUFFICES ASSUME IInv, Next PROVE IInv' /\ Promised
  OBVIOUS
<1>1. /\ Sound(svc) /\ Recorded(svc)
      /\ up => InOrder(svc)
      /\ up \in BOOLEAN /\ owed \in BOOLEAN /\ wait \in 0..CycleInterval
      /\ 0 \in 0..CycleInterval
      /\ did \in Names
  BY WeatherAssumption DEF IInv, Holds, TypeOK, Names
<1>2. CASE Boot
  <2>1. PICK r \in Regardless(Startup(svc), Reconcile) :
           IF r.how = "crash" THEN Ends(r.s, "boot")
           ELSE up' = TRUE /\ svc' = r.s /\ wait' = 0 /\ did' = "boot" /\ UNCHANGED owed
    BY <1>2 DEF Boot
  <2>2. /\ ~up /\ svc.state = "STARTING" /\ ~svc.timer /\ ~svc.latched
        /\ owed => Left(svc)
    BY <1>2 DEF Boot, IInv, Holds
  <2>3. /\ r.how \in Hows /\ Sound(r.s) /\ Recorded(r.s)
        /\ Left(svc) => /\ NotGranted(svc, r.s)
                        /\ IF r.how = "crash" THEN Left(r.s) ELSE Shut(r.s)
        /\ r.how # "crash" => InOrder(r.s)
    BY <1>1, <2>1, <2>2, BootBoots DEF Boots
  <2>4. CASE r.how = "crash"
    BY <2>1, <2>2, <2>3, <2>4, EndsStep DEF Names
  <2>5. CASE r.how # "crash"
    <3>1. /\ up' = TRUE /\ svc' = r.s /\ wait' = 0 /\ did' = "boot" /\ owed' = owed
      BY <2>1, <2>5
    <3>2. Holds(up', svc', owed')
      BY <2>2, <2>3, <2>5, <3>1 DEF Holds
    <3>3. IInv'
      BY <1>1, <3>1, <3>2, Primed DEF Names
    <3> QED
      BY <1>1, <2>2, <2>3, <3>1, <3>3, NoGrant DEF Promised
  <2> QED
    BY <2>4, <2>5
<1>3. CASE Crash
  <2>1. up /\ Ends(svc, "boot")
    BY <1>3 DEF Crash
  <2>2. owed => Left(svc)
    BY <2>1 DEF IInv, Holds, Shut, Left
  <2> QED
    BY <1>1, <2>1, <2>2, EndsStep DEF Names, NotGranted
<1>4. CASE Shutdown
  <2> DEFINE x == [svc EXCEPT !.started = FALSE]
  <2>1. PICK r \in DrainWeather(x, FALSE) : Ends(r.s, "boot")
    BY <1>4 DEF Shutdown
  <2>2. up /\ InOrder(svc)
    BY <1>1, <1>4 DEF Shutdown
  <2>3. Alike(svc, x)
    BY <1>1, StartedAlike
  <2> HIDE DEF x
  <2>4. InOrder(x) /\ Recorded(x) /\ \A q : Turns(x, q) => Turns(svc, q)
    BY <1>1, <2>2, <2>3, AlikeTurns
  <2>5. Turns(svc, r)
    BY <2>1, <2>4, DrainTurns
  <2>6. owed => Left(r.s) /\ NotGranted(svc, r.s)
    BY <2>2, <2>5 DEF IInv, Holds, Turns, Keeps, Unbidden, Shut, Left
  <2> QED
    BY <2>1, <2>5, <2>6, EndsStep DEF Turns, Keeps, Names
<1>5. CASE Cycle
  <2>1. PICK r \in RunWeather(svc, BOOLEAN) :
           IF r.how = "crash" THEN Ends(r.s, "cycle")
           ELSE /\ svc' = r.s /\ wait' = Sleep(r.s) /\ did' = "cycle" /\ UNCHANGED <<up, owed>>
    BY <1>5 DEF Cycle, Verdicts
  <2>2. up /\ Turns(svc, r)
    BY <1>1, <1>5, <2>1, RunWeatherTurns DEF Cycle
  <2>3. Sleep(r.s) \in 0..CycleInterval
    <3>1. r.s.left \in Int /\ r.s.left >= 0 /\ CycleInterval \in Nat
      BY <2>2, WeatherAssumption DEF Turns, Keeps, Sound, Services
    <3> QED
      BY <3>1 DEF Sleep
  <2>4. IF r.how = "crash" THEN Ends(r.s, "cycle")
        ELSE /\ up' = up /\ svc' = r.s /\ did' = "cycle" /\ wait' \in 0..CycleInterval
             /\ owed' \in BOOLEAN /\ (owed' => owed \/ Shut(r.s))
    BY <1>1, <2>1, <2>3
  <2> QED
    BY <2>2, <2>4, MethodStep DEF Turns, Names
<1>6. CASE Notify
  <2>1. up' = up /\ svc' = svc /\ owed' = owed /\ wait' = 0 /\ did' = "notify"
    BY <1>6 DEF Notify
  <2>2. Holds(up', svc', owed')
    BY <2>1 DEF IInv
  <2>3. IInv'
    BY <1>1, <2>1, <2>2, Primed DEF Names
  <2> QED
    BY <1>1, <2>1, <2>3, NoGrant DEF Promised, NotGranted
<1>7. CASE \E d \in Durations : ApiStart(d)
  <2>1. PICK d \in Durations : ApiStart(d)
    BY <1>7
  <2>2. PICK r \in Gated(StartShower(svc, d)) :
           IF r.how = "crash" THEN Ends(r.s, "start")
           ELSE /\ svc' = r.s /\ did' = "start" /\ up' = up
                /\ wait' = (IF r.how = "ok" /\ Supplying(r.s) THEN 0 ELSE wait)
                /\ owed' = OwedAfter("start", r.s)
    BY <2>1 DEF ApiStart, Call
  <2>3. up /\ InOrder(svc)
    BY <1>1, <2>1 DEF ApiStart, Call
  <2>4. \A q \in StartShower(svc, d) :
           /\ q.how \in Hows /\ Sound(q.s) /\ Recorded(q.s)
           /\ q.how # "crash" => Orderly(svc, q.s) /\ Fit(q.s)
    BY <1>1, <2>3, StartShowerFacts DEF Orderly, InOrder
  <2>5. /\ r.how \in Hows /\ Sound(r.s) /\ Recorded(r.s)
        /\ r.how # "crash" => Orderly(svc, r.s)
    <3>1. PICK q \in StartShower(svc, d) :
             \/ r.s = q.s /\ (r.how = IF q.how = "crash" THEN "crash" ELSE "ok")
             \/ /\ q.how # "crash" /\ r.how \in {"ok", "crash"} /\ Safe(q.s, r.s)
                /\ r.how = "ok" => Down(r.s)
      BY <2>2, <2>4, GatedFacts
    <3>2. /\ q.how \in Hows /\ Sound(q.s) /\ Recorded(q.s)
          /\ q.how # "crash" => Orderly(svc, q.s)
      BY <2>4
    <3>3. CASE r.s = q.s /\ (r.how = IF q.how = "crash" THEN "crash" ELSE "ok")
      BY <3>2, <3>3 DEF Hows
    <3>4. CASE /\ q.how # "crash" /\ r.how \in {"ok", "crash"} /\ Safe(q.s, r.s)
               /\ r.how = "ok" => Down(r.s)
      BY <3>2, <3>4, SafeKeeps, DownInOrder DEF Hows, Orderly, Down
    <3> QED
      BY <3>1, <3>3, <3>4
  <2>6. CASE r.how = "crash"
    BY <2>2, <2>5, <2>6, EndsStep DEF Names
  <2>7. CASE r.how # "crash"
    <3>1. /\ svc' = r.s /\ did' = "start" /\ up' = up /\ wait' \in 0..CycleInterval
          /\ owed' = FALSE
      BY <1>1, <2>2, <2>7 DEF OwedAfter
    <3> QED
      BY <2>3, <2>5, <2>7, <3>1, ReturnsStep DEF Names
  <2> QED
    BY <2>6, <2>7
<1>8. CASE \E d \in Durations : ApiTimedShower(d)
  <2>1. PICK d \in Durations : ApiTimedShower(d)
    BY <1>8
  <2>2. PICK r \in StartManual(svc, d, FALSE) :
           IF r.how = "crash" THEN Ends(r.s, "timed")
           ELSE /\ svc' = r.s /\ did' = "timed" /\ up' = up
                /\ wait' = (IF r.how = "ok" /\ Supplying(r.s) THEN 0 ELSE wait)
                /\ owed' = OwedAfter("timed", r.s)
    BY <2>1 DEF ApiTimedShower, Call
  <2>3. up /\ InOrder(svc)
    BY <1>1, <2>1 DEF ApiTimedShower, Call
  <2>4. /\ r.how \in Hows /\ Keeps(svc, r) /\ Unbidden(svc, r.s)
        /\ r.how # "crash" => Orderly(svc, r.s)
    BY <1>1, <2>2, <2>3, StartManualFacts
  <2>5. IF r.how = "crash" THEN Ends(r.s, "timed")
        ELSE /\ up' = up /\ svc' = r.s /\ did' = "timed" /\ wait' \in 0..CycleInterval
             /\ owed' \in BOOLEAN /\ (owed' => owed \/ Shut(r.s))
    BY <1>1, <2>2 DEF OwedAfter
  <2> QED
    BY <2>3, <2>4, <2>5, MethodStep DEF Names
<1>9. CASE ApiStop
  <2>1. PICK r \in Gated(DrainWeather(svc, TRUE)) :
           IF r.how = "crash" THEN Ends(r.s, "stop")
           ELSE /\ svc' = r.s /\ did' = "stop" /\ up' = up
                /\ wait' = (IF r.how = "ok" /\ Unfaulted(r.s) THEN 0 ELSE wait)
                /\ owed' = OwedAfter("stop", r.s)
    BY <1>9 DEF ApiStop, Call
  <2>2. up /\ InOrder(svc)
    BY <1>1, <1>9 DEF ApiStop, Call
  <2>3. \A q \in DrainWeather(svc, TRUE) :
           /\ Turns(svc, q) /\ q.how \in Hows
           /\ q.how = "ok" => Faulted(q.s) \/ q.s.rec.off
           /\ q.how # "crash" => Fit(q.s) /\ q.how = "ok"
    BY <1>1, <2>2, DrainTurns DEF Turns, Orderly, InOrder
  <2>4. Turns(svc, r) /\ (r.how # "crash" => Faulted(r.s) \/ Shut(r.s))
    <3>1. PICK q \in DrainWeather(svc, TRUE) :
             \/ r.s = q.s /\ (r.how = IF q.how = "crash" THEN "crash" ELSE "ok")
             \/ /\ q.how # "crash" /\ r.how \in {"ok", "crash"} /\ Safe(q.s, r.s)
                /\ r.how = "ok" => Down(r.s)
      BY <2>1, <2>3, GatedFacts
    <3>2. /\ Turns(svc, q)
          /\ q.how # "crash" => q.how = "ok" /\ (Faulted(q.s) \/ q.s.rec.off)
      BY <2>3
    <3>3. CASE r.s = q.s /\ (r.how = IF q.how = "crash" THEN "crash" ELSE "ok")
      BY <3>2, <3>3 DEF Hows, Turns, Keeps, Shut
    <3>4. CASE /\ q.how # "crash" /\ r.how \in {"ok", "crash"} /\ Safe(q.s, r.s)
               /\ r.how = "ok" => Down(r.s)
      BY <3>2, <3>4, TurnsThenFalls DEF Hows, Down
    <3> QED
      BY <3>1, <3>3, <3>4
  <2>5. IF r.how = "crash" THEN Ends(r.s, "stop")
        ELSE /\ up' = up /\ svc' = r.s /\ did' = "stop" /\ wait' \in 0..CycleInterval
             /\ owed' \in BOOLEAN /\ (owed' => owed \/ Shut(r.s))
    BY <1>1, <2>1, <2>4 DEF OwedAfter
  <2> QED
    BY <2>2, <2>4, <2>5, MethodStep DEF Turns, Names
<1>10. CASE ApiDrain
  <2>1. PICK r \in DrainWeather(svc, TRUE) :
           IF r.how = "crash" THEN Ends(r.s, "stop")
           ELSE /\ svc' = r.s /\ did' = "stop" /\ up' = up
                /\ wait' = (IF r.how = "ok" /\ Always(r.s) THEN 0 ELSE wait)
                /\ owed' = OwedAfter("stop", r.s)
    BY <1>10 DEF ApiDrain, Call
  <2>2. up /\ InOrder(svc)
    BY <1>1, <1>10 DEF ApiDrain, Call
  <2>3. /\ Turns(svc, r) /\ r.how \in {"ok", "crash"}
        /\ r.how = "ok" => Faulted(r.s) \/ r.s.rec.off
    BY <1>1, <2>1, <2>2, DrainTurns
  <2>4. IF r.how = "crash" THEN Ends(r.s, "stop")
        ELSE /\ up' = up /\ svc' = r.s /\ did' = "stop" /\ wait' \in 0..CycleInterval
             /\ owed' \in BOOLEAN /\ (owed' => owed \/ Shut(r.s))
    BY <1>1, <2>1, <2>3 DEF OwedAfter, Shut
  <2> QED
    BY <2>2, <2>3, <2>4, MethodStep DEF Turns, Names
<1>11. CASE ApiClearFault
  <2>1. PICK r \in ClearFault(svc) :
           IF r.how = "crash" THEN Ends(r.s, "clear")
           ELSE /\ svc' = r.s /\ did' = "clear" /\ up' = up
                /\ wait' = (IF r.how = "ok" /\ Never(r.s) THEN 0 ELSE wait)
                /\ owed' = OwedAfter("clear", r.s)
    BY <1>11 DEF ApiClearFault, Call
  <2>2. up /\ InOrder(svc)
    BY <1>1, <1>11 DEF ApiClearFault, Call
  <2>3. /\ Turns(svc, r)
        /\ r.how # "crash" /\ Faulted(svc) => Faulted(r.s) \/ r.s.rec.off
    BY <1>1, <2>1, <2>2, ClearFaultTurns
  <2>4. IF r.how = "crash" THEN Ends(r.s, "clear")
        ELSE /\ up' = up /\ svc' = r.s /\ did' = "clear" /\ wait' \in 0..CycleInterval
             /\ owed' \in BOOLEAN /\ (owed' => owed \/ Shut(r.s))
    BY <1>1, <2>1, <2>3 DEF OwedAfter, Shut
  <2> QED
    BY <2>2, <2>3, <2>4, MethodStep DEF Turns, Names
<1>12. CASE \E limit \in Durations : ApiSettings(limit)
  <2>1. PICK limit \in Durations : ApiSettings(limit)
    BY <1>12
  <2>2. PICK r \in UpdateSettings(svc, limit) :
           IF r.how = "crash" THEN Ends(r.s, "settings")
           ELSE /\ svc' = r.s /\ did' = "settings" /\ up' = up
                /\ wait' = (IF r.how = "ok" /\ Never(r.s) THEN 0 ELSE wait)
                /\ owed' = OwedAfter("settings", r.s)
    BY <2>1 DEF ApiSettings, Call
  <2>3. up /\ InOrder(svc)
    BY <1>1, <2>1 DEF ApiSettings, Call
  <2>4. Turns(svc, r)
    BY <1>1, <2>2, <2>3, UpdateSettingsTurns
  <2>5. IF r.how = "crash" THEN Ends(r.s, "settings")
        ELSE /\ up' = up /\ svc' = r.s /\ did' = "settings" /\ wait' \in 0..CycleInterval
             /\ owed' \in BOOLEAN /\ (owed' => owed \/ Shut(r.s))
    BY <1>1, <2>2 DEF OwedAfter
  <2> QED
    BY <2>3, <2>4, <2>5, MethodStep DEF Turns, Names
<1>13. CASE ApiWeatherSettings
  <2>1. PICK r \in UpdateWeatherSettings(svc) :
           IF r.how = "crash" THEN Ends(r.s, "weather")
           ELSE /\ svc' = r.s /\ did' = "weather" /\ up' = up
                /\ wait' = (IF r.how = "ok" /\ Always(r.s) THEN 0 ELSE wait)
                /\ owed' = OwedAfter("weather", r.s)
    BY <1>13 DEF ApiWeatherSettings, Call
  <2>2. up /\ InOrder(svc)
    BY <1>1, <1>13 DEF ApiWeatherSettings, Call
  <2>3. Turns(svc, r)
    BY <1>1, <2>1, <2>2, UpdateWeatherSettingsTurns
  <2>4. IF r.how = "crash" THEN Ends(r.s, "weather")
        ELSE /\ up' = up /\ svc' = r.s /\ did' = "weather" /\ wait' \in 0..CycleInterval
             /\ owed' \in BOOLEAN /\ (owed' => owed \/ Shut(r.s))
    BY <1>1, <2>1 DEF OwedAfter
  <2> QED
    BY <2>2, <2>3, <2>4, MethodStep DEF Turns, Names
<1>14. CASE ApiStatus \/ ApiStoreFails
  <2>1. PICK r \in Status(svc) \cup LatchPersistenceFailure(svc) :
           IF r.how = "crash" THEN Ends(r.s, "status")
           ELSE /\ svc' = r.s /\ did' = "status" /\ up' = up
                /\ wait' = (IF r.how = "ok" /\ Never(r.s) THEN 0 ELSE wait)
                /\ owed' = OwedAfter("status", r.s)
    BY <1>14 DEF ApiStatus, ApiStoreFails, Call
  <2>2. up /\ InOrder(svc)
    BY <1>1, <1>14 DEF ApiStatus, ApiStoreFails, Call
  <2>3. Turns(svc, r)
    BY <1>1, <2>1, <2>2, StatusTurns, StoreFailsTurns
  <2>4. IF r.how = "crash" THEN Ends(r.s, "status")
        ELSE /\ up' = up /\ svc' = r.s /\ did' = "status" /\ wait' \in 0..CycleInterval
             /\ owed' \in BOOLEAN /\ (owed' => owed \/ Shut(r.s))
    BY <1>1, <2>1 DEF OwedAfter
  <2> QED
    BY <2>2, <2>3, <2>4, MethodStep DEF Turns, Names
<1>15. CASE Tick \/ ValveChanges
  <2>1. /\ up' = up /\ owed' = owed /\ wait' \in 0..CycleInterval /\ did' \in {"tick", "valve"}
        /\ svc' \in Later(svc) \/ svc' \in {svc, Lost(svc), Drained(svc)}
    <3>1. CASE Tick
      <4>1. wait' = (IF wait > 0 THEN wait - 1 ELSE wait) /\ CycleInterval \in Nat
        BY <3>1, WeatherAssumption DEF Tick
      <4>2. wait' \in 0..CycleInterval
        BY <1>1, <4>1
      <4> QED
        BY <3>1, <4>2 DEF Tick
    <3>2. CASE ValveChanges
      BY <1>1, <3>2 DEF ValveChanges
    <3> QED
      BY <1>15, <3>1, <3>2
  <2>2. /\ Sound(svc') /\ svc'.state = svc.state /\ svc'.timer = svc.timer
        /\ svc'.latched = svc.latched /\ svc'.rec = svc.rec /\ svc'.last = svc.last
        /\ svc'.valve = "supply" => svc.valve = "supply"
        /\ svc'.lease <= svc.lease
    <3>1. CASE svc' \in Later(svc)
      BY <1>1, <3>1, LaterFacts
    <3>2. CASE svc' \in {svc, Lost(svc), Drained(svc)}
      <4>1. Safe(svc, svc') /\ Same(svc, svc') /\ svc'.last = svc.last
        BY <1>1, <3>2, ValveOnly
      <4>2. svc'.lease <= svc.lease
        BY <1>1, <4>1 DEF Safe, NotGranted, Sound, Services
      <4> QED
        BY <4>1, <4>2 DEF Safe, NotGranted, Same
    <3> QED
      BY <2>1, <3>1, <3>2
  <2>3. /\ Recorded(svc')
        /\ Shut(svc') <=> Shut(svc)
        /\ Left(svc') <=> Left(svc)
        /\ InOrder(svc) => InOrder(svc')
    BY <1>1, <2>2
       DEF Recorded, Shut, Left, InOrder, Fit, Down, Honest, Agrees, Supplying, Faulted
  <2>4. Holds(up', svc', owed')
    BY <2>1, <2>2, <2>3 DEF IInv, Holds
  <2>5. IInv'
    BY <1>1, <2>1, <2>4, Primed DEF Names
  <2>6. ~Grants(svc, svc')
    BY <1>1, <2>2 DEF Grants, Sound, Services
  <2> QED
    BY <2>1, <2>2, <2>5, <2>6 DEF Promised
<1> QED
  BY <1>2, <1>3, <1>4, <1>5, <1>6, <1>7, <1>8, <1>9, <1>10, <1>11, <1>12, <1>13, <1>14, <1>15
     DEF Next

LEMMA Invariance == Spec => []IInv
<1>1. IInv /\ [Next]_vars => IInv'
  <2>1. IInv /\ UNCHANGED vars => IInv'
    BY DEF vars, IInv, TypeOK, Holds, Sound, Recorded, Shut, Left, InOrder, Fit, Down, Honest,
           Agrees, Supplying, Faulted
  <2> QED
    BY <2>1, NextStep
<1> QED
  BY <1>1, InitIInv, PTL DEF Spec

-----------------------------------------------------------------------------
(* The theorems. *)

(* Every variable stays within its type, wherever a method fails or the    *)
(* process ends: in particular the loop never sleeps longer than a cycle.  *)
THEOREM TypeCorrect == Spec => []TypeOK
<1>1. IInv => TypeOK
  BY DEF IInv
<1> QED
  BY <1>1, Invariance, PTL

(* An open valve is on record, by the marker or by a fault's inhibition,   *)
(* whatever was interrupted and whatever could not be written.             *)
THEOREM OpenIsRecorded == Spec => []SupplyIsRecorded
<1>1. IInv => SupplyIsRecorded
  BY DEF IInv, Holds, Recorded, SupplyIsRecorded
<1> QED
  BY <1>1, Invariance, PTL

(* While the process runs, its state, its timer and the record agree.      *)
THEOREM RecordAgrees == Spec => []StateMatchesRecord
<1>1. IInv => StateMatchesRecord
  BY DEF IInv, Holds, InOrder, Agrees, StateMatchesRecord
<1> QED
  BY <1>1, Invariance, PTL

LEMMA AlwaysPromised == Spec => [][Promised]_vars
  BY NextStep, Invariance, PTL DEF Spec

(* A confirmed STOP, a cleared fault and an interrupted supply keep the    *)
(* valve shut until a person's START, through any number of restarts.      *)
THEOREM OnlyABiddenStart == Spec => NeverUnbidden
<1>1. Promised => (Grants(svc, svc') => ~owed \/ did' = "start")
  BY DEF Promised
<1> QED
  BY <1>1, AlwaysPromised, PTL DEF NeverUnbidden

(* No cycle, settings, weather settings or status opens the valve again    *)
(* once the lease of a supply is gone.                                     *)
THEOREM RefusedRenewalEnds == Spec => RenewNeverBegins
<1>1. Promised => (did' \in {"cycle", "settings", "weather", "status"} /\ svc.last = "SUPPLY"
                     /\ svc.valve # "supply" => ~Grants(svc, svc'))
  BY DEF Promised
<1> QED
  BY <1>1, AlwaysPromised, PTL DEF RenewNeverBegins

(* A shower is over only with a confirmed DRAIN or in FAULT.               *)
THEOREM ShowerEndIsDrain == Spec => ShowerEndsInDrain
<1>1. Promised => (up /\ up' /\ svc.timer /\ ~svc'.timer =>
                      Faulted(svc') \/ (svc'.state = "MANUAL_DRAIN" /\ svc'.valve = "drain"))
  BY DEF Promised
<1> QED
  BY <1>1, AlwaysPromised, PTL DEF ShowerEndsInDrain
=============================================================================
