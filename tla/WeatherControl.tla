--------------------------- MODULE WeatherControl ---------------------------
(***************************************************************************)
(* The control service in its weather_assisted mode, its durable record    *)
(* and the paired valve behind it.                                         *)
(*                                                                         *)
(* The record - a user's inhibition, a fault's inhibition and the marker   *)
(* of a supply under way - outlives the process, so the process may end    *)
(* ("crash") at every call that has an effect: before it or after it.      *)
(* In this mode no exception of the driver goes through the service.       *)
(*                                                                         *)
(* Of the weather only the verdict matters here: whether the coordinator   *)
(* finds an eligible forecast, asked when a method begins and once more    *)
(* when its durable work is done.  The revisions of the record are left    *)
(* out: all its writers hold the service's lock, so no swap conflicts.     *)
(***************************************************************************)
EXTENDS HubCalls

CONSTANTS CycleInterval,   \* the longest the loop sleeps
          Durations        \* durations of a shower, and the settings' limits

ASSUME WeatherAssumption ==
    /\ CycleInterval \in Nat \ {0} /\ Lease \in Nat /\ Lease > CycleInterval
    /\ Durations \subseteq Nat \ {0} /\ Durations # {}

VARIABLES up,     \* the Hub process runs
          svc,    \* the ControlService object, its record and the valve
          wait,   \* time until the loop's next cycle
          did,    \* the method that ran last
          owed    \* history: only a person's START may open the valve again

vars == <<up, svc, wait, did, owed>>

Records == [off : BOOLEAN,                          \* user_off
            inhibited : BOOLEAN,                    \* fault_inhibited
            marker : {"none", "manual", "auto"}]    \* active_marker

Services ==
    [state    : {"STARTING", "MANUAL_DRAIN", "TIMED_SHOWER", "AUTO_SUPPLY", "FAULT"},
     last     : {"none", "DRAIN", "SUPPLY"},    \* _last_command
     ready    : BOOLEAN,                        \* _supply_ready
     timer    : BOOLEAN,                        \* the shower's deadlines are set
     left     : Int,                            \* monotonic deadline - now
     duration : Nat,                            \* _timed_shower_duration_s
     limit    : Durations,                      \* settings.timed_shower_max_s
     latched  : BOOLEAN,                        \* _persistence_fault_latched
     started  : BOOLEAN,                        \* _weather_started
     rec      : Records,
     valve    : {"drain", "supply", "unconfirmed"},
     lease    : 0..Lease]

(* A process that has just been assembled: only rec, limit and the valve   *)
(* are what an earlier one left.                                           *)
Fresh(s) ==
    [state |-> "STARTING", last |-> "none", ready |-> FALSE, timer |-> FALSE,
     left |-> 0, duration |-> 0, limit |-> s.limit, latched |-> FALSE,
     started |-> FALSE, rec |-> s.rec, valve |-> s.valve, lease |-> s.lease]

Supplying(s) == s.state \in {"TIMED_SHOWER", "AUTO_SUPPLY"}
Decide(s, state) == IF s.latched /\ state # "FAULT" THEN s ELSE [s EXCEPT !.state = state]
Crashed(s) == {[s |-> s, how |-> "crash"]}
Verdicts == BOOLEAN     \* what the coordinator may say of the forecast

-----------------------------------------------------------------------------
(* Calls to the driver and to the stores. *)

(* One command; in this mode a failed one also withdraws _supply_ready. *)
Attempt(s, action) ==
    LET Reached == Accepted(s, action)
    IN {[s |-> Confirmed(x, action), how |-> "ok"] : x \in Reached}
       \cup {[s |-> [x EXCEPT !.ready = FALSE], how |-> "error"] :
                x \in Reached \cup {s, Lost(s), Drained(s)}}
       \cup UNION {Crashed(x) : x \in Reached \cup {s}}

(* A second attempt that confirms the pair does not mend the call. *)
Late(s) == Refused([s EXCEPT !.ready = FALSE])

SendDrainQuietly(s) ==
    Then(Attempt(s, "drain"), Done, LAMBDA x : Then(Attempt(x, "drain"), Late, Refused))

(* _persist_weather_fault: a failure to write is ignored. *)
PersistFault(s) ==
    LET written == [s EXCEPT !.rec.off = TRUE, !.rec.inhibited = TRUE]
    IN Done(s) \cup Done(written) \cup Crashed(s) \cup Crashed(written)

LatchPersistenceFailure(s) ==
    IF s.latched THEN Done(s)
    ELSE Regardless(PersistFault([s EXCEPT !.latched = TRUE]), LAMBDA x :
             Regardless(SendDrainQuietly(NoTimer(x)), LAMBDA y :
                 Done([y EXCEPT !.state = "FAULT"])))

(* A call to a store that may fail; its failure latches. *)
Stored(s) == Done(s) \cup Regardless(LatchPersistenceFailure(s), Refused)

(* _weather_record and _save_weather_record. *)
Load(s) == Stored(s)
Save(s, rec) ==
    LET saved == [s EXCEPT !.rec = rec]
    IN Done(saved) \cup Crashed(s) \cup Crashed(saved)
       \cup Regardless(LatchPersistenceFailure(s), Refused)

SendSupply(s, action) ==
    IF ~s.ready THEN Refused(s)
    ELSE Then(Attempt(s, action), Done, LAMBDA x : Regardless(Stored(x), Refused))

SendDrain(s) ==
    Then(Attempt(s, "drain"), Done, LAMBDA x :
        Then(Stored(x), LAMBDA y :
            Then(Attempt(y, "drain"), Late, LAMBDA z : Regardless(Stored(z), Refused)),
            Refused))

(* _fault *)
Fault(s) ==
    IF s.latched THEN Done(s)
    ELSE Regardless(PersistFault(Decide(NoTimer(s), "FAULT")),
                    LAMBDA x : Regardless(Stored(x), Done))

AbortSupply(s) == Regardless(SendDrain(s), Fault)

-----------------------------------------------------------------------------
(* The methods of the service. *)

(* The end of _drain_weather: the marker goes once DRAIN is confirmed. *)
Settle(s) ==
    LET done(x) == IF Faulted(s) \/ s.rec.inhibited THEN x ELSE Decide(x, "MANUAL_DRAIN")
    IN IF s.rec.marker # "none" \/ (Faulted(s) /\ ~s.rec.inhibited)
       THEN Then(Save(s, [off |-> s.rec.off \/ Faulted(s), marker |-> "none",
                          inhibited |-> s.rec.inhibited \/ Faulted(s)]),
                 LAMBDA x : Done(done(x)), Done)
       ELSE Done(done(s))

\* Mutants: a DRAIN leaves the timer running; a DRAIN nobody asked for is not sent.
DrainKeepsTimer(s, inhibit) ==
    LET Quietly(x) == Regardless(SendDrainQuietly(x), Done)
    IN Then(Load(s), LAMBDA x :
           Then(IF inhibit THEN Save(x, [x.rec EXCEPT !.off = TRUE]) ELSE Done(x),
                LAMBDA y : Then(SendDrain(y),
                                LAMBDA z : Then(Load(z), Settle, Done), Fault),
                Quietly),
           Quietly)

DrainUnsent(s, inhibit) ==
    IF inhibit THEN DrainKeepsTimer(NoTimer(s), inhibit)
    ELSE Then(Load(NoTimer(s)), Settle, Done)

(* _drain_weather.  A DRAIN nobody asked for is left out if the last       *)
(* confirmed command was a DRAIN.                                          *)
DrainWeather(s, inhibit) ==
    LET Quietly(x) == Regardless(SendDrainQuietly(x), Done)
        Command(x) == IF inhibit \/ x.last # "DRAIN" THEN SendDrain(x) ELSE Done(x)
    IN Then(Load(s), LAMBDA x :
           Then(IF inhibit THEN Save(x, [x.rec EXCEPT !.off = TRUE]) ELSE Done(x),
                LAMBDA y : Then(Command(NoTimer(y)),
                                LAMBDA z : Then(Load(z), Settle, Done), Fault),
                Quietly),
           Quietly)

\* Mutants: a refused RENEW is made good with a BEGIN; the marker is not on record first.
DispatchAgain(s, marker, action, nonce) ==
    LET open(x) == Done(Decide(x, IF marker = "manual" THEN "TIMED_SHOWER" ELSE "AUTO_SUPPLY"))
    IN Then(SendSupply(s, action), open, LAMBDA x :
           Then(SendDrain(x), LAMBDA y : Then(SendSupply(y, "begin"), open, AbortSupply), Fault))

SupplyUnrecorded(s, marker, nonce) ==
    Then(SendSupply(s, SupplyAction(s)), LAMBDA x :
        Then(Save(x, [x.rec EXCEPT !.marker = marker]), LAMBDA y :
            Done(Decide(y, IF marker = "manual" THEN "TIMED_SHOWER" ELSE "AUTO_SUPPLY")), Done),
        AbortSupply)

(* The last checks before a SUPPLY goes out, after the durable work: the   *)
(* forecast may no longer do, the deadline may have passed while the disk  *)
(* was slow, and the action's nonce, if there is one, may be too old.      *)
Dispatch(s, marker, action, nonce) ==
    DrainWeather(s, FALSE)
    \cup (IF nonce THEN AbortSupply(s) ELSE {})
    \cup (IF marker = "manual" /\ s.timer /\ Expired(s) THEN {}
          ELSE Then(SendSupply(s, action), LAMBDA x :
                   Done(Decide(x, IF marker = "manual" THEN "TIMED_SHOWER" ELSE "AUTO_SUPPLY")),
                   AbortSupply))

(* _weather_supply: a BEGIN is on record before it is sent; a RENEW must   *)
(* be of the supply that is on record.                                     *)
WeatherSupply(s, marker, nonce) ==
    Then(Load(s), LAMBDA x :
        IF x.rec.off \/ x.rec.inhibited THEN DrainWeather(x, FALSE)
        ELSE IF SupplyAction(x) = "begin"
        THEN Then(Save(x, [x.rec EXCEPT !.marker = marker]),
                  LAMBDA y : Dispatch(y, marker, "begin", nonce), Done)
        ELSE IF x.rec.marker # marker THEN AbortSupply(x)
        ELSE Dispatch(x, marker, "renew", nonce),
        Done)

(* _run_weather; the coordinator's tick reads the store once more. *)
RunWeather(s, verdicts) ==
    IF Faulted(s) \/ ~s.started THEN Done(s)
    ELSE Then(Load(s), LAMBDA x :
        IF x.rec.inhibited
        THEN Regardless(SendDrain(x), LAMBDA y : Done(Decide(y, "FAULT")))
        ELSE Then(Load(x), LAMBDA y :
                 IF y.timer
                 THEN IF Expired(y) THEN DrainWeather(y, FALSE)
                      ELSE WeatherSupply(y, "manual", FALSE)
                 ELSE UNION {IF ~y.rec.off /\ eligible
                             THEN WeatherSupply(y, "auto", FALSE)
                             ELSE DrainWeather(y, FALSE) : eligible \in verdicts},
                 Done),
        Done)

(* _start_weather_manual: a supply under way is drained first. *)
StartManual(s, duration, nonce) ==
    IF Faulted(s) \/ ~s.started THEN Done(s)
    ELSE Then(Load(s), LAMBDA x :
        IF x.rec.off \/ x.rec.inhibited THEN Done(x)
        ELSE IF x.timer THEN IF Expired(x) THEN DrainWeather(x, FALSE) ELSE Done(x)
        ELSE IF duration > x.limit THEN Done(x)
        ELSE Regardless(IF x.last = "SUPPLY" THEN DrainWeather(x, FALSE) ELSE Done(x),
                 LAMBDA y : IF Faulted(y) THEN Done(y)
                            ELSE Regardless(WeatherSupply(y, "manual", nonce), LAMBDA z :
                                Done(IF z.state # "TIMED_SHOWER" THEN z
                                     ELSE [z EXCEPT !.timer = TRUE, !.left = duration,
                                                    !.duration = duration]))),
        Done)

(* start_weather_shower: the inhibition is lifted durably before SUPPLY. *)
StartShower(s, duration) ==
    IF Faulted(s) \/ ~s.started THEN Done(s)
    ELSE IF s.timer THEN StartManual(s, duration, TRUE)
    ELSE Then(Load(s), LAMBDA x :
        IF x.rec.inhibited THEN Fault(x)
        ELSE Then(Load(x), LAMBDA y :
            UNION {IF ~eligible /\ duration > y.limit THEN Done(y)
                   ELSE Then(Save(y, [y.rec EXCEPT !.off = FALSE]), LAMBDA z :
                            IF eligible THEN WeatherSupply(z, "auto", TRUE)
                            ELSE StartManual(z, duration, TRUE), Done)
                   : eligible \in Verdicts}, Done),
        Done)

\* Mutant: clearing the fault lifts the inhibition too.
ClearFaultAll(s) ==
    IF ~Faulted(s) \/ s.latched THEN Done(s)
    ELSE Then(SendDrain(s), LAMBDA x :
             Then(Save(x, [off |-> FALSE, inhibited |-> FALSE, marker |-> "none"]),
                  LAMBDA z : Done(Decide(z, "MANUAL_DRAIN")), Done), Done)

(* clear_fault: confirms DRAIN and leaves the user's inhibition. *)
ClearFault(s) ==
    IF ~Faulted(s) \/ s.latched THEN Done(s)
    ELSE Then(SendDrain(s), LAMBDA x : Then(Load(x), LAMBDA y :
             Then(Save(y, [off |-> TRUE, inhibited |-> FALSE, marker |-> "none"]),
                  LAMBDA z : Done(Decide(z, "MANUAL_DRAIN")), Done), Done), Done)

UpdateSettings(s, limit) ==
    Then(Stored([s EXCEPT !.limit = limit]), LAMBDA x :
        IF ~x.timer THEN RunWeather(x, Verdicts)
        ELSE IF limit < x.duration THEN DrainWeather(x, TRUE) ELSE Done(x), Done)

(* update_weather_settings; settings that changed drop the forecast. *)
UpdateWeatherSettings(s) == Then(Stored(s), LAMBDA x : RunWeather(x, Verdicts), Refused)

(* The gate's status: reading it ends a shower whose time is over. *)
Status(s) ==
    Regardless(IF s.timer /\ Expired(s) THEN DrainWeather(s, FALSE) ELSE Done(s),
               LAMBDA x : Regardless(Stored(x), Done))

(* startup: a marker left behind inhibits before it is cleared, and the    *)
(* first cycle has no forecast yet.                                        *)
Recover(s) ==
    Then(Save(s, [s.rec EXCEPT !.off = @ \/ s.rec.marker # "none"]), LAMBDA x :
        Then(IF x.rec.marker = "none" THEN Done(x)
             ELSE Save(x, [x.rec EXCEPT !.marker = "none"]),
             LAMBDA y : RunWeather([y EXCEPT !.started = TRUE], {FALSE}), Done), Done)

Startup(s) ==
    Then(SendDrain(s), LAMBDA x : Then(Stored(x), Recover, Done), Fault)

(* recover_pending: an action whose outcome is unknown, left by an earlier *)
(* process, inhibits.                                                      *)
Reconcile(s) ==
    LET inhibited == [s EXCEPT !.rec.off = TRUE, !.rec.inhibited = TRUE]
    IN Done(s) \cup Crashed(inhibited)
       \cup Regardless(LatchPersistenceFailure(s), Done)
       \cup Regardless(LatchPersistenceFailure(inhibited), Done)

-----------------------------------------------------------------------------
(* The process, its loop and its callers. *)

Init ==
    /\ up = FALSE /\ wait = 0 /\ did = "boot" /\ owed = FALSE
    /\ \E limit \in Durations :
          svc = Fresh([limit |-> limit, valve |-> "unconfirmed", lease |-> 0,
                       rec |-> [off |-> FALSE, inhibited |-> FALSE, marker |-> "none"]])

(* The process ends, perhaps inside a method, and leaves the record and    *)
(* the valve behind.                                                       *)
Ends(s, name) ==
    /\ up' = FALSE /\ svc' = Fresh(s) /\ wait' = 0 /\ did' = name
    /\ owed' = ((owed /\ name # "start") \/ s.valve = "supply")

Boot ==
    /\ ~up
    /\ \E r \in Regardless(Startup(svc), Reconcile) :
          IF r.how = "crash" THEN Ends(r.s, "boot")
          ELSE /\ up' = TRUE /\ svc' = r.s /\ wait' = 0 /\ did' = "boot"
               /\ UNCHANGED owed

Crash == up /\ Ends(svc, "boot")

Shutdown ==
    up /\ \E r \in DrainWeather([svc EXCEPT !.started = FALSE], FALSE) : Ends(r.s, "boot")

\* Mutant: the deadline does not shorten the sleep, it is the sleep.
SleepToTheEnd(s) == IF s.timer THEN s.left ELSE CycleInterval

Sleep(s) == IF s.timer /\ s.left < CycleInterval THEN s.left ELSE CycleInterval

Cycle ==
    /\ up /\ wait = 0
    /\ \E r \in RunWeather(svc, Verdicts) :
          IF r.how = "crash" THEN Ends(r.s, "cycle")
          ELSE /\ svc' = r.s /\ wait' = Sleep(r.s) /\ did' = "cycle"
               /\ UNCHANGED <<up, owed>>

(* The weather worker's thread wakes the loop when a fetch has ended. *)
Notify ==
    up /\ wait' = 0 /\ did' = "notify" /\ UNCHANGED <<up, svc, owed>>

(* A STOP that is confirmed and a fault that is cleared leave it to a      *)
(* person to open the valve again.                                         *)
OwedAfter(name, s) ==
    IF name = "start" THEN FALSE
    ELSE owed \/ (name = "stop" /\ ~Faulted(s))
              \/ (name = "clear" /\ Faulted(svc) /\ ~Faulted(s))

(* A call of the API; some handlers wake the loop once the method returned. *)
Call(name, results, wakes(_)) ==
    /\ up
    /\ \E r \in results :
          IF r.how = "crash" THEN Ends(r.s, name)
          ELSE /\ svc' = r.s /\ did' = name /\ up' = up
               /\ wait' = IF r.how = "ok" /\ wakes(r.s) THEN 0 ELSE wait
               /\ owed' = OwedAfter(name, r.s)

(* The gate latches if the answer would come too late, or it cannot store  *)
(* the outcome; the handler wakes the loop if the action was accepted.     *)
Gated(results) ==
    Regardless(results, LAMBDA x : Done(x) \cup Regardless(LatchPersistenceFailure(x), Done))

Always(s) == TRUE
Never(s)  == FALSE
Unfaulted(s) == ~Faulted(s)

ApiStart(d)        == Call("start", Gated(StartShower(svc, d)), Supplying)
ApiTimedShower(d)  == Call("timed", StartManual(svc, d, FALSE), Supplying)
ApiStop            == Call("stop", Gated(DrainWeather(svc, TRUE)), Unfaulted)
ApiDrain           == Call("stop", DrainWeather(svc, TRUE), Always)
ApiClearFault      == Call("clear", ClearFault(svc), Never)
ApiSettings(limit) == Call("settings", UpdateSettings(svc, limit), Never)
ApiWeatherSettings == Call("weather", UpdateWeatherSettings(svc), Always)
ApiStatus          == Call("status", Status(svc), Never)
ApiStoreFails      == Call("status", LatchPersistenceFailure(svc), Never)

Tick ==
    /\ up => wait # 0
    /\ wait' = IF wait > 0 THEN wait - 1 ELSE wait
    /\ svc' \in Later(svc)
    /\ did' = "tick" /\ UNCHANGED <<up, owed>>

(* The daemon on its own: it drains a pair it is not sure of, it drains    *)
(* when Node-RED restarts, and a restarted daemon has no lease.            *)
ValveChanges ==
    /\ svc' \in {Drained(svc), Lost(svc)} /\ svc' # svc
    /\ did' = "valve" /\ UNCHANGED <<up, wait, owed>>

Next ==
    \/ Boot \/ Crash \/ Shutdown \/ Cycle \/ Notify
    \/ \E d \in Durations : ApiStart(d)
    \/ \E d \in Durations : ApiTimedShower(d)
    \/ ApiStop \/ ApiDrain \/ ApiClearFault
    \/ \E limit \in Durations : ApiSettings(limit)
    \/ ApiWeatherSettings \/ ApiStatus \/ ApiStoreFails
    \/ Tick \/ ValveChanges

Spec == Init /\ [][Next]_vars

-----------------------------------------------------------------------------
(* Properties *)

(* Every variable stays within its type. *)
TypeOK ==
    /\ up \in BOOLEAN /\ svc \in Services /\ wait \in 0..CycleInterval
    /\ did \in {"boot", "cycle", "notify", "start", "timed", "stop", "clear",
                "settings", "weather", "status", "tick", "valve"}
    /\ owed \in BOOLEAN

(* An open valve is on record: the marker is written before BEGIN, and it  *)
(* or a fault's inhibition outlasts lost receipts, failed DRAINs, failed   *)
(* writes, a crash and a shutdown, so that no later process takes the      *)
(* supply for one that ended well.                                         *)
SupplyIsRecorded ==
    svc.valve = "supply" => svc.rec.marker # "none" \/ svc.rec.inhibited

(* What the service believes, what it reports and what is on record agree: *)
(* TIMED_SHOWER exactly while a deadline is set, the marker names the      *)
(* supply under way, and neither inhibition is in force during one.        *)
StateMatchesRecord ==
    up => /\ svc.state = "TIMED_SHOWER" <=> svc.timer
          /\ Supplying(svc) =>
                /\ svc.rec.marker = (IF svc.timer THEN "manual" ELSE "auto")
                /\ ~svc.rec.off /\ ~svc.rec.inhibited

(* A STOP that was confirmed, a fault that was cleared and a supply that   *)
(* the end of the process interrupted keep the valve shut until a person's *)
(* START, through restarts, good forecasts, settings and failed writes.    *)
NeverUnbidden == [][Grants(svc, svc') => ~owed \/ did' = "start"]_vars

(* A renewal that is refused is never turned into a new supply: once the   *)
(* lease is gone, no cycle, settings or status opens the valve again.      *)
RenewNeverBegins ==
    [][did' \in {"cycle", "settings", "weather", "status"} /\ svc.last = "SUPPLY"
         /\ svc.valve # "supply" => ~Grants(svc, svc')]_vars

(* A shower that ends, ends in a confirmed DRAIN or in FAULT: at expiry    *)
(* the controller does not hand over to AUTO in the same step.             *)
ShowerEndsInDrain ==
    [][up /\ up' /\ svc.timer /\ ~svc'.timer =>
          Faulted(svc') \/ (svc'.state = "MANUAL_DRAIN" /\ svc'.valve = "drain")]_vars
=============================================================================
