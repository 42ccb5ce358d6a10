--------------------------- MODULE ControlService ---------------------------
(***************************************************************************)
(* The Hub's control service in its safe_drain, manual_timed and automatic *)
(* modes, the periodic loop that drives it, and the paired valve behind    *)
(* it.  (weather_assisted has a module of its own.)                        *)
(*                                                                         *)
(* Every public method of ControlService runs under one reentrant lock, so *)
(* a method is one step.  "raise" is an exception that is not an           *)
(* AdapterError and so goes through the method.                            *)
(*                                                                         *)
(* Time is discrete, and what is kept is the time left until each event.   *)
(* Calls take none of it.                                                  *)
(***************************************************************************)
EXTENDS HubCalls

CONSTANTS Modes,       \* the operating modes to consider
          CycleInterval,   \* cycle_interval_s, the longest the loop sleeps
          Durations,   \* durations a shower may be asked for, and settings' limits
          Failures     \* how a driver call may fail: "error", "raise"

ASSUME ServiceAssumption ==
    /\ Modes \subseteq {"safe_drain", "manual_timed", "automatic"}
    /\ CycleInterval \in Nat \ {0} /\ Lease \in Nat /\ Lease > CycleInterval
    /\ Durations \subseteq Nat \ {0} /\ Durations # {}
    /\ Failures \subseteq {"error", "raise"}

VARIABLES mode,   \* the operating mode the process was assembled with
          up,     \* the Hub process runs
          svc,    \* the ControlService object, and the valve it commands
          wait,   \* time until the loop's next cycle, or dead with its thread
          did,    \* the method that ran last
          broken  \* an exception has gone through a method since the process started

vars == <<mode, up, svc, wait, did, broken>>

dead == 0 - 1

States == {"STARTING", "SAFE_DRAIN", "MANUAL_DRAIN", "FROST_PROTECTION",
           "NORMAL", "TIMED_SHOWER", "FAULT"}

Services ==
    [state    : States,
     command  : {"DRAIN", "SUPPLY"},            \* _last_decision.command
     last     : {"none", "DRAIN", "SUPPLY"},    \* _last_command
     ready    : BOOLEAN,                        \* _supply_ready
     timer    : BOOLEAN,                        \* a shower's deadlines are set
     left     : Int,                            \* monotonic deadline - now
     duration : Nat,                            \* _timed_shower_duration_s
     limit    : Durations,                      \* settings.timed_shower_max_s
     latched  : BOOLEAN,                        \* _persistence_fault_latched
     valve    : {"drain", "supply", "unconfirmed"},
     lease    : 0..Lease]                       \* time left on the daemon's lease

(* What a process that has just been assembled starts from. *)
Fresh(valve, lease, limit) ==
    [state |-> "STARTING", command |-> "DRAIN", last |-> "none", ready |-> FALSE,
     timer |-> FALSE, left |-> 0, duration |-> 0, limit |-> limit,
     latched |-> FALSE, valve |-> valve, lease |-> lease]

IdleState == CASE mode = "manual_timed" -> "MANUAL_DRAIN"
               [] mode = "safe_drain"   -> "SAFE_DRAIN"
               [] mode = "automatic"    -> "FROST_PROTECTION"

(* _set_decision: a latched persistence fault admits no other state. *)
Decide(s, state, command) ==
    IF s.latched /\ state # "FAULT" THEN s
    ELSE [s EXCEPT !.state = state, !.command = command]

-----------------------------------------------------------------------------
(* One command to the actuator driver. *)

(* A failed call says nothing of its effect: the daemon may have obeyed    *)
(* and the receipt was lost, it may never have seen the command, or its    *)
(* GPIO readback failed and it has drained or is still trying to.          *)
Attempt(s, action) ==
    {[s |-> Confirmed(x, action), how |-> "ok"] : x \in Accepted(s, action)}
    \cup {[s |-> x, how |-> f] :
             x \in Accepted(s, action) \cup {s, Lost(s), Drained(s)}, f \in Failures}

(* _send(DRAIN, force=True, record_error=False): two attempts, no events. *)
SendDrainQuietly(s) ==
    Then(Attempt(s, "drain"), Done, LAMBDA x : Attempt(x, "drain"))

(* _latch_persistence_failure: only the first failure does anything.  If   *)
(* its DRAIN raises, the state is never set.                               *)
LatchPersistenceFailure(s) ==
    IF s.latched THEN Done(s)
    ELSE Regardless(SendDrainQuietly(NoTimer([s EXCEPT !.latched = TRUE])),
                    LAMBDA x : Done([x EXCEPT !.state = "FAULT", !.command = "DRAIN"]))

(* _append_event: the event is stored, or the failure to store it latches. *)
AppendEvent(s) ==
    Done(s) \cup Regardless(LatchPersistenceFailure(s), Refused)

(* An event that is the last thing a method does. *)
Record(s) == Regardless(AppendEvent(s), Done)

(* _send: DRAIN has two attempts and SUPPLY one; every failed attempt is   *)
(* recorded, and if that cannot be stored the call gives up.               *)
SendSupply(s, action) ==
    IF ~s.ready THEN Refused(s)
    ELSE Then(Attempt(s, action), Done,
              LAMBDA x : Regardless(AppendEvent(x), Refused))

SendDrain(s) ==
    Then(Attempt(s, "drain"), Done,
         LAMBDA x : Then(AppendEvent(x),
                         LAMBDA y : Then(Attempt(y, "drain"), Done,
                                         LAMBDA z : Regardless(AppendEvent(z), Refused)),
                         Refused))

(* _fault *)
Fault(s) ==
    IF s.latched THEN Done(s)
    ELSE Record(Decide(NoTimer(s), "FAULT", "DRAIN"))

\* Mutant: a refused SUPPLY is drained but not taken for a fault.
AbortWithoutFault(s) == Regardless(SendDrain(s), Done)

(* A SUPPLY was not confirmed: DRAIN as well as can be, then FAULT. *)
AbortSupply(s) == Regardless(SendDrain(s), Fault)

-----------------------------------------------------------------------------
(* The methods of the service. *)

(* drain and _finish_timed_shower: DRAIN is commanded whatever the Hub     *)
(* believes the valve to be.                                               *)
DrainNow(s) ==
    Then(SendDrain(NoTimer(s)),
         LAMBDA x : Record(Decide(x, IdleState, "DRAIN")),
         Fault)

(* The policy's decision for healthy inputs may be either command.  An     *)
(* unchanged DRAIN is not sent again.                                      *)
ActOn(s, command) ==
    IF command = "SUPPLY"
    THEN Then(SendSupply(s, SupplyAction(s)),
              LAMBDA x : Record(Decide(x, "NORMAL", "SUPPLY")), AbortSupply)
    ELSE Then(IF s.last = "DRAIN" THEN Done(s) ELSE SendDrain(s),
              LAMBDA x : Record(Decide(x, "FROST_PROTECTION", "DRAIN")), Fault)

(* _run_automatic: the inputs are read; the sensor reports an error, which *)
(* is recorded, or a store breaks, and the reading counts as stale or the  *)
(* forecast as missing.  That is FAULT, unless an earlier failure had been *)
(* latched without it.                                                     *)
RunAutomatic(s) ==
    IF Faulted(s) THEN Done(s)
    ELSE ActOn(s, "SUPPLY") \cup ActOn(s, "DRAIN")
         \cup Regardless(AppendEvent(s) \cup LatchPersistenceFailure(s),
                         LAMBDA x : IF Faulted(x) THEN Done(x) ELSE ActOn(x, "DRAIN"))

RunIdle(s) ==
    IF mode = "automatic" THEN RunAutomatic(s)
    ELSE IF Faulted(s) THEN Done(s)
    ELSE Then(SendDrain(s), LAMBDA x : Done(Decide(x, IdleState, "DRAIN")), Fault)

\* Mutant: an active shower is renewed without a look at its deadline.
RenewRegardless(s) ==
    IF Faulted(s) THEN Done(s)
    ELSE IF ~s.timer THEN RunIdle(s)
    ELSE Then(SendSupply(s, "renew"),
              LAMBDA x : Done(Decide(x, "TIMED_SHOWER", "SUPPLY")), AbortSupply)

RunCycle(s) ==
    IF Faulted(s) THEN Done(s)
    ELSE IF ~s.timer THEN RunIdle(s)
    ELSE IF Expired(s) THEN DrainNow(s)
    ELSE Then(SendSupply(s, "renew"),
              LAMBDA x : Done(Decide(x, "TIMED_SHOWER", "SUPPLY")), AbortSupply)

(* The SUPPLY that opens a shower; its deadline is set once it is confirmed. *)
BeginShower(s, duration) ==
    Then(SendSupply(s, SupplyAction(s)),
         LAMBDA x : Record(Decide([x EXCEPT !.timer = TRUE, !.left = duration,
                                             !.duration = duration],
                                   "TIMED_SHOWER", "SUPPLY")),
         AbortSupply)

\* Mutant: START is served in FAULT.
StartInFault(s, duration) ==
    IF mode = "safe_drain" \/ s.timer THEN Done(s) ELSE BeginShower(s, duration)

StartTimedShower(s, duration) ==
    IF Faulted(s) THEN Done(s)
    ELSE IF mode = "safe_drain"
    THEN Regardless(RunIdle(s), LAMBDA x :
             Done(IF Faulted(x) THEN x ELSE Decide(x, "SAFE_DRAIN", "DRAIN")))
    ELSE IF s.timer
    THEN IF Expired(s) THEN DrainNow(s)
         ELSE Done(Decide(s, "TIMED_SHOWER", "SUPPLY"))
    ELSE IF mode = "manual_timed" /\ s.limit < duration
    THEN Done(Decide(s, "MANUAL_DRAIN", "DRAIN"))
    ELSE BeginShower(s, IF duration < s.limit THEN duration ELSE s.limit)

ClearFault(s) ==
    IF ~Faulted(s) \/ s.latched THEN Done(s)
    ELSE Then(SendDrain(s),
              LAMBDA x : Then(AppendEvent([x EXCEPT !.state = IdleState]), RunIdle, Done),
              Done)

(* update_settings keeps a manual shower that the new limit still allows. *)
UpdateSettings(s, limit) ==
    Then(AppendEvent([s EXCEPT !.limit = limit]),
         LAMBDA x : IF x.timer /\ mode = "manual_timed"
                    THEN IF limit < x.duration THEN DrainNow(x) ELSE Done(x)
                    ELSE RunIdle(x),
         Done)

(* status: reading it ends a shower whose time is over. *)
Status(s) ==
    Regardless(IF s.timer /\ Expired(s) THEN DrainNow(s) ELSE Done(s), LAMBDA x :
        Done(x) \cup (IF mode = "automatic" THEN LatchPersistenceFailure(x) ELSE {}))

(* refresh_forecast: fetched and stored, failed, or the store broke. *)
RefreshForecast(s) ==
    IF mode # "automatic" THEN Done(s)
    ELSE Record(s) \cup Regardless(LatchPersistenceFailure(s), Done)

Startup(s) ==
    Then(SendDrain(s), LAMBDA x : Then(AppendEvent(x), LAMBDA y :
             IF mode = "automatic" THEN RunIdle(y)
             ELSE Done(Decide(y, IdleState, "DRAIN")), Done),
         Fault)

-----------------------------------------------------------------------------
(* The process, its loop and its callers. *)

Init ==
    /\ mode \in Modes
    /\ up = FALSE /\ wait = 0 /\ did = "boot" /\ broken = FALSE
    /\ \E limit \in Durations : svc = Fresh("unconfirmed", 0, limit)

(* Assembly and the lifespan's startup; the loop starts at once.  An       *)
(* exception ends the process.                                             *)
Boot ==
    /\ ~up
    /\ \E r \in Startup(Fresh(svc.valve, svc.lease, svc.limit)) :
          svc' = r.s /\ up' = (r.how # "raise")
    /\ wait' = 0 /\ did' = "boot" /\ broken' = FALSE
    /\ UNCHANGED mode

(* The process ends and leaves the valve and its lease behind. *)
Ends(s) ==
    /\ svc' = Fresh(s.valve, s.lease, s.limit)
    /\ up' = FALSE /\ wait' = 0 /\ did' = "boot" /\ broken' = FALSE
    /\ UNCHANGED mode

(* Killed, perhaps inside a method, when some of its commands are out. *)
Crash ==
    /\ up
    /\ \/ Ends(svc)
       \/ \E r \in Attempt(svc, "drain") : Ends(r.s)
       \/ svc.ready /\ ~Faulted(svc)
          /\ \E r \in Attempt(svc, "begin") \cup Attempt(svc, "renew") : Ends(r.s)

(* The lifespan ends: the loop is stopped, the service drains. *)
Shutdown == up /\ \E r \in DrainNow(svc) : Ends(r.s)

\* Mutants: the deadline, or the cycle, does not shorten the sleep.
SleepACycle(s)    == CycleInterval
SleepToTheEnd(s)  == IF s.timer THEN s.left ELSE CycleInterval

(* The loop sleeps until its next cycle, or until the deadline if that is  *)
(* sooner.                                                                 *)
Sleep(s) == IF s.timer /\ s.left < CycleInterval THEN s.left ELSE CycleInterval

(* One round of the loop.  An exception is taken for a persistence failure; *)
(* a second one, out of that handler, ends the thread.                     *)
Round(s) == RunCycle(s) \cup Regardless(RefreshForecast(s), RunCycle)

Guarded(r) == IF r.how = "raise" THEN LatchPersistenceFailure(r.s) ELSE {r}

Cycle ==
    /\ up /\ wait = 0
    /\ \E first \in Round(svc) : \E r \in Guarded(first) :
          /\ svc' = r.s
          /\ wait' = IF r.how = "raise" THEN dead ELSE Sleep(r.s)
          /\ broken' = (broken \/ first.how = "raise")
    /\ did' = "cycle"
    /\ UNCHANGED <<mode, up>>

(* A call of the API; some handlers wake the loop once the method returned. *)
Call(name, results, wakes(_)) ==
    /\ up
    /\ \E r \in results :
          /\ svc' = r.s
          /\ wait' = IF r.how # "raise" /\ wakes(r.s) /\ wait # dead THEN 0 ELSE wait
          /\ broken' = (broken \/ r.how = "raise")
    /\ did' = name
    /\ UNCHANGED <<mode, up>>

ApiStart(d)      == Call("start", StartTimedShower(svc, d), LAMBDA s : s.command = "SUPPLY")
ApiDrain         == Call("drain", DrainNow(svc), LAMBDA s : TRUE)
ApiClearFault    == Call("clear", ClearFault(svc), LAMBDA s : FALSE)
ApiSettings(max) == Call("settings", UpdateSettings(svc, max), LAMBDA s : FALSE)
ApiStatus        == Call("status", Status(svc), LAMBDA s : FALSE)

(* A handler's own store failed: PUT settings calls handle_persistence_failure. *)
ApiStoreFails    == Call("storage", LatchPersistenceFailure(svc), LAMBDA s : FALSE)

(* Time passes for the timer, the daemon's lease and the loop, which is    *)
(* never late for its cycle.  A lease that runs out is drained.            *)
Tick ==
    /\ up => wait # 0
    /\ wait' = IF wait > 0 THEN wait - 1 ELSE wait
    /\ svc' \in Later(svc)
    /\ did' = "tick"
    /\ UNCHANGED <<mode, up, broken>>

(* The daemon on its own: it drains a pair it is not sure of, it drains    *)
(* when Node-RED restarts, and a restarted daemon has no lease.            *)
ValveDrained == svc.valve # "drain" /\ svc' = Drained(svc) /\ did' = "valve"
                /\ UNCHANGED <<mode, up, wait, broken>>
ValveLost    == svc.valve # "unconfirmed" /\ svc' = Lost(svc) /\ did' = "valve"
                /\ UNCHANGED <<mode, up, wait, broken>>

Next ==
    \/ Boot \/ Crash \/ Shutdown \/ Cycle
    \/ \E d \in Durations : ApiStart(d)
    \/ ApiDrain \/ ApiClearFault
    \/ \E max \in Durations : ApiSettings(max)
    \/ ApiStatus \/ ApiStoreFails
    \/ Tick \/ ValveDrained \/ ValveLost

Spec == Init /\ [][Next]_vars

(* The loop's thread runs when its wait is over, and time passes, however  *)
(* busy the Hub is; and the daemon drains a pair it is not sure of, which  *)
(* is SupplyLease's DrainedInTheEnd.  Nothing says that the Hub is ever    *)
(* started again.                                                          *)
FairSpec ==
    /\ Spec
    /\ WF_vars(Cycle) /\ SF_vars(Tick)
    /\ SF_vars(svc.valve = "unconfirmed" /\ ValveDrained)

-----------------------------------------------------------------------------
(* Properties *)

(* Every variable stays within its type. *)
TypeOK ==
    /\ mode \in Modes /\ up \in BOOLEAN /\ svc \in Services
    /\ wait \in {dead} \cup 0..CycleInterval
    /\ did \in {"boot", "cycle", "start", "drain", "clear", "settings", "status",
                "storage", "tick", "valve"}
    /\ broken \in BOOLEAN

(* In safe_drain nothing a caller, the loop or a failure does opens the    *)
(* valve; in manual_timed it is open only under a shower's deadline or, in *)
(* FAULT, on what is left of a lease that will not be renewed; and a       *)
(* Hub that is not in FAULT and believes the pair drained is right, so the *)
(* DRAIN that _run_automatic leaves out is one that is not needed.  (An    *)
(* exception out of the driver can leave neither deadline nor FAULT, as    *)
(* out of START, which then sends no DRAIN: from the first one on this is  *)
(* void until the process is started again: ~broken.)                      *)
SupplyIsAccountedFor ==
    up /\ ~broken /\ ~Faulted(svc) /\ svc.valve = "supply" =>
        /\ mode # "safe_drain"
        /\ mode = "manual_timed" => svc.timer
        /\ svc.last = "SUPPLY"

(* FAULT never supplies: no method grants SUPPLY between the step that     *)
(* enters FAULT and the one that leaves it, whichever calls, cycles,       *)
(* settings and lost receipts come in between.                             *)
FaultNeverSupplies ==
    [][up /\ up' /\ Faulted(svc) /\ did' # "clear" => ~Grants(svc, svc')]_vars

(* The loop renews in time: while its thread lives and the Hub supplies, a *)
(* lease is never let lapse, whatever calls and wakes come between cycles, *)
(* as long as no exception escapes.                                        *)
LeaseKeptAlive ==
    [][did' = "tick" /\ up /\ wait # dead /\ ~broken /\ svc.command = "SUPPLY"
         /\ svc.valve = "supply" => svc'.valve = "supply"]_vars

(* A shower ends on time: while the loop's thread lives, no time passes    *)
(* after a deadline before the pair has been commanded to DRAIN, whatever  *)
(* woke or delayed the loop.  (A latched fault whose DRAIN raised, so that *)
(* FAULT was never set, admits a shower and reports DRAIN; such a START is *)
(* answered with a conflict and wakes nobody, and a shower that is shorter *)
(* than a cycle ends up to a cycle late: ~latched.)                        *)
DeadlineIsKept ==
    [][did' = "tick" /\ up /\ wait # dead /\ ~svc.latched => ~(svc.timer /\ Expired(svc))]_vars

(* START opens the pair, extends its lease or gives it a new deadline,     *)
(* although an exception has gone through the process.                     *)
StartsInSpite ==
    /\ did' = "start" /\ broken'
    /\ Grants(svc, svc') \/ (~svc.timer /\ svc'.timer)

(* In the manual modes no shower lasts for ever: the pair is drained, and  *)
(* confirmed so, again and again, even if the Hub crashes, its receipts    *)
(* are lost, its DRAINs fail or raise each time, or it never comes back.   *)
(* The one way round it is a person who goes on asking after an exception: *)
(* a DRAIN that raises sets no FAULT, so START is still admitted, and the  *)
(* pair stays open only if such STARTs never end.                          *)
NoShowerLastsForever ==
    mode # "automatic" =>
        \/ []<>(svc.valve = "drain")
        \/ []<><<StartsInSpite>>_vars

-----------------------------------------------------------------------------
(* What the repository says of this code and the code does not do. *)

(* The M1 design: automatic control "requests DRAIN unless a previously    *)
(* accepted TIMED_SHOWER is still active".                                 *)
ShowerOutranksAutomatic == up /\ svc.timer => svc.command = "SUPPLY"

(* The M1 design: the Hub is in FAULT when "persistence fails".            *)
PersistenceFailureIsFault == up /\ svc.latched => Faulted(svc)
=============================================================================
