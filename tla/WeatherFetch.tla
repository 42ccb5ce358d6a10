---------------------------- MODULE WeatherFetch ----------------------------
(***************************************************************************)
(* How the Hub comes by its forecast: the WeatherCoordinator, which only   *)
(* the holder of the service's lock calls, and the WeatherWorker with its  *)
(* one fetch thread, which share the worker's lock.                        *)
(*                                                                         *)
(* A tick of the coordinator enters the worker three times - to cancel, to *)
(* poll and to submit - and the thread may run in between.  A fetch may    *)
(* take for ever; its thread is never replaced while it lives.             *)
(*                                                                         *)
(* A forecast is what eligibility asks of it: the settings' revision, the  *)
(* date and the clocks' offset it was requested with, and whether its      *)
(* minima are warm enough.  Two offsets differ by more than the bound that *)
(* evaluate_weather allows.  Time is kept as the age of things.            *)
(***************************************************************************)
EXTENDS Integers

CONSTANTS RefreshSeconds,    \* WEATHER_REFRESH_SECONDS
          FetchDeadline,     \* WEATHER_FETCH_DEADLINE_SECONDS
          MaxAge,            \* WEATHER_MAX_AGE_SECONDS
          MaxChanges         \* bound: changes of settings, date and clock

ASSUME FetchAssumption ==
    /\ FetchDeadline \in Nat \ {0} /\ RefreshSeconds \in Nat /\ MaxAge \in Nat
    /\ FetchDeadline < RefreshSeconds /\ RefreshSeconds < MaxAge
    /\ MaxChanges \in Nat

VARIABLES settings,  \* the stored settings: enabled with a location, and their revision
          clock,     \* the local date, and the wall clock's offset from the monotonic one
          coord,     \* the WeatherCoordinator, and how far its tick has come
          worker,    \* the WeatherWorker
          thread,    \* its fetch thread
          refused,   \* history: the last request whose time basis was found invalid
          changes    \* how often settings, date and clock have changed

vars == <<settings, clock, coord, worker, thread, refused, changes>>

(* No request and no date are -1 where the code has None. *)
none == 0 - 1
Revisions == 0..MaxChanges
Generations == none..(2 * MaxChanges + 3)

Requests == [generation : Generations, revision : Revisions,
             date : none..MaxChanges, offset : {0, 1}]
NoRequest == [generation |-> none, revision |-> 0, date |-> none, offset |-> 0]

Outcomes == {"warm", "cold", "failed", "deadline_exceeded"}
Good(outcome) == outcome \in {"warm", "cold"}

(* The last attempt, and the last window that was fetched with success. *)
Observations == [known : BOOLEAN, ok : BOOLEAN, window : Requests,
                 warm : BOOLEAN, age : 0..MaxAge]
NoObservation == [known |-> FALSE, ok |-> FALSE, window |-> NoRequest,
                  warm |-> FALSE, age |-> 0]

Coordinators == [step : {"idle", "poll", "submit", "faulted", "closed"}, seen : none..MaxChanges,
                 generation : Generations, obs : Observations,
                 refresh : 0..RefreshSeconds, date : none..MaxChanges]

Workers == [request : Requests, result : Outcomes \cup {"none"}, of : Requests,
            age : 0..RefreshSeconds, discard : BOOLEAN, stopped : BOOLEAN,
            generation : Generations]

Threads == [phase : {"none", "fetch", "publish", "wake"}, request : Requests,
            outcome : Outcomes]

Now == [generation |-> coord.generation, revision |-> settings.revision,
        date |-> clock.date, offset |-> clock.offset]

-----------------------------------------------------------------------------
(* The worker's methods, each under its lock. *)

\* Mutants: a cancelled fetch may still publish; a cancelled request keeps the slot.
CancelOnly(w) == [w EXCEPT !.request = NoRequest, !.result = "none", !.of = NoRequest]
CancelKeepsRequest(w) == [w EXCEPT !.discard = TRUE, !.result = "none", !.of = NoRequest]

(* cancel *)
Cancelled(w) ==
    [w EXCEPT !.discard = TRUE, !.request = NoRequest, !.result = "none", !.of = NoRequest]

Overdue(w) == w.age >= FetchDeadline

(* poll answers with the outcome and the request it belongs to, or "none". *)
\* Mutant: a result that is there is taken however old it is.
PolledLate(w) == [answer |-> w.result, of |-> w.of]

Polled(w) ==
    IF w.request = NoRequest \/ w.discard THEN [answer |-> "none", of |-> NoRequest]
    ELSE IF Overdue(w) THEN [answer |-> "deadline_exceeded", of |-> w.request]
    ELSE [answer |-> w.result, of |-> w.of]

AfterPoll(w) ==
    IF Polled(w).answer = "none" THEN w
    ELSE [w EXCEPT !.request = NoRequest, !.result = "none", !.of = NoRequest,
                   !.discard = @ \/ Overdue(w)]

Accepts(w, request) ==
    /\ ~w.stopped /\ w.request = NoRequest /\ thread.phase = "none"
    /\ request.generation >= w.generation

Submitted(w, request) ==
    [w EXCEPT !.request = request, !.age = 0, !.discard = FALSE,
              !.generation = request.generation]

-----------------------------------------------------------------------------
(* The coordinator. *)

Invalidated(c) ==
    [c EXCEPT !.generation = @ + 1, !.obs = NoObservation, !.refresh = 0]

(* evaluate_weather, for the observation o. *)
TimeBasisInvalid(o) == o.window.offset # clock.offset
Unfit(o) ==
    \/ ~settings.on \/ ~o.known \/ o.window = NoRequest \/ ~o.ok
    \/ o.window.revision # settings.revision
Eligible(o) ==
    /\ ~Unfit(o) /\ ~TimeBasisInvalid(o)
    /\ o.age < MaxAge /\ o.window.date = clock.date /\ o.warm

\* Mutant: an invalid time basis only makes the forecast ineligible.
AnswerOnly(c, w) == [coord |-> c, worker |-> w, refused |-> c.obs.window]

(* eligibility latches an invalid time basis: the forecast is dropped. *)
Answer(c, w) ==
    IF ~Unfit(c.obs) /\ TimeBasisInvalid(c.obs)
    THEN [coord |-> Invalidated(c), worker |-> Cancelled(w), refused |-> c.obs.window]
    ELSE [coord |-> c, worker |-> w, refused |-> refused]

(* tick, up to its poll: what changed since the last one cancels. *)
TickBegins ==
    /\ coord.step = "idle"
    /\ LET stale == coord.seen # settings.revision
                    \/ (coord.date # none /\ coord.date # clock.date)
           c == IF stale THEN Invalidated(coord) ELSE coord
       IN /\ coord' = [c EXCEPT !.step = "poll", !.seen = settings.revision,
                                !.date = clock.date]
          /\ worker' = IF stale THEN Cancelled(worker) ELSE worker
    /\ UNCHANGED <<settings, clock, thread, refused, changes>>

(* The observation after an attempt: a failure keeps the old window, for   *)
(* display, and withdraws its authority.                                   *)
Observed(o, result, age) ==
    IF Good(result.answer)
    THEN [known |-> TRUE, ok |-> TRUE, window |-> result.of,
          warm |-> result.answer = "warm", age |-> age]
    ELSE [o EXCEPT !.known = TRUE, !.ok = FALSE]

TickPolls ==
    /\ coord.step = "poll"
    /\ LET result == Polled(worker)
           ours == /\ result.answer # "none"
                   /\ result.of.generation = coord.generation
                   /\ result.of.revision = settings.revision
           obs == IF ours THEN Observed(coord.obs, result, worker.age) ELSE coord.obs
           after == Answer([coord EXCEPT !.obs = obs, !.step = "submit"], AfterPoll(worker))
       IN coord' = after.coord /\ worker' = after.worker /\ refused' = after.refused
    /\ UNCHANGED <<settings, clock, thread, changes>>

(* A refresh is due and the worker will take it. *)
Submits == settings.on /\ coord.refresh = 0 /\ Accepts(worker, Now)

Submission ==
    /\ Submits
    /\ worker' = Submitted(worker, Now)
    /\ thread' = [phase |-> "fetch", request |-> Now, outcome |-> "failed"]

NoSubmission == ~Submits /\ UNCHANGED <<worker, thread>>

\* Mutants: the next refresh is not put off by a submitted one, or by too much.
TickSubmitsAgain ==
    /\ coord.step = "submit"
    /\ Submission \/ NoSubmission
    /\ coord' = [coord EXCEPT !.step = "idle"]
    /\ UNCHANGED <<settings, clock, refused, changes>>

TickSubmitsLate ==
    /\ coord.step = "submit"
    /\ \/ Submission /\ coord' = [coord EXCEPT !.step = "idle",
                                              !.refresh = RefreshSeconds + FetchDeadline]
       \/ NoSubmission /\ coord' = [coord EXCEPT !.step = "idle"]
    /\ UNCHANGED <<settings, clock, refused, changes>>

(* A request that the worker does not take is tried again at each tick. *)
TickSubmits ==
    /\ coord.step = "submit"
    /\ \/ Submission /\ coord' = [coord EXCEPT !.step = "idle", !.refresh = RefreshSeconds]
       \/ NoSubmission /\ coord' = [coord EXCEPT !.step = "idle"]
    /\ UNCHANGED <<settings, clock, refused, changes>>

(* The thread cannot be started: the slot is freed, and the exception goes *)
(* through the tick to the service, which latches FAULT and ticks no more. *)
SubmitFails ==
    /\ coord.step = "submit" /\ Submits
    /\ worker' = [Submitted(worker, Now) EXCEPT !.request = NoRequest]
    /\ coord' = [coord EXCEPT !.step = "faulted"]
    /\ UNCHANGED <<settings, clock, thread, refused, changes>>

(* No tick is under way. *)
BetweenTicks == coord.step \in {"idle", "faulted"}

(* eligibility, asked for a SUPPLY about to go out or for a status. *)
Ask ==
    /\ BetweenTicks
    /\ LET after == Answer(coord, worker)
       IN coord' = after.coord /\ worker' = after.worker /\ refused' = after.refused
    /\ UNCHANGED <<settings, clock, thread, changes>>

(* update_settings, with settings that differ from the stored ones. *)
UpdateSettings(on) ==
    /\ BetweenTicks /\ changes < MaxChanges
    /\ settings' = [on |-> on, revision |-> settings.revision + 1]
    /\ coord' = [Invalidated(coord) EXCEPT !.seen = settings'.revision, !.date = none]
    /\ worker' = Cancelled(worker)
    /\ changes' = changes + 1
    /\ UNCHANGED <<clock, thread, refused>>

(* Shutdown: the coordinator invalidates, and the worker is stopped. *)
Stop ==
    /\ BetweenTicks
    /\ coord' = [Invalidated(coord) EXCEPT !.step = "closed"]
    /\ worker' = [Cancelled(worker) EXCEPT !.stopped = TRUE]
    /\ UNCHANGED <<settings, clock, thread, refused, changes>>

-----------------------------------------------------------------------------
(* The fetch thread. *)

(* The fetch returns or raises.  A window of another provenance has failed. *)
FetchEnds(outcome) ==
    /\ thread.phase = "fetch"
    /\ thread' = [thread EXCEPT !.phase = "publish", !.outcome = outcome]
    /\ UNCHANGED <<settings, clock, coord, worker, refused, changes>>

Publish ==
    /\ thread.phase = "publish"
    /\ worker' = IF worker.discard \/ worker.stopped THEN worker
                 ELSE [worker EXCEPT !.of = thread.request,
                         !.result = IF Overdue(worker) THEN "deadline_exceeded"
                                    ELSE thread.outcome]
    /\ thread' = [thread EXCEPT !.phase = "wake"]
    /\ UNCHANGED <<settings, clock, coord, refused, changes>>

(* The thread has woken the loop and is no longer alive. *)
Wake ==
    /\ thread.phase = "wake"
    /\ thread' = [phase |-> "none", request |-> NoRequest, outcome |-> "failed"]
    /\ UNCHANGED <<settings, clock, coord, worker, refused, changes>>

-----------------------------------------------------------------------------
Older(age, limit) == IF age < limit THEN age + 1 ELSE age

(* Time passes between the coordinator's methods, and does not tell ages   *)
(* beyond their limits apart.                                              *)
TimePasses ==
    /\ BetweenTicks \/ coord.step = "closed"
    /\ coord' = [coord EXCEPT !.refresh = IF @ > 0 THEN @ - 1 ELSE @,
                              !.obs.age = IF coord.obs.ok THEN Older(@, MaxAge) ELSE @]
    /\ worker' = [worker EXCEPT !.age = Older(@, RefreshSeconds)]
    /\ UNCHANGED <<settings, clock, thread, refused, changes>>

(* Midnight, or the wall clock is set; the second may also change the date. *)
ClockChanges ==
    /\ BetweenTicks /\ changes < MaxChanges
    /\ \E date \in {clock.date, clock.date + 1}, offset \in {0, 1} :
          clock' = [date |-> date, offset |-> offset] /\ clock' # clock
    /\ changes' = changes + 1
    /\ UNCHANGED <<settings, coord, worker, thread, refused>>

(* The service has invalidated once on startup, which cancels. *)
Init ==
    /\ \E on \in BOOLEAN : settings = [on |-> on, revision |-> 0]
    /\ clock = [date |-> 0, offset |-> 0]
    /\ coord = [step |-> "idle", seen |-> none, generation |-> 1,
                obs |-> NoObservation, refresh |-> 0, date |-> none]
    /\ worker = [request |-> NoRequest, result |-> "none", of |-> NoRequest, age |-> 0,
                 discard |-> TRUE, stopped |-> FALSE, generation |-> none]
    /\ thread = [phase |-> "none", request |-> NoRequest, outcome |-> "failed"]
    /\ refused = NoRequest /\ changes = 0

Next ==
    \/ TickBegins \/ TickPolls \/ TickSubmits \/ SubmitFails \/ Ask \/ Stop
    \/ \E on \in BOOLEAN : UpdateSettings(on)
    \/ \E outcome \in {"warm", "cold", "failed"} : FetchEnds(outcome)
    \/ Publish \/ Wake \/ TimePasses \/ ClockChanges

Spec == Init /\ [][Next]_vars

(* The loop keeps ticking unless a tick has failed, time passes, and a     *)
(* fetch returns in the end: it has a timeout, though not one that bounds  *)
(* it as a whole.                                                          *)
FairSpec ==
    /\ Spec /\ WF_vars(TickBegins) /\ WF_vars(TickPolls) /\ WF_vars(TickSubmits)
    /\ WF_vars(\E outcome \in {"warm", "cold", "failed"} : FetchEnds(outcome))
    /\ WF_vars(Publish) /\ WF_vars(Wake) /\ SF_vars(TimePasses)

-----------------------------------------------------------------------------
(* Properties *)

(* Every variable stays within its type. *)
TypeOK ==
    /\ settings \in [on : BOOLEAN, revision : Revisions]
    /\ clock \in [date : Revisions, offset : {0, 1}]
    /\ coord \in Coordinators /\ worker \in Workers /\ thread \in Threads
    /\ refused \in Requests /\ changes \in 0..MaxChanges

(* The thread of a cancelled or given-up fetch never leaves its result for *)
(* the next one: what waits to be polled answers the request in the slot.  *)
ResultAnswersRequest == worker.result # "none" => worker.of = worker.request

(* A result that comes, or is polled, too late never gives authority, and  *)
(* is a failed attempt however good the forecast in it.                    *)
LateNeverSucceeds ==
    [][coord.step = "poll" /\ coord'.obs.ok /\ coord'.obs # coord.obs
         => coord'.obs.age < FetchDeadline]_vars

(* A forecast once refused because the wall clock had been set does not    *)
(* regain authority when the clock is set back: only a new fetch has it.   *)
RefusedStaysRefused == Eligible(coord.obs) => coord.obs.window # refused

(* The provider is asked once in a refresh interval, failed attempts       *)
(* included, unless something invalidated the forecast in between.         *)
RequestsArePaced ==
    [][worker'.request # NoRequest /\ worker'.request # worker.request =>
          worker.age >= RefreshSeconds \/ worker'.generation > worker.generation]_vars

(* However settings, date and clock change under a running fetch, and      *)
(* however the fetches fail, an enabled Hub always hears of a later one,   *)
(* at least that it failed, unless the thread for it could not be started. *)
ForecastComesBack ==
    settings.on /\ ~coord.obs.known
        ~> coord.obs.known \/ ~settings.on \/ worker.stopped \/ coord.step = "faulted"
=============================================================================
