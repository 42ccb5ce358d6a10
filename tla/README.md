# A formal model of the freeze-protection valve control

The program drives a pair of relay-operated valves from a Raspberry Pi.  `DRAIN` (both GPIO
outputs high) is the safe state, `SUPPLY` (both low) lets water through.  These modules model
the code that decides about the valve, the code that carries the decision to the two outputs,
and the promises each part makes to the next; TLC checks them on small instances, and TLAPS proves
every safety property of them for every value of their parameters.

Paths below are relative to the repository's root; `hub/` stands for `src/freeze_protect/`.

    tlc -config ControlService.cfg ControlService      # one run
    tlapm SupplyLease_proofs.tla                       # the proofs of one module

## 1. Inventory

The control path is one line, and each link may lose, delay or refuse what it is given:

    dial -> Nginx :8081 -> Hub (FastAPI, ControlService, loop thread)
         -> HTTP -> Node-RED -> exec paired_gpio_client -> Unix socket
         -> paired_gpio_daemon -> GPIO 26 + 20

| Component | State | Operations | What makes it correct |
| --- | --- | --- | --- |
| **Paired GPIO daemon** `deployment/node-red/paired_gpio_daemon.py` | the lease's end, "DRAIN verified", "DRAIN pending", the two output latches | enforce, accept, recv, execute, reply; start, SIGTERM, restart | never a low pin without a lease or an owed DRAIN; a lease ends in bounded time; a reply is true |
| **Control service** `hub/application/service.py` | state, last confirmed command, "supply ready", the shower's deadlines, settings, persistence latch | start, drain, clear fault, settings, status, cycle, startup, shutdown | SUPPLY only by the mode's rule; FAULT never supplies; a deadline is never extended and is kept |
| **The same in `weather_assisted`** | the durable record (user's inhibition, fault's inhibition, marker of a supply) | START, STOP, timed shower, settings, recovery | an open valve is on record before it opens; after a fault, a STOP or an interrupted supply only a person opens it |
| **Control loop** (`PeriodicControlLoop`) | sleep until the next cycle or deadline, wake event | cycle, wake, exception boundary | a lease is renewed in time; a shower ends on time |
| **Actuator driver** `hub/adapters/node_red.py` | none | one HTTP call per command | a failed call says nothing of its effect |
| **Node-RED flow and GPIO client** `deployment/node-red/` | ready flag, requests under way, the daemon's socket | validate, start a client, connect, answer; restart | a confirmed DRAIN is not undone by an older command; a success is of the request it answers |
| **Weather coordinator and worker** `hub/application/weather_control.py`, `weather_worker.py` | generation, observation, next refresh; the request slot, its result, a thread | tick, poll, submit, cancel, eligibility, stop | a result serves the request it answers; what was refused stays refused; a forecast comes back |
| **Weather action gate** `hub/application/weather_actions.py` | nonces, revisions, receipts | nonce, act, replay, recover pending | an action is done at most once and its outcome is never forgotten |
| **Stores** `hub/persistence/` | settings, audit events, forecast; weather record and receipts | transactions, compare-and-swap | a failure is a FAULT; durable before the command |
| **Policy** `hub/domain/` | none (pure) | `evaluate_*`, forecast eligibility | SUPPLY only for fresh, warm inputs |
| **Hub API** `hub/api/` | the lifespan | handlers | the right method, under the service's lock |
| **Sensors, telemetry** | last reading | read, store | display only |
| **Dial firmware** `firmware/crowpanel` | status, page, button | poll, press | a press acts on what is shown |
| **Proxy, units, commissioning scripts** | configuration | installation | |

**How they interact.**  The Hub's handlers run in a pool of threads and the loop in a thread of
its own; every method of `ControlService` runs under one reentrant lock, so a method is atomic
towards the others, but each method makes several calls out (driver, stores) which may fail one
by one, and the process may end between two of them.  The weather worker has its own lock and a
thread that is never joined while it runs.  The daemon is one thread and blocks only in `accept`
and `recv`; its pins keep their level while it is down.  Handlers wake the loop by an event after
a method has returned.

**What is hard.**  A receipt that is lost after the daemon obeyed; a DRAIN left out because the
Hub believes the pair drained; a renewal that comes after the lease lapsed; exceptions that are
not `AdapterError`; a store that fails while a fault is being stored; a crash between the durable
record and the command, or the command and the record; a fetch that ends after it was cancelled;
sleeps near a deadline; a client that connects and keeps silent.  `PROJECT.json` lists each of
them under "hazards" with its line and the properties that would see it go wrong.

## 2. Modules

| Module | Models | Uses |
| --- | --- | --- |
| `LeasedValve` | the abstract promise of the daemon: SUPPLY only under a lease, begun only from a confirmed DRAIN, renewed only while alive, over at most `Overrun` late | |
| `SupplyLease` | the daemon: `SupplyLease`, `execute_request`, `serve`, `run_daemon` | implements `LeasedValve` |
| `SupplyLease_proofs` | theorems about `SupplyLease` | `SupplyLease` |
| `HubCalls` | the form in which a method of the Hub is written, and the valve as the Hub sees it | |
| `ControlService` | the service in `safe_drain`, `manual_timed` and `automatic`, its loop, its process and the valve | `HubCalls` |
| `ControlService_proofs` | theorems about `ControlService` | `ControlService` |
| `WeatherControl` | the same for `weather_assisted`, with the durable record | `HubCalls` |
| `WeatherControl_proofs` | theorems about `WeatherControl` | `WeatherControl` |
| `WeatherFetch` | coordinator, worker and fetch thread | |
| `WeatherFetch_proofs` | theorems about `WeatherFetch` | `WeatherFetch` |
| `Bridge` | driver, Node-RED flow, GPIO client and the daemon's socket: where a command can be, and who still waits for it | extends `LeasedValve` |
| `MCBridge` | `Bridge` for TLC: the symmetry of request ids | `Bridge` |
| `Bridge_proofs` | theorems about `Bridge` | `Bridge` |
| `WeatherActions` | the action gate, its nonces and the table of receipts, over what it sees of the service | |
| `MCWeatherActions` | `WeatherActions` for TLC: the symmetry of ids and of nonces | `WeatherActions` |
| `WeatherActions_proofs` | theorems about requests, nonces and answers | `WeatherActions` |
| `WeatherActionsFault_proofs` | theorems about what a failed or unknown action leaves behind | `WeatherActions_proofs` |
| `SettingsStore` | settings row, runtime metadata, PUT handlers, start, replacement and rollback of a release | |
| `SettingsStore_proofs` | theorems about `SettingsStore` | `SettingsStore` |

Each module is checked on its own small instance; what one offers the next is kept equal by
hand where no `INSTANCE` ties them.  `Bridge` is composed with `LeasedValve`, which `SupplyLease`
is proved to implement: its daemon's steps are the actions of that module.  `HubCalls!Accepted` gives the valve exactly the rules of
`LeasedValve` (`begin` from a confirmed DRAIN, `renew` under a live lease, DRAIN and loss at any
time), without the overrun: the Hub cannot see it.  `WeatherControl` takes any verdict on the
forecast at any time (`Verdicts`); `WeatherFetch` says how verdicts come about.  The service
modules end a command's effect with its call; `Bridge` says what can become of it afterwards, and
`ConfirmedDrainLasts` is why the service may take a confirmed DRAIN as the end of what came before.
`WeatherActions!Serve` allows what `WeatherControl`'s START and STOP can leave behind.

### SupplyLease

`proc` is the place of the daemon's thread in its loop.  Actions follow the code between two
places where something else can happen: time passes (`Tick`) only in `accept`, in `recv` and,
for a request that is delayed between its two checks of the lease, before `execute`.

| Action | Code |
| --- | --- |
| `Start` | `run_daemon`, `serve` up to the loop: two DRAINs that must both read back high |
| `Enforce`, `AcceptTimesOut`, `Accept` | the top of the loop |
| `RecvFails`, `RecvDrain`, `RecvSupply` | `execute_request` up to the lease |
| `ExecuteEnforce`, `Refuse`, `Grant`, `GrantFails` | `SupplyLease.execute` |
| `Terminate`, `Exit` | the signal handler's flag; `finally` |
| `Crash` | a kill at any point, also in the middle of the two writes |

Every GPIO readback is an arbitrary pair of levels, so a stuck pin and half a write are
behaviours.  The readback after an emergency DRAIN is the level the pins are left in.

### HubCalls, ControlService, WeatherControl

A method under the lock is atomic for the other callers but has many outcomes.  It is written as
the *set of its results* `[s, how]`: the service's record afterwards and whether the method
returned (`ok`), returned False or raised what its caller handles (`error`), raised something
else (`raise`), or did not return because the process ended (`crash`).  `Then(results, OnOk,
OnError)` is the sequencing of the code: `try`/`if` on one call, then the rest.  So
`Then(SendDrain(x), ..., Fault)` is read like the Python it stands for, every combination of
failing calls is enumerated, and an action is `\E r \in Method(svc) : svc' = r.s`.

One command to the driver (`Attempt`) may be confirmed; or it fails and the daemon has obeyed,
has not, has lost track of the pair or has drained it.  `ready`, `last`, `timer`, `left` are
`_supply_ready`, `_last_command`, the two deadlines (one, since both are set and cleared
together) and the time left.  `wait` is the loop's sleep.

In `ControlService`, `raise` stands for any exception that is not an `AdapterError`, e.g. the
`http.client.IncompleteRead` that `response.read()` can raise; `Guarded` is the loop's handler
for it, and a second one ends the thread (`wait = dead`).  In `WeatherControl` the driver's
exceptions are all caught, but the process may end at every call with an effect, before or after
it, and `rec` (the row of the weather store) survives.  The revisions of the row are left out:
all its writers hold the service's lock.  `owed` is a history variable: a confirmed STOP, a
cleared fault or an interrupted supply have left it to a person to start again.

Which command the automatic policy chooses, and what the forecast says, is left open; both
choices are taken at each decision.

### WeatherFetch

The module begins after startup, whose `invalidate("startup")` has ended the first generation.
`coord.step` splits a tick of the coordinator at its three entries into the worker, between
which the fetch thread (`FetchEnds`, `Publish`, `Wake`) may run.  A forecast is its request (generation,
settings' revision, date and the wall clock's offset from the monotonic clock at the time) and
whether it is warm.  A fetch thread that cannot be started (`SubmitFails`) frees the slot and ends
the tick with an exception, upon which the service latches FAULT and ticks no more.  Ages replace instants, and saturate where the code no longer distinguishes
them.  `refused` remembers the request whose time basis was last found invalid.

### Bridge

One record for each request says how far it is: at Node-RED (`inbox`), with a client that has not
connected (`started`), with a client that waits for the daemon (`waiting`), with a result that
the flow has yet to answer (`answered`), or of which nothing but its bytes in the daemon's socket
is left (`gone`).  `backlog` is that socket.  Every hop may give up while the command is under way:

| Action | Code |
| --- | --- |
| `Call`, `HubTimesOut` | `NodeRedActuatorDriver.command`, which waits `timeout_s`; the service's lock lets one call at a time be under way |
| `Reject`, `Validate` | the flow's function `fp_m1_validate`: readiness for SUPPLY, and the deadline, stamped here |
| `StartupDrain` | the injected DRAIN, whose answer sets the ready flag |
| `Connect`, `ClientFails` | `paired_gpio_client.request`: the connection may be refused; once made, the bytes are the daemon's, and `recv` may time out |
| `Respond` | the three functions behind the exec node.  Its status is always 0, what counts is what was printed |
| `BridgeRestarts`, `DaemonRestarts` | a restart loses processes, requests and connections, and of the daemon also the socket |
| `ServeDrain`, `ServeSupply`, `Enforce` | the daemon, in the order of the socket |

`MaxStall` is how long Node-RED may leave a request unread; nothing in the repository bounds it,
so it is a parameter, and the theorems name the condition they need of it.  Requests posted by
anyone but the Hub are not modelled: the endpoint is on the loopback and needs the Hub's token.

### WeatherActions

`execute` is split where the database or time can come between: admission, the receipt, the second
check of the deadline, the service, the outcome, the last check.  At each of them a write may fail
(`StorageFails`), time may pass (`Tick`), and the process may end (`Crash`).  Of the service the
gate sees four facts (`svc`): FAULT, the persistence latch, the recorded inhibition and the last
command.  `doubt` is a history variable: an action went to the service, or may have, and its
outcome is on no record and no person has cleared the fault since.

A nonce stands for the control revision it is bound to: a write of the record kills the live ones,
and a fault whose write failed leaves them (`OtherWrite`).
Nonces are a bounded set, so the cap of 64 live ones (a bounded memory, and then no nonce in the
status) and a nonce issued by the snapshot within an admission, which nobody is told of, are left
out.  Refused requests change nothing and are stutters.  The driver's unexpected exceptions are
the subject of `ControlService` and are left out here.

### SettingsStore

A PUT handler is three steps: the read of the version (`Read`), the transaction (`Write`,
`WriteFails`) and the service's update (`Update`); nothing holds the three together.  A settings
object is its version and its commissioning, and remembers with which source that was made.
`Start` is a production start with its `bind_sensor_source`.  Two kinds of start bind nothing
(`StartUnbound`): `DevelopmentStart` is `create_app(development_mode=True)`, which reads a simulated
sensor and whose PUT still keeps the metadata (`Approval`); `LegacyStart` is a release from before
the metadata, as `tests/integration/test_m1_sqlite.py:106` rolls back to.  The row begins absent
(`NoRow`): then the defaults are loaded, and a PUT of any version is taken.  `bound` is kept for
the properties, as the source the metadata named when a commissioning was made, and so is `by`, the
sensor it was made on.  `overlap` is a history variable.

## 3. What is checked

| Run | Instance and bounds | What it shows |
| --- | --- | --- |
| `supply_lease` | lease 4, TTL 2, accept 1, recv 2, delay 1; 920 states; `FairSpec` | `LowIsAccountedFor`, `LeaseMatchesPins`: no failure lets the daemon forget a low pin.  `OverrunBounded`: a lease that ran out is revoked within one accept, one recv and one delay.  `DrainedInTheEnd`: a low pair with no live lease is driven high, or the service was stopped on purpose.  `RepliesAreTrue`.  `ImplementsLeasedValve`: it refines `LeasedValve` |
| `service` | three modes, lease 4, cycle 2, showers {1, 4}, errors and raises; 24 013 states | `SupplyIsAccountedFor`, `FaultNeverSupplies`, `LeaseKeptAlive`, `DeadlineIsKept` |
| `service_live` | manual modes, lease 2, cycle 1, showers {1, 2}, errors and raises; 4 839 states; `FairSpec` | `NoShowerLastsForever`, even if every DRAIN fails or raises or the Hub never comes back, unless a person goes on asking for showers after an exception (section 5) |
| `weather` | lease 2, cycle 1, showers {1, 2}; about 14 400 states | `SupplyIsRecorded`, `StateMatchesRecord`, `NeverUnbidden`, `RenewNeverBegins`, `ShowerEndsInDrain`, with a crash at every call |
| `weather_fetch` | refresh 3, deadline 2, max age 4, 2 changes; 139 582 states; `FairSpec` | `ResultAnswersRequest`, `LateNeverSucceeds`, `RefusedStaysRefused`, `RequestsArePaced`, `ForecastComesBack` |
| `bridge` | three requests, lease 5, Hub's timeout 4, TTL 2, client's timeout 2, stall 2; 1 290 057 states up to symmetry | `ConfirmedDrainLasts`: no command of an earlier call opens the valve behind a confirmed DRAIN.  `ConfirmedLeaseIsFresh`: a SUPPLY the Hub is told of is no older than its call |
| `weather_actions` | three ids, three nonces of life 2, a table of 2; 138 513 states up to symmetry | `AtMostOnce`: a press has one effect at most, and one if its success was told.  `FailureIsFinal`.  `DoubtInhibits`: an unknown outcome keeps the water off until a person clears it.  `FailedActionDrains` |
| `settings` | two PUT handlers, two sources, a legacy one and the simulated one, versions up to 6; 72 575 states | `CommissionedForThisSource`, with every interleaving and every order of releases.  `MemoryFollowsStore`, as long as PUTs do not overlap |

Four more runs look for a sentence of the documentation and find a behaviour that contradicts
it; see section 5.  Every property of a passing run also has a plausible slip of the code, in
the module as an operator under a "Mutant" comment and in `PROJECT.json` under "mutants", which
TLC catches with that property.

**Why the bounds are enough.**  Only differences and orders of the times matter.  In
`SupplyLease` the TTL check compares a deadline with 0 and `MaxTtl` only; the deadlines range one
beyond each, and a lease longer than all waits together, equal to and shorter than a wait occur
as it runs down.  In `ControlService` one shower is shorter than a cycle and one is two cycles,
and the lease is longer than a cycle, as the constants of the code have it (30 s, 60 s, 600 s; the
default duration may be set to any positive time); one duration is within the other's limit and
the other beyond it, so that settings can shorten a running shower.  In `WeatherControl` the cycle is one unit, and shower and lease
are one cycle or two.  In `WeatherFetch` the order deadline < refresh < maximal age is the
code's (5 s, 900 s, 1200 s); two changes suffice for a clock that is set and set back, and for
settings that change under a fetch and again under the next.  In `Bridge` one request is the
Hub's, one is left over and one is the startup DRAIN; the Hub's timeout is just the sum of stall
and TTL that the theorems need (3 s against 1.5 s in the code, which leaves Node-RED 1.5 s), the
client gives up before the Hub, and the lease outlives a call, as in the code.  In
`WeatherActions` three nonces are a press, its repetition under another id, and a later one, and
two rows make a table that is full of unfinished or of finished rows.  In `SettingsStore` six
versions are two commissionings with a replacement or a rollback after each.

Three bounds cut behaviours off: `MaxChanges`, the finite set `Nonces`, and `MaxVersion`; all
other modules are finite without one.  Where nonces or versions are used up the model stops, so
`weather_actions` and `settings` (and `save_follows_stored`) turn the deadlock check off; no other
run does.  Request ids (`Bridge`) and ids and nonces (`WeatherActions`) occur in no ordering or
`CHOOSE` of one of them, so their permutations are symmetries; neither run checks liveness.

**Fairness.**  Safety runs assume none; `supply_lease` and `weather_fetch` also check liveness,
and their safety properties do not need its fairness.
`SupplyLease!Fairness`: the daemon's single thread goes on (weak fairness of its steps), `recv`
returns by its timeout, systemd restarts a daemon that failed (`Restart=on-failure`), and the
hardware does not fail for ever: a start, or an owed DRAIN, that is tried again and again is in
the end confirmed (strong fairness).
`ControlService!FairSpec`: the loop's thread runs when its wait is over, and time passes (strong,
because the Hub's steps, which take no time here, disable `Tick` while a cycle is due).  A daemon
that has lost track of the pair drains it in the end (strong, because the Hub's commands disable it):
that is what `DrainedInTheEnd` shows of the daemon.  Nothing
is assumed of `Boot`: a Hub that stays down is covered, and the daemon's lease is what ends the
supply then.
`WeatherFetch!FairSpec`: the loop keeps ticking as long as no tick has failed, a fetch returns in
the end, its thread runs on.
The transport's timeout bounds each blocking operation and not the fetch as a whole, so a fetch
that never returns would also hold the only slot for ever; `ForecastComesBack` is relative to
this.

## 4. What is proved

Each theorem is about every value of the constants that the module's named assumption admits
(`TimingAssumption`, `BridgeAssumption`, `SettingsAssumption`, `FetchAssumption`,
`GateAssumption`, `ServiceAssumption`, `WeatherAssumption`; TLC evaluates them in the runs).  What
the last two ask is that the lease is longer than a cycle, which the code's constants satisfy.  `Bridge_proofs` assumes besides `Prompt == MaxStall + Ttl <= HubTimeout`.

| Module | Theorem | States |
| --- | --- | --- |
| `SupplyLease_proofs` | `TypeCorrectness` | `Spec => []TypeOK` |
| | `NothingLowIsForgotten` | `Spec => []LowIsAccountedFor` |
| | `LeaseIsHonest` | `Spec => []LeaseMatchesPins` |
| | `ExpiryIsBounded` | `Spec => []OverrunBounded` |
| | `RepliesAreHonest` | `Spec => RepliesAreTrue` |
| | `DaemonImplementsLeasedValve` | `Spec => ImplementsLeasedValve` |
| `Bridge_proofs` | `TypeCorrectness` | `Prompt` gives `Spec => []TypeOK` |
| | `DrainOutlastsOrphans` | `Prompt` gives `Spec => []ConfirmedDrainLasts` |
| | `SuccessIsOfThisCall` | `Prompt` gives `Spec => ConfirmedLeaseIsFresh` |
| `SettingsStore_proofs` | `TypeCorrectness` | `Spec => []TypeOK` |
| | `CommissioningIsHonest` | `Spec => []CommissionedForThisSource` |
| | `MemoryIsStored` | `Spec => []MemoryFollowsStore` |
| `WeatherFetch_proofs` | `ResultsAreForTheSlot` | `Spec => []ResultAnswersRequest` |
| | `RefusalIsFinal` | `Spec => []RefusedStaysRefused` |
| | `LateIsFailed` | `Spec => LateNeverSucceeds` |
| | `TypeCorrect` | `Spec => []TypeOK` |
| | `AskedAtAPace` | `Spec => RequestsArePaced` |
| `ControlService_proofs` | `TypeCorrect` | `Spec => []TypeOK` |
| | `SupplyAccounted` | `Spec => []SupplyIsAccountedFor` |
| | `FaultGrantsNothing` | `Spec => FaultNeverSupplies` |
| | `LeaseIsKept` | `Spec => LeaseKeptAlive` |
| | `DeadlineMet` | `Spec => DeadlineIsKept` |
| `WeatherControl_proofs` | `TypeCorrect` | `Spec => []TypeOK` |
| | `OpenIsRecorded` | `Spec => []SupplyIsRecorded` |
| | `RecordAgrees` | `Spec => []StateMatchesRecord` |
| | `OnlyABiddenStart` | `Spec => NeverUnbidden` |
| | `RefusedRenewalEnds` | `Spec => RenewNeverBegins` |
| | `ShowerEndIsDrain` | `Spec => ShowerEndsInDrain` |
| `WeatherActions_proofs` | `TypeCorrectness` | `Spec => []TypeOK` |
| | `OncePerNonce` | `Spec => []AtMostOnce` |
| | `FailuresStayFailures` | `Spec => FailureIsFinal` |
| `WeatherActionsFault_proofs` | `DoubtIsInhibited` | `Spec => []DoubtInhibits` |
| | `FailureDrains` | `Spec => FailedActionDrains` |

**SupplyLease.**  One inductive invariant, `IInv`: the types; `LeaseMatchesPins` and
`LowIsAccountedFor`, which are inductive together; `BlockedInv`, that no call has blocked beyond
its timeout; and `LeaseInv`.  The last is what `OverrunBounded` lacks.  By itself the bound is not
preserved by `Tick`: how late a lease may be depends on where the thread is.  `LeaseInv` gives the
budget by place: at `accept` the lease was alive when the wait began (the loop has just enforced
it), at `recv` it may be the accept's timeout late, at `execute` and `grant` it has been enforced
again and is alive.  The budgets add up to `Overrun` once the thread is back at `enforce`.  The
refinement maps a held lease to "supply" with its time, a verified DRAIN to "drain" and all else
to "unconfirmed"; each step of the daemon is `Close`, `Lose`, `Begin`, `Renew`, `Elapse` or a
stutter, and `IInv` shows that `Elapse` stays within `Overrun` and that `Grant` for a renewal finds
the lease alive.

**Bridge.**  A SUPPLY is *armed* while it may still open the valve: unread, with a client and time
left, or in the socket with time left.  `CallInv` ages the current call and its deadline together:
when the Hub may call again the deadline of the last one is over, unless it is the current call
(this is where `Prompt` is used), so what is left of earlier calls is armed at most in the socket
(`OrphanInv`).  A DRAIN is put behind all of them there (`QueueInv`, `DrainInv`), so when it has
been carried out nothing is armed and the valve is not supplying, and it stays so until the next
call (`BeliefInv`).  `FreshInv` bounds the age of a lease by the time its call has waited.

**SettingsStore.**  `CommissionedForThisSource` needs what a later bind relies on: the active
source in the metadata is the one that runs, if that one binds (`ActiveIsRunning`); an approval that
matches the row's version is of a commissioning made under the approved source, by that release or by a
development process after it (`MadeUnder`, `ApprovalIsTrue`), also if a release that keeps no metadata
wrote the row in between; and what a PUT is about to write was commissioned by the process that runs
(`PutsAreTrue`); no handler outlives its process (`AtRest`).  `MemoryFollowsStore` rests on
`OnePut`: without overlap the handler after its write is the only one, and holds the row.

**WeatherFetch.**  `SlotInv` relates thread and slot: what the thread may still publish answers the
request in the slot unless it is to be discarded.  `GenerationInv` relates coordinator and
observation: a forecast with authority is of the current generation, a refused one of an earlier.
These three need no bound, and `IInv` has none.  `Bounds` adds what the types and the pace need.
`Budget` counts what may still end a generation: `StaleTick`, that the next tick will find settings or
date changed, and `StaleBasis`, that eligibility will find the clock set.  A change of the world
raises both at most and pays for two; a tick or a question that ends a generation has spent one, so
generations stay within `2 * MaxChanges + 3` (startup, the first tick and the shutdown end one each).  That
eligibility cannot end two generations over one change rests on `SlotInv`: what is polled is of the
request in the slot.  `Pace` says that within a generation the age of the last submission and what
is left of the refresh interval make up the interval, unless a tick has failed and none will follow.

**ControlService.**  A method is the set of its results, so it has a lemma that says what holds of
each: `Serves` of every result, however the method ends, and `InOrder` and `Kept` besides of those
that no exception has gone through, if the service was `InOrder` before.  Calls out are lemmas below them,
and each action is an application of its method's lemma.  The inductive invariant has a part for
each moment.  At all moments a lease is held exactly while the valve supplies and neither FAULT nor
`safe_drain` has a timer (`Sound`).  As long as no exception has gone through, `InOrder`: a latch is
a FAULT, FAULT reports DRAIN, and an open valve has the mode's reason and the Hub's own last command
behind it; without the first of these, a method that is skipped because of the latch could leave an
unaccounted supply.  Between two methods, the loop's sleep ends before what it must not miss:
`DeadlineAhead` (it is no longer than the time left to a shower) and `LeaseAhead` (it is shorter than
the lease, which every cycle that reports SUPPLY has renewed in full).  `DeadlineIsKept` and
`LeaseKeptAlive` follow from these when time passes, and need every method that changes a deadline or
a command to leave the sleep short enough, or to wake the loop.

**WeatherControl.**  The process may end inside any method, so each lemma says two things of a
result: what holds of the record and the valve wherever the process ends (`Keeps`), and what holds
of the service if the method returns (`Turns`; `Boots` for the start).  Inhibitions and the marker only
accumulate on the way (`Worse`) until the one write that ends a supply in good order (`Ended`) or
begins one (`Supplied`).  `IInv` joins three layers: `Recorded`, the property itself; `InOrder` while
the process runs, in which a latched failure is a fault that has done its work (`Fit`), an open valve
has the Hub's last command behind it (`Honest`) and the record names the supply under way (`Agrees`);
and for `owed` what will keep the valve shut: an inhibition, or a marker that FAULT holds while the
process runs (`Shut`), and that the next start turns into an inhibition when it does not (`Left`).
`NeverUnbidden` is not inductive without the last step: between a crash and the next start nothing
but the marker says that a supply was interrupted.  The three action properties are proved together,
action by action (`Promised`).

**WeatherActions.**  `AtMostOnce` rests on where a nonce can still be used.  `NonceInv`: one that is
not dead has had no effect; `OpInv`: the one of the action under way is dead, and has had its
effect once the service has been asked; `RowInv`: a row that is, or may be promoted to, a success
had its effect, so a replay may say so.  `FailureIsFinal` adds what links answers to rows: whatever
was answered used up its nonce (`AnsweredInv`), a success on record or in `_validated` was answered
as one (`RecordInv`, `ValidatedInv`), and the row of the action under way is still open
(`OwnRowInv`).  For `DoubtInhibits` the question is where an unknown outcome is kept when the process
ends: `DoubtInv` says on record as an inhibition, or as an unfinished row that is not the current
action's, which pruning never takes and the next start turns into a fault; `DrainedInv` says that
meanwhile nothing supplies and only a STOP is executed, since a START is not admitted in FAULT.
`LatchInv` and `RefusedInv` (an action that is not a success has left no supply) give
`FailedActionDrains`.

Only model-checked: the liveness properties `DrainedInTheEnd`, `NoShowerLastsForever` and
`ForecastComesBack`, since fairness and `ENABLED` are beyond the prover.  Every other property of a
passing run is a theorem.  The four sentences of section 5 are refuted by TLC; nothing is proved of
them.

## 5. Where the documents and the code differ

Each of these is a run that TLC ends with a counterexample.

* `shower_outranks_automatic`: in `automatic`, `update_settings` goes on to `_run_idle` although a
  shower is active; a saved setting may drain under it and leave its timer set, and the next cycle
  sends RENEW to a drained pair and faults.  The M1 design says that automatic control "requests
  `DRAIN` unless a previously accepted `TIMED_SHOWER` is still active".
* `persistence_failure_is_fault`: `_latch_persistence_failure` sets its flag before it commands
  DRAIN; if that call raises something other than `AdapterError`, FAULT is never set, and the loop's
  handler finds the flag set and returns.  The M1 design lists "persistence fails" under `FAULT`.
* `delayed_supply`: the deadline of a SUPPLY is set when Node-RED validates the request, not when
  the Hub posts it; a request that is read late gets a deadline of its own and is carried out.  The
  M1 design says "a delayed or stale request is rejected before it can change GPIO state".  While
  Node-RED stalls for no more than `HubTimeout - Ttl` this does no harm, as `DrainOutlastsOrphans`
  proves; the lease bounds what it does beyond.
* `save_follows_stored`: `save` compares the version outside its write transaction, so two handlers
  that read the same version both succeed.  The M0 plan says that `save` "must reject any version not
  exactly one greater than the stored version".  `CommissioningIsHonest` holds in spite of it; that
  memory and disk agree holds only without overlap.

Four more were met and are covered by what does hold.  An exception of the driver that is not an
`AdapterError` goes through `start_timed_shower` (`service.py:272`) and leaves no timer and no FAULT
while the daemon may have granted SUPPLY; `SupplyIsAccountedFor` excepts what follows,
until the process is started again (`~broken`).  The next cycle or the lease ends that supply, but a
DRAIN that raises sets no FAULT either, so a START is still admitted, and a person who asks again and
again keeps the pair open although every DRAIN in between raises.  `NoShowerLastsForever` names this as
the one way round it (`StartsInSpite`): whatever fails or raises, the pair is drained again and again, or
such STARTs never end.  Shutting down after a lost receipt of BEGIN may
skip DRAIN on the strength of `_last_command` and clear the marker (`service.py:792`);
`SupplyIsRecorded` states what is on record instead.  And a latched persistence failure whose DRAIN raised
leaves the Hub out of FAULT, so that a START is still admitted: it opens the pair and sets the timer,
but the reported command stays DRAIN, so it is answered with a conflict (409), which wakes nobody.  A
shower shorter than a cycle then ends with the next cycle or with its lease, up to a cycle late.
`DeadlineIsKept` excepts it (`~latched`); an attempt to prove the property without that showed it.
Last, a process in development mode (`api/app.py:160-166`) opens the same database by default but
does not bind its simulated sensor, and its PUT of a commissioning is approved all the same, under the
source bound last (`sqlite.py:45-55`); the next production start takes it for its own.  So a
release may hold a commissioning that was made on a simulated sensor, and nothing in the metadata
tells.  `CommissionedForThisSource` says what does hold: every commissioning was made *under* this
source, by this sensor or by a simulated one.

## 6. What is not modelled

* **Automatic policy and forecast** (`hub/domain/policy.py`): pure functions of a reading, a forecast
  and the settings, without state; the service modules take either decision at every point, so their
  properties do not depend on it.
* **Temperature sensors and telemetry**: for display only, and the bus is input and output.
* **Dial firmware**: C++ with its own loop.  It posts to the routes without a nonce
  (`hub_client.cpp:116`), which do not pass the action gate, so `AtMostOnce`, which is about the
  weather display's actions, says nothing of it.  What a late or repeated press does is an ordinary
  START or DRAIN of the service at any time; while a shower runs, another START does not extend it.
* **A tick that raises while the driver raises too**: a thread that cannot be started latches a
  failure (`service.py:682`), and if the DRAIN of that latch raises, FAULT is not set and the Hub goes on
  ticking; `WeatherFetch` stops ticking in either case.
* **Two processes on one database at once**, e.g. one in development mode beside the service:
  `SettingsStore` runs one at a time.
* **Audit and forecast tables**: only their failures are seen (`AppendEvent`, `RefreshForecast`).
* **Identity file and schema of the weather store**: one check at every access, a failure of which is
  the failure of that access.
* HTTP, tokens, JSON, SQL, GPIO register addresses, wording and display of reasons; Nginx, units and
  commissioning scripts: input and output, or configuration.

## 7. Plan

Done: the path from the service to the outputs (service, bridge, daemon with its abstract
specification), the weather fetch, the action gate and the settings, with proofs of every safety
property.  What is left, in this order:

1. **The service over the leased valve**: the two ends of the control path agree on `LeasedValve` by
   hand (`HubCalls!Accepted`).  A method is one step and may send several commands - a start drains
   and begins - so a step of the service is a sequence of steps of `LeasedValve`, and a refinement
   needs the commands as steps of their own.
2. **Policy** as operators against a reference definition over bounded inputs; it replaces the
   free choice in `RunAutomatic`.
3. **Dial**: button, page and a press on a status that is up to five seconds old, composed with
   `WeatherActions`.
4. **Telemetry**: the sampler's thread and what the status shows of a stale reading.
