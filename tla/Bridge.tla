-------------------------------- MODULE Bridge --------------------------------
(***************************************************************************)
(* The way of a command from the Hub to the GPIO daemon: the Hub's driver  *)
(* posts one request at a time and waits HubTimeout for its answer; the    *)
(* Node-RED flow validates it and starts a client process; the client puts *)
(* the command into the daemon's socket and waits ClientTimeout; the       *)
(* answer goes back the same way.  Any hop may give up while the command   *)
(* is still on its way, and Node-RED and the daemon may restart.           *)
(*                                                                         *)
(* The daemon is LeasedValve, which SupplyLease implements.                *)
(***************************************************************************)
EXTENDS Sequences, LeasedValve

CONSTANTS Ids,            \* request ids; one is used again once nothing holds it
          None,           \* no request
          HubTimeout,     \* timeout_s of NodeRedActuatorDriver
          Ttl,            \* the flow's deadline, Date.now() + 1500
          ClientTimeout,  \* SOCKET_TIMEOUT_S of the client
          MaxStall        \* how long Node-RED may leave a request unread

ASSUME BridgeAssumption ==
    /\ None \notin Ids
    /\ Lease \in Nat /\ Overrun \in Nat
    /\ HubTimeout \in Nat /\ Ttl \in Nat \ {0} /\ ClientTimeout \in Nat /\ MaxStall \in Nat

VARIABLES
    req,      \* what is left of each request
    backlog,  \* the ids of the commands in the daemon's socket, oldest first
    hub,      \* the call the Hub waits for, since when, and what it was told last
    ready     \* how far the flow's startup DRAIN is; freezeProtectReady is "yes"

vars == <<req, backlog, hub, ready, valve, left>>

Commands == {"DRAIN", "begin", "renew"}     \* the last two are SUPPLY's actions

(* inbox: at Node-RED.  started: its client runs.  waiting: the client     *)
(* waits for the daemon.  answered: the client has printed its result.     *)
(* gone: the client and the answer are gone, the command may be queued.    *)
Stages == {"free", "inbox", "started", "waiting", "answered", "gone"}

Requests == [at : Stages, command : Commands, startup : BOOLEAN, ok : BOOLEAN,
             age : Nat,      \* since the Hub posted it
             ttl : Nat,      \* until the deadline, once the flow has set it
             wait : Nat]     \* since the client connected

Free == [at |-> "free", command |-> "DRAIN", startup |-> FALSE, ok |-> FALSE,
         age |-> 0, ttl |-> 0, wait |-> 0]

(* Ages are counted this far. *)
MaxAge == IF Ttl > MaxStall THEN Ttl ELSE MaxStall
Queued(id) == \E n \in DOMAIN backlog : backlog[n] = id

(* Nothing but a queued command is left of a request. *)
Forgotten(r, queued) == IF queued THEN [r EXCEPT !.at = "gone"] ELSE Free

Told(belief) == [call |-> None, waited |-> 0, belief |-> belief]

-----------------------------------------------------------------------------
(* The Hub. *)

Init ==
    /\ req = [id \in Ids |-> Free] /\ backlog = <<>>
    /\ hub = Told("unknown") /\ ready = "no"
    /\ ValveInit

(* NodeRedActuatorDriver.command posts, under the control service's lock. *)
Call(id, command) ==
    /\ hub.call = None /\ req[id].at = "free"
    /\ req' = [req EXCEPT ![id] = [Free EXCEPT !.at = "inbox", !.command = command]]
    /\ hub' = [call |-> id, waited |-> 0, belief |-> "unknown"]
    /\ UNCHANGED <<backlog, ready, valve, left>>

(* urlopen gives up.  The request stays wherever it is. *)
HubTimesOut ==
    /\ hub.call # None /\ hub.waited = HubTimeout
    /\ hub' = Told("unknown")
    /\ UNCHANGED <<req, backlog, ready, valve, left>>

(* What the Hub knows once request r is answered: _receipt raises unless   *)
(* it is a success for the very request it posted.                         *)
Receipt(id, ok) ==
    IF hub.call # id THEN hub
    ELSE Told(IF ~ok THEN "unknown"
              ELSE IF req[id].command = "DRAIN" THEN "drained" ELSE "supplying")

-----------------------------------------------------------------------------
(* The Node-RED flow and the client processes it starts. *)

(* "Validate token, readiness and paired command": SUPPLY needs the        *)
(* startup DRAIN of this life of the flow, and is answered 503 without it. *)
Reject(id) ==
    /\ req[id].at = "inbox" /\ req[id].command # "DRAIN" /\ ready # "yes"
    /\ req' = [req EXCEPT ![id] = Free]
    /\ hub' = Receipt(id, FALSE)
    /\ UNCHANGED <<backlog, ready, valve, left>>

(* The deadline is stamped here, and a client is started for the request.  *)
Validate(id) ==
    /\ req[id].at = "inbox" /\ (req[id].command = "DRAIN" \/ ready = "yes")
    /\ req' = [req EXCEPT ![id].at = "started", ![id].ttl = Ttl]
    /\ UNCHANGED <<backlog, hub, ready, valve, left>>

(* "Request verified startup DRAIN", injected once after every start. *)
StartupDrain(id) ==
    /\ ready = "no" /\ req[id].at = "free"
    /\ req' = [req EXCEPT ![id] = [Free EXCEPT !.at = "started", !.startup = TRUE,
                                               !.ttl = Ttl]]
    /\ ready' = "asked"
    /\ UNCHANGED <<backlog, hub, valve, left>>

\* Mutant: no deadline is passed on, and the client makes its own.
ConnectWithOwnTtl(id) ==
    /\ req[id].at = "started"
    /\ req' = [req EXCEPT ![id].at = "waiting", ![id].ttl = Ttl]
    /\ backlog' = Append(backlog, id)
    /\ UNCHANGED <<hub, ready, valve, left>>

(* connect, sendall and shutdown: from here on the daemon has the bytes. *)
Connect(id) ==
    /\ req[id].at = "started"
    /\ req' = [req EXCEPT ![id].at = "waiting"]
    /\ backlog' = Append(backlog, id)
    /\ UNCHANGED <<hub, ready, valve, left>>

(* Nobody listens on the socket, recv times out, or the exec node's timer, *)
(* longer than anyone waits, kills the process: the result is an error.    *)
ClientFails(id) ==
    /\ \/ req[id].at = "waiting" /\ req[id].wait = ClientTimeout
       \/ req[id].at = "started"
    /\ req' = [req EXCEPT ![id].at = "answered", ![id].ok = FALSE]
    /\ UNCHANGED <<backlog, hub, ready, valve, left>>

\* Mutant: the client's exit status, always 0, is taken for the result.
RespondByStatus(id, stderr) ==
    /\ req[id].at = "answered"
    /\ req' = [req EXCEPT ![id] = Forgotten(req[id], Queued(id))]
    /\ IF req[id].startup
       THEN ready' = (IF stderr THEN "failed" ELSE "yes") /\ UNCHANGED hub
       ELSE hub' = Receipt(id, ~stderr) /\ UNCHANGED ready
    /\ UNCHANGED <<backlog, valve, left>>

(* "Confirm paired GPIO readback before receipt".  Something on stderr may *)
(* make even a success a failure, whichever of the two is answered first.  *)
Respond(id, stderr) ==
    /\ req[id].at = "answered"
    /\ req' = [req EXCEPT ![id] = Forgotten(req[id], Queued(id))]
    /\ IF req[id].startup
       THEN /\ ready' = IF req[id].ok /\ ~stderr THEN "yes" ELSE "failed"
            /\ UNCHANGED hub
       ELSE hub' = Receipt(id, req[id].ok /\ ~stderr) /\ UNCHANGED ready
    /\ UNCHANGED <<backlog, valve, left>>

(* Node-RED restarts: requests and client processes are lost, what they    *)
(* have queued is not, and a waiting Hub sees its connection reset.        *)
BridgeRestarts ==
    /\ req' = [id \in Ids |-> Forgotten(req[id], Queued(id))]
    /\ hub' = IF hub.call = None THEN hub ELSE Told("unknown")
    /\ ready' = "no"
    /\ UNCHANGED <<backlog, valve, left>>

-----------------------------------------------------------------------------
(* The daemon. *)

(* The reply to the oldest command: a client that still waits gets it. *)
Replied(id, ok) ==
    /\ backlog' = Tail(backlog)
    /\ req' = [req EXCEPT ![id] = CASE @.at = "waiting" -> [@ EXCEPT !.at = "answered", !.ok = ok]
                                    [] @.at = "gone" -> Free
                                    [] OTHER -> @]
    /\ UNCHANGED <<hub, ready>>

(* DRAIN is carried out whatever its deadline. *)
ServeDrain ==
    /\ backlog # <<>> /\ req[Head(backlog)].command = "DRAIN"
    /\ \/ Close /\ Replied(Head(backlog), TRUE)
       \/ Lose /\ Replied(Head(backlog), FALSE)

(* A timely SUPPLY whose action fits the lease; the write may fail.  Any   *)
(* other is refused.                                                       *)
Supply(command) == IF command = "begin" THEN Begin ELSE Renew
Fits(command) == IF command = "begin" THEN valve = "drain" ELSE (valve = "supply" /\ left > 0)

ServeSupply ==
    /\ backlog # <<>> /\ req[Head(backlog)].command # "DRAIN"
    /\ LET id == Head(backlog) IN
       \/ /\ req[id].ttl > 0 /\ Fits(req[id].command)
          /\ \/ Supply(req[id].command) /\ Replied(id, TRUE)
             \/ (Close \/ Lose) /\ Replied(id, FALSE)
       \/ /\ req[id].ttl = 0 \/ ~Fits(req[id].command)
          /\ Replied(id, FALSE) /\ UNCHANGED <<valve, left>>

(* The loop drains a pair that is unconfirmed or whose lease has run out. *)
Enforce ==
    /\ valve = "unconfirmed" \/ (valve = "supply" /\ left <= 0)
    /\ Close \/ Lose
    /\ UNCHANGED <<req, backlog, hub, ready>>

(* The daemon dies: its socket goes with it, and every client of it fails. *)
DaemonRestarts ==
    /\ Lose
    /\ backlog' = <<>>
    /\ req' = [id \in Ids |->
                 CASE req[id].at = "waiting" -> [req[id] EXCEPT !.at = "answered", !.ok = FALSE]
                   [] req[id].at = "gone" -> Free
                   [] OTHER -> req[id]]
    /\ UNCHANGED <<hub, ready>>

-----------------------------------------------------------------------------
\* Mutant: a deadline in the past keeps running.
AgedPast(r) ==
    IF r.at = "free" THEN r
    ELSE [r EXCEPT !.age = IF @ < MaxAge THEN @ + 1 ELSE @,
                   !.ttl = @ - 1,
                   !.wait = IF r.at = "waiting" /\ @ < ClientTimeout THEN @ + 1 ELSE @]

Aged(r) ==
    IF r.at = "free" THEN r
    ELSE [r EXCEPT !.age = IF @ < MaxAge THEN @ + 1 ELSE @,
                   !.ttl = IF @ > 0 THEN @ - 1 ELSE @,
                   !.wait = IF r.at = "waiting" /\ @ < ClientTimeout THEN @ + 1 ELSE @]

(* The Hub never waits past its timeout, nor a request past MaxStall. *)
Tick ==
    /\ hub.call # None => hub.waited < HubTimeout
    /\ \A id \in Ids : req[id].at = "inbox" => req[id].age < MaxStall
    /\ IF valve = "supply" THEN Elapse ELSE UNCHANGED <<valve, left>>
    /\ req' = [id \in Ids |-> Aged(req[id])]
    /\ hub' = IF hub.call = None THEN hub ELSE [hub EXCEPT !.waited = @ + 1]
    /\ UNCHANGED <<backlog, ready>>

Next ==
    \/ \E id \in Ids, command \in Commands : Call(id, command)
    \/ HubTimesOut
    \/ \E id \in Ids : Reject(id) \/ Validate(id) \/ StartupDrain(id)
                       \/ Connect(id) \/ ClientFails(id)
    \/ \E id \in Ids, stderr \in BOOLEAN : Respond(id, stderr)
    \/ BridgeRestarts
    \/ ServeDrain \/ ServeSupply \/ Enforce \/ DaemonRestarts
    \/ Tick

Spec == Init /\ [][Next]_vars

-----------------------------------------------------------------------------
(* Properties *)

(* Every variable stays within its type. *)
TypeOK ==
    /\ req \in [Ids -> Requests]
    /\ backlog \in Seq(Ids)
    /\ hub \in [call : Ids \cup {None}, waited : Nat,
                belief : {"unknown", "drained", "supplying"}]
    /\ ready \in {"no", "asked", "yes", "failed"}
    /\ valve \in {"drain", "supply", "unconfirmed"} /\ left \in Int

(* Once the Hub has the receipt of a DRAIN and has asked for nothing       *)
(* since, the pair does not supply: no SUPPLY it posted earlier, whether   *)
(* it was answered, given up or orphaned by a restart, opens the valve     *)
(* behind that receipt.  It rests on MaxStall + Ttl <= HubTimeout, on the  *)
(* order of the daemon's socket and on the deadline of SUPPLY.             *)
ConfirmedDrainLasts == hub.belief = "drained" => valve # "supply"

(* When the Hub is told that the pair supplies, the lease the daemon holds *)
(* is at most HubTimeout old: the Hub may count on the rest of it.  A      *)
(* success that belongs to another request, or none, would not do.         *)
ConfirmedLeaseIsFresh ==
    [][hub.belief # "supplying" /\ hub'.belief = "supplying" /\ valve = "supply"
          => left >= Lease - HubTimeout]_vars

(* docs/superpowers/specs/2026-09-11-m1-weather-display-design.md:104:     *)
(* "Each SUPPLY carries a short absolute deadline from the original HTTP   *)
(* request; a delayed or stale request is rejected before it can change    *)
(* GPIO state."  At the least a request as old as HubTimeout is stale.     *)
DelayedSupplyIsRejected ==
    [][valve = "drain" /\ valve' = "supply"
          => req[Head(backlog)].age < HubTimeout]_vars
=============================================================================
