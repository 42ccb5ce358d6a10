----------------------------- MODULE SupplyLease -----------------------------
(***************************************************************************)
(* The paired GPIO daemon: sole writer of the two output pins, sole        *)
(* authority over the SUPPLY lease.  One thread runs                       *)
(*     enforce -> accept -> recv -> execute -> reply -> enforce -> ...     *)
(* and blocks only in accept and recv.  It can be killed at any point; the *)
(* output latches keep their level while it is down.                       *)
(*                                                                         *)
(* Time is discrete and relative: lease.left stands for                    *)
(* _expires_at - clock(), blocked for the time the current call has taken, *)
(* and a request's deadline for deadline_unix_ms - now at its validation.  *)
(* The machine's two clocks advance together here.                         *)
(***************************************************************************)
EXTENDS Integers

CONSTANTS Lease,          \* SUPPLY_LEASE_S
          MaxTtl,         \* MAX_SUPPLY_TTL_S
          AcceptTimeout,  \* listener.settimeout
          SocketTimeout,  \* SOCKET_TIMEOUT_S, the wait for a client's bytes
          ExecuteDelay    \* the longest a request waits between its two checks

ASSUME TimingAssumption ==
    /\ Lease \in Nat \ {0} /\ MaxTtl \in Nat \ {0}
    /\ AcceptTimeout \in Nat /\ SocketTimeout \in Nat /\ ExecuteDelay \in Nat

VARIABLES
    proc,      \* what the daemon's thread is doing; "down" if it was killed or failed
    stop,      \* the flag SIGTERM and SIGINT set
    blocked,   \* time spent in the current blocking call
    action,    \* supply_action of the request being executed
    lease,     \* the SupplyLease object and the level of the pins it drives
    receipt    \* the reply last sent to a client

vars == <<proc, stop, blocked, action, lease, receipt>>

Pins     == {26, 20}
Levels   == [Pins -> {0, 1}]
High     == [p \in Pins |-> 1]          \* DRAIN
Low      == [p \in Pins |-> 0]          \* SUPPLY
Actions  == {"none", "begin", "renew"}
Commands == {"DRAIN", "SUPPLY"}

Leases == [held : BOOLEAN,              \* _expires_at is not None
           left : Int,
           verified : BOOLEAN,          \* _drain_verified
           pending : BOOLEAN,           \* _drain_pending
           level : Levels]

Replies == [ok : BOOLEAN, command : Commands \cup {"none"}, action : Actions]
\* Mutant: an error reply without the action it answers.
FailedBare(c) == [ok |-> FALSE, command |-> c]

Failed(c) == [ok |-> FALSE, command |-> c, action |-> "none"]

(* A request as execute_request reads it.  "deadline" is relative to now;  *)
(* "finite" is FALSE for a deadline that is missing, not a number, or NaN. *)
Requests == [command : Commands, action : Actions, version : {1, 2},
             finite : BOOLEAN, deadline : (0 - 1)..(MaxTtl + 1)]

Timely(r) == r.finite /\ 0 < r.deadline /\ r.deadline <= MaxTtl

-----------------------------------------------------------------------------
(* SupplyLease: its fields after each of its methods. *)

(* A process starts with an empty lease over whatever level the pins have. *)
Unleased(level) == [held |-> FALSE, left |-> 0, verified |-> FALSE,
                    pending |-> FALSE, level |-> level]

\* Mutant: an unconfirmed DRAIN is not kept for a retry.
DrainedOnce(read) == [held |-> FALSE, left |-> 0, verified |-> read = High,
                      pending |-> FALSE, level |-> read]

(* _drain when GPLEV0 reads back as "read": it raises unless both are high. *)
Drained(read) == [held |-> FALSE, left |-> 0, verified |-> read = High,
                  pending |-> read # High, level |-> read]

\* Mutants: a renewal adds to the lease; the verified DRAIN is not used up.
SuppliedOnTop == [held |-> TRUE, left |-> lease.left + Lease, verified |-> FALSE,
                  pending |-> FALSE, level |-> Low]

SuppliedStillVerified == [held |-> TRUE, left |-> Lease, verified |-> TRUE,
                          pending |-> FALSE, level |-> Low]

(* A SUPPLY write that both pins confirm grants a full lease. *)
Supplied == [held |-> TRUE, left |-> Lease, verified |-> FALSE,
             pending |-> FALSE, level |-> Low]

Overdue(l) == l.held /\ l.left <= 0

\* Mutant: only expiry is enforced, not a pending DRAIN.
DueOnExpiry(l) == Overdue(l)

(* enforce has something to do. *)
Due(l) == l.pending \/ Overdue(l)

(* The lease once enforce is done; it raised if a DRAIN is left pending. *)
Enforced(read) == IF Due(lease) THEN Drained(read) ELSE lease

Allowed(a) == \/ a = "begin" /\ ~lease.held /\ lease.verified
              \/ a = "renew" /\ lease.held /\ lease.left > 0

-----------------------------------------------------------------------------
Init ==
    /\ proc = "down" /\ stop = FALSE /\ blocked = 0 /\ action = "none"
    /\ \E level \in Levels : lease = Unleased(level)
    /\ receipt = Failed("none")

(* run_daemon and serve up to the loop: the pair is drained before serve   *)
(* and again inside it, and both readbacks must confirm.  On a failure the *)
(* finally clause drains once more and the process exits with an error.    *)
Start(first, second, emergency) ==
    /\ proc \in {"down", "stopped"}
    /\ stop' = FALSE /\ blocked' = 0 /\ action' = "none"
    /\ receipt' = Failed("none")
    /\ IF first = High /\ second = High
       THEN proc' = "enforce" /\ lease' = Drained(second)
       ELSE proc' = "down" /\ lease' = Unleased(emergency)

(* SIGTERM or SIGINT: the handler only sets a flag. *)
Terminate ==
    /\ proc \notin {"down", "stopped"} /\ ~stop
    /\ stop' = TRUE
    /\ UNCHANGED <<proc, blocked, action, lease, receipt>>

(* The loop sees the flag; finally drains the pair, best effort, and the   *)
(* process exits with status 0, so systemd does not restart it.            *)
Exit(read) ==
    /\ proc = "enforce" /\ stop
    /\ proc' = "stopped"
    /\ lease' = Unleased(read)
    /\ UNCHANGED <<stop, blocked, action, receipt>>

(* The levels a kill may leave: a write under way may just have been made. *)
Interrupted == {lease.level}
               \cup (IF proc = "grant" THEN {Low} ELSE {})
               \cup (IF Due(lease) THEN {High} ELSE {})

Crash(level) ==
    /\ proc \notin {"down", "stopped"} /\ level \in Interrupted
    /\ proc' = "down" /\ blocked' = 0 /\ action' = "none"
    /\ lease' = Unleased(level)
    /\ UNCHANGED <<stop, receipt>>

(* Top of the loop: a failed DRAIN is only logged and is retried next time. *)
Enforce(read) ==
    /\ proc = "enforce" /\ ~stop
    /\ lease' = Enforced(read)
    /\ proc' = "accept"
    /\ UNCHANGED <<stop, blocked, action, receipt>>

\* Mutant: the timeout's "continue" goes back to accept.
AcceptAgain ==
    /\ proc = "accept" /\ blocked = AcceptTimeout
    /\ proc' = "accept" /\ blocked' = 0
    /\ UNCHANGED <<stop, action, lease, receipt>>

AcceptTimesOut ==
    /\ proc = "accept" /\ blocked = AcceptTimeout
    /\ proc' = "enforce" /\ blocked' = 0
    /\ UNCHANGED <<stop, action, lease, receipt>>

Accept ==
    /\ proc = "accept"
    /\ proc' = "recv" /\ blocked' = 0
    /\ UNCHANGED <<stop, action, lease, receipt>>

(* recv times out, or its bytes are no request: an error is sent back. *)
RecvFails ==
    /\ proc = "recv"
    /\ proc' = "enforce" /\ blocked' = 0
    /\ receipt' = Failed("none")
    /\ UNCHANGED <<stop, action, lease>>

(* DRAIN needs no time to live and no lease, only a well-formed request. *)
RecvDrain(r, read) ==
    /\ proc = "recv" /\ r.command = "DRAIN"
    /\ proc' = "enforce" /\ blocked' = 0
    /\ IF r.finite /\ r.action = "none"
       THEN /\ lease' = Drained(read)
            /\ receipt' = [Failed("DRAIN") EXCEPT !.ok = (read = High)]
       ELSE lease' = lease /\ receipt' = Failed("DRAIN")
    /\ UNCHANGED <<stop, action>>

(* SUPPLY: the lease is enforced again after the wait in recv, and only    *)
(* then is the request itself looked at.                                   *)
RecvSupply(r, read) ==
    /\ proc = "recv" /\ r.command = "SUPPLY"
    /\ lease' = Enforced(read)
    /\ blocked' = 0
    /\ IF ~Enforced(read).pending /\ Timely(r) /\ r.version = 2 /\ r.action # "none"
       THEN proc' = "execute" /\ action' = r.action /\ UNCHANGED receipt
       ELSE proc' = "enforce" /\ UNCHANGED action /\ receipt' = Failed("SUPPLY")
    /\ UNCHANGED stop

(* SupplyLease.execute enforces once more before it decides. *)
ExecuteEnforce(read) ==
    /\ proc = "execute"
    /\ lease' = Enforced(read)
    /\ blocked' = 0
    /\ IF Enforced(read).pending
       THEN proc' = "enforce" /\ action' = "none" /\ receipt' = Failed("SUPPLY")
       ELSE proc' = "grant" /\ UNCHANGED <<action, receipt>>
    /\ UNCHANGED stop

Refuse ==
    /\ proc = "grant" /\ ~Allowed(action)
    /\ proc' = "enforce" /\ action' = "none" /\ receipt' = Failed("SUPPLY")
    /\ UNCHANGED <<stop, blocked, lease>>

Grant ==
    /\ proc = "grant" /\ Allowed(action)
    /\ proc' = "enforce" /\ action' = "none"
    /\ lease' = Supplied
    /\ receipt' = [ok |-> TRUE, command |-> "SUPPLY", action |-> action]
    /\ UNCHANGED <<stop, blocked>>

\* Mutant: the receipt is built before the readback is known.
GrantClaimed(read) ==
    /\ proc = "grant" /\ Allowed(action)
    /\ proc' = "enforce" /\ action' = "none"
    /\ lease' = Drained(read)
    /\ receipt' = [ok |-> TRUE, command |-> "SUPPLY", action |-> action]
    /\ UNCHANGED <<stop, blocked>>

(* The SUPPLY write is not confirmed: the old lease is gone already, and   *)
(* the pair is drained at once.                                            *)
GrantFails(read) ==
    /\ proc = "grant" /\ Allowed(action)
    /\ proc' = "enforce" /\ action' = "none"
    /\ lease' = Drained(read)
    /\ receipt' = Failed("SUPPLY")
    /\ UNCHANGED <<stop, blocked>>

(* Time passes only while the thread waits, and never past a timeout. *)
Tick ==
    /\ \/ proc = "accept" /\ blocked < AcceptTimeout
       \/ proc = "recv" /\ blocked < SocketTimeout
       \/ proc = "execute" /\ blocked < ExecuteDelay
    /\ blocked' = blocked + 1
    /\ lease' = IF lease.held THEN [lease EXCEPT !.left = @ - 1] ELSE lease
    /\ UNCHANGED <<proc, stop, action, receipt>>

Next ==
    \/ \E first, second, emergency \in Levels : Start(first, second, emergency)
    \/ Terminate
    \/ \E read \in Levels : Exit(read)
    \/ \E level \in Levels : Crash(level)
    \/ \E read \in Levels : Enforce(read)
    \/ AcceptTimesOut \/ Accept \/ RecvFails
    \/ \E r \in Requests, read \in Levels : RecvDrain(r, read)
    \/ \E r \in Requests, read \in Levels : RecvSupply(r, read)
    \/ \E read \in Levels : ExecuteEnforce(read)
    \/ Refuse \/ Grant
    \/ \E read \in Levels : GrantFails(read)
    \/ Tick

Spec == Init /\ [][Next]_vars

(* The thread keeps running and recv returns by its timeout; systemd       *)
(* restarts a process that failed.  The hardware is not assumed to work,   *)
(* only not to fail for ever: a readback that is tried again and again is  *)
(* confirmed in the end.                                                   *)
Fairness ==
    /\ WF_vars(\E read \in Levels : Enforce(read))
    /\ WF_vars(\E read \in Levels : ExecuteEnforce(read))
    /\ WF_vars(\E read \in Levels : Refuse \/ Grant \/ GrantFails(read))
    /\ WF_vars(\E read \in Levels : Exit(read))
    /\ WF_vars(AcceptTimesOut) /\ WF_vars(RecvFails) /\ WF_vars(Tick)
    /\ SF_vars(Start(High, High, High))
    /\ SF_vars(Due(lease) /\ Enforce(High))

FairSpec == Spec /\ Fairness

-----------------------------------------------------------------------------
(* Properties *)

Running == proc \notin {"down", "stopped"}

(* Every variable stays within its type. *)
TypeOK ==
    /\ proc \in {"down", "stopped", "enforce", "accept", "recv", "execute", "grant"}
    /\ stop \in BOOLEAN /\ blocked \in Nat
    /\ action \in Actions /\ lease \in Leases /\ receipt \in Replies

(* While the daemon runs, a pin that is not high is either under a lease   *)
(* or waits for a DRAIN that the loop still owes: no failed readback, kill *)
(* or refused request lets the daemon forget an open or half-open pair.    *)
LowIsAccountedFor ==
    Running => (lease.level # High => lease.held \/ lease.pending)

(* The lease, the verified DRAIN and the pending DRAIN exclude each other  *)
(* and each tells the truth about the pins: what _expires_at,              *)
(* _drain_verified and _drain_pending say never disagrees with the pair.   *)
LeaseMatchesPins ==
    /\ lease.held => lease.level = Low /\ ~lease.verified /\ ~lease.pending
    /\ lease.verified => lease.level = High /\ ~lease.pending

(* A lease that ran out is revoked after at most one accept, one recv and  *)
(* one delayed execute: the loop cannot go round, nor serve a client, with *)
(* an expired lease in place.                                              *)
Overrun == AcceptTimeout + SocketTimeout + ExecuteDelay
OverrunBounded == lease.held => lease.left > 0 - Overrun - 1

(* A reply tells the client what is true: a confirmed DRAIN is a verified  *)
(* one, a confirmed SUPPLY starts a full lease, and a SUPPLY that is       *)
(* refused or fails leaves no lease that was not there before, and gives   *)
(* the one that was there no more time.                                    *)
Replied == proc \in {"recv", "execute", "grant"} /\ proc' = "enforce"
RepliesAreTrue ==
    [][Replied =>
        /\ receipt'.ok /\ receipt'.command = "DRAIN" => lease'.verified
        /\ receipt'.ok /\ receipt'.command = "SUPPLY" =>
              lease' = Supplied /\ lease.left >= 0
        /\ ~receipt'.ok /\ lease'.held => lease' = lease]_vars

(* The daemon keeps what LeasedValve promises: SUPPLY only from a verified *)
(* DRAIN, renewed only while the lease lives.                              *)
Valve == INSTANCE LeasedValve WITH
    valve <- IF lease.held THEN "supply"
             ELSE IF lease.verified THEN "drain" ELSE "unconfirmed",
    left  <- IF lease.held THEN lease.left ELSE 0
ImplementsLeasedValve == Valve!ValveSpec

(* A pair that is not high and not under a live lease is driven high in    *)
(* the end, whatever failed, was killed or was refused on the way: only a  *)
(* deliberate stop of the service ends the daemon's duty.                  *)
Unsafe == lease.level # High /\ (~lease.held \/ Overdue(lease))
DrainedInTheEnd == Unsafe ~> (lease.level = High \/ proc = "stopped")
=============================================================================
