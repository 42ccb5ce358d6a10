------------------------------ MODULE HubCalls ------------------------------
(***************************************************************************)
(* How the Hub's methods are written in the modules that model them, and   *)
(* the paired valve as the Hub sees it.                                    *)
(*                                                                         *)
(* A method runs under one lock and calls out - to the actuator driver, to *)
(* a store, to a sensor - and each call may fail.  It is the set of the    *)
(* results it can have: the service's record s afterwards, and how it      *)
(* ended, "ok" (it returned, or returned True), "error" (it returned       *)
(* False), or otherwise, which goes through every caller: "raise", an      *)
(* exception nobody handles, "crash", the end of the process.              *)
(***************************************************************************)
EXTENDS Integers

CONSTANT Lease     \* SUPPLY_LEASE_S, the daemon's lease

Done(s)    == {[s |-> s, how |-> "ok"]}
Refused(s) == {[s |-> s, how |-> "error"]}

(* Go on from the results of a call by whether it ended well. *)
Then(results, OnOk(_), OnError(_)) ==
    UNION {CASE r.how = "ok"    -> OnOk(r.s)
             [] r.how = "error" -> OnError(r.s)
             [] OTHER           -> {r} : r \in results}

(* Go on in the same way whether the call returned True or False. *)
Regardless(results, Next1(_)) == Then(results, Next1, Next1)

-----------------------------------------------------------------------------
(* The valve, which obeys LeasedValve: "begin" is accepted only in a       *)
(* confirmed DRAIN, "renew" only under a live lease.                       *)

Drained(s) == [s EXCEPT !.valve = "drain", !.lease = 0]
Lost(s)    == [s EXCEPT !.valve = "unconfirmed", !.lease = 0]
Opened(s)  == [s EXCEPT !.valve = "supply", !.lease = Lease]

(* What the daemon makes of an action, if it accepts it. *)
Accepted(s, action) ==
    CASE action = "drain" -> {Drained(s)}
      [] action = "begin" -> IF s.valve = "drain" THEN {Opened(s)} ELSE {}
      [] action = "renew" -> IF s.valve = "supply" THEN {Opened(s)} ELSE {}

(* Time passes for a shower's deadline and for the lease; a lease that     *)
(* runs out is drained, and the readback may fail.                         *)
Later(s) ==
    LET later == [s EXCEPT !.left = IF @ > 0 THEN @ - 1 ELSE @,
                           !.lease = IF @ > 0 THEN @ - 1 ELSE @]
    IN IF later.valve = "supply" /\ later.lease = 0
       THEN {Drained(later), Lost(later)} ELSE {later}

(* A step in which the daemon grants SUPPLY. *)
Grants(s, next) == next.lease > s.lease \/ (next.valve = "supply" /\ s.valve # "supply")

-----------------------------------------------------------------------------
(* What the Hub keeps of its commands and of a shower. *)

Expired(s) == s.left <= 0
Faulted(s) == s.state = "FAULT"
NoTimer(s) == [s EXCEPT !.timer = FALSE, !.left = 0, !.duration = 0]

(* The receipt of an action that was confirmed. *)
Confirmed(s, action) ==
    [s EXCEPT !.last = IF action = "drain" THEN "DRAIN" ELSE "SUPPLY",
              !.ready = action = "drain" \/ @]

(* The action of a SUPPLY that is not a timer's renewal. *)
SupplyAction(s) == IF s.last = "SUPPLY" THEN "renew" ELSE "begin"
=============================================================================
