----------------------------- MODULE LeasedValve -----------------------------
(***************************************************************************)
(* What the paired GPIO daemon promises about the two output latches,      *)
(* without its loop, its socket or its GPIO readbacks: the pair supplies   *)
(* water only under a lease, a lease is opened only from a confirmed       *)
(* DRAIN, it is prolonged only while it is alive, and it can outlive its   *)
(* last unit of time by Overrun units at most.                             *)
(*                                                                         *)
(* SupplyLease implements this specification.                              *)
(***************************************************************************)
EXTENDS Integers

CONSTANTS Lease,    \* units of time a granted SUPPLY lasts
          Overrun   \* units of time a lapsed lease may go unnoticed

VARIABLES valve,    \* "drain" and "supply" are confirmed, "unconfirmed" is not
          left      \* time left on the lease while valve = "supply", else 0

valveVars == <<valve, left>>

ValveInit ==
    /\ valve = "unconfirmed"
    /\ left = 0

(* The pair is driven high and the readback confirms it. *)
Close ==
    /\ valve' = "drain"
    /\ left' = 0

(* The pair's level is no longer known: a readback failed or the daemon died. *)
Lose ==
    /\ valve' = "unconfirmed"
    /\ left' = 0

(* A new lease is opened from a confirmed DRAIN and from nothing else. *)
Begin ==
    /\ valve = "drain"
    /\ valve' = "supply"
    /\ left' = Lease

(* The holder of a live lease prolongs it. *)
Renew ==
    /\ valve = "supply" /\ left > 0
    /\ valve' = "supply"
    /\ left' = Lease

(* A unit of time passes; a lapsed lease is noticed within Overrun units. *)
Elapse ==
    /\ valve = "supply" /\ left > 0 - Overrun
    /\ valve' = valve
    /\ left' = left - 1

ValveNext == Close \/ Lose \/ Begin \/ Renew \/ Elapse

ValveSpec == ValveInit /\ [][ValveNext]_valveVars
=============================================================================
