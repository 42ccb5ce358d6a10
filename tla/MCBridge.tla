------------------------------- MODULE MCBridge -------------------------------
(* Bridge for TLC: request ids are interchangeable. *)
EXTENDS Bridge, TLC

Symmetry == Permutations(Ids)
=============================================================================
