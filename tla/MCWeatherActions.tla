--------------------------- MODULE MCWeatherActions ---------------------------
(* WeatherActions for TLC: request ids and nonces are interchangeable. *)
EXTENDS WeatherActions, TLC

Symmetry == Permutations(Ids) \cup Permutations(Nonces)
=============================================================================
