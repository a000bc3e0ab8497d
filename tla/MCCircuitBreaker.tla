--------------------------- MODULE MCCircuitBreaker -------------------------
(* The breaker with the settings app/main.py gives it; a tick is a second. *)
EXTENDS CircuitBreaker
=============================================================================
