--------------------------- MODULE MCCircuitBreaker ---------------------------
(* Instances of CircuitBreaker for TLC; the configurations give the constants. *)
EXTENDS CircuitBreaker
=============================================================================
