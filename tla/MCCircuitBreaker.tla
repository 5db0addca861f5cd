--------------------------- MODULE MCCircuitBreaker ---------------------------
(* Values of the constants of CircuitBreaker for TLC.                        *)
EXTENDS CircuitBreaker

CONSTANTS c1, c2, c3
=============================================================================
