----------------------------- MODULE MCTokenStore -----------------------------
(* Values of the constants of TokenStore for TLC.                            *)
EXTENDS TokenStore

CONSTANTS c1, c2, c3, t1, t2, tribe1
=============================================================================
