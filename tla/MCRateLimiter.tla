---------------------------- MODULE MCRateLimiter ----------------------------
(* Values of the constants of RateLimiter for TLC.                           *)
EXTENDS RateLimiter

CONSTANTS i1, i2, k1, k2
=============================================================================
