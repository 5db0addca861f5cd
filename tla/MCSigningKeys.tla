---------------------------- MODULE MCSigningKeys ----------------------------
(* Values of the constants of SigningKeys for TLC.                           *)
EXTENDS SigningKeys

CONSTANT c1
=============================================================================
