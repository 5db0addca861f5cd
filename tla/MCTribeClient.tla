---------------------------- MODULE MCTribeClient ----------------------------
(* Values of the constants of TribeClient for TLC.                           *)
EXTENDS TribeClient

CONSTANTS o1, o2, o3
=============================================================================
