------------------------------ MODULE MCRegistry ------------------------------
(* Values of the constants of Registry for TLC.                              *)
EXTENDS Registry, TLC

CONSTANTS gw1, gw2, tribe1, tribe2, v1, v2, vx

\* One version only.
OneMajor == v1 :> 1

\* Two versions one major apart.
TwoMajors == v1 :> 1 @@ v2 :> 2

\* ... and a manifest whose version is not semver.
WithUnversioned == TwoMajors @@ vx :> NoSemver

AnyInstance == Permutations({gw1, gw2})
=============================================================================
