--------------------------- MODULE ServiceLifecycle ---------------------------
(***************************************************************************)
(* The life of the services one gateway instance knows, as the registry's  *)
(* callers are told about it: what status a service may have next, and     *)
(* which manifests may follow which.  No storage, no health, no time.      *)
(***************************************************************************)
CONSTANTS
  Services,
  Manifests,
  Follows(_, _)   \* Follows(new, old): new may replace old in place

VARIABLES
  status,     \* per service: "absent", "active", "deprecated" or "retired"
  manifest    \* per service: the manifest it was last registered with

vars == <<status, manifest>>

CONSTANT Nothing    \* the manifest of an absent service

Init ==
  /\ status = [s \in Services |-> "absent"]
  /\ manifest = [s \in Services |-> Nothing]

\* A first registration makes a service active.
Introduce(s, m) ==
  /\ status[s] = "absent"
  /\ status' = [status EXCEPT ![s] = "active"]
  /\ manifest' = [manifest EXCEPT ![s] = m]

\* A later registration replaces the manifest and keeps the status.
Replace(s, m) ==
  /\ status[s] \in {"active", "deprecated"}
  /\ Follows(m, manifest[s])
  /\ manifest' = [manifest EXCEPT ![s] = m]
  /\ UNCHANGED status

Deprecate(s) ==
  /\ status[s] = "active"
  /\ status' = [status EXCEPT ![s] = "deprecated"]
  /\ UNCHANGED manifest

Activate(s) ==
  /\ status[s] = "deprecated"
  /\ status' = [status EXCEPT ![s] = "active"]
  /\ UNCHANGED manifest

Retire(s) ==
  /\ status[s] \in {"active", "deprecated"}
  /\ status' = [status EXCEPT ![s] = "retired"]
  /\ UNCHANGED manifest

\* A deregistration, or a registration that failed after all.
Remove(s) ==
  /\ status[s] # "absent"
  /\ status' = [status EXCEPT ![s] = "absent"]
  /\ manifest' = [manifest EXCEPT ![s] = Nothing]

Next ==
  \E s \in Services :
    \/ \E m \in Manifests : Introduce(s, m) \/ Replace(s, m)
    \/ Deprecate(s)
    \/ Activate(s)
    \/ Retire(s)
    \/ Remove(s)

Spec == Init /\ [][Next]_vars
=============================================================================
