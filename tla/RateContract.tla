----------------------------- MODULE RateContract -----------------------------
(***************************************************************************)
(* What one store of src/src/shared/redis-throttler-storage.ts promises to *)
(* the guard that asks it (TribeThrottlerGuard), said without its keys and *)
(* its commands: in a window, which opens with the first request that is   *)
(* counted and lasts for at least Window ticks, at most Limit requests of  *)
(* a client pass.  Refusing is always allowed.                             *)
(***************************************************************************)
EXTENDS Naturals

CONSTANTS
  Requests,
  Limit,     \* requests that pass in a window
  Window     \* the least time a window is open

VARIABLES
  used,      \* requests counted in the window, up to Limit
  age,       \* ticks since the window opened, up to Window
  verdict    \* per request: "none", "pass" or "refuse"

vars == <<used, age, verdict>>

Init ==
  /\ used = 0
  /\ age = Window
  /\ verdict = [r \in Requests |-> "none"]

\* The first request of a window.
Open(r) ==
  /\ used = 0
  /\ used' = 1
  /\ age' = 0
  /\ verdict' = [verdict EXCEPT ![r] = "pass"]

Pass(r) ==
  /\ used \in 1 .. (Limit - 1)
  /\ used' = used + 1
  /\ verdict' = [verdict EXCEPT ![r] = "pass"]
  /\ UNCHANGED age

Refuse(r) ==
  /\ verdict' = [verdict EXCEPT ![r] = "refuse"]
  /\ UNCHANGED <<used, age>>

\* The request is over; its answer is no longer of interest.
Forget(r) ==
  /\ verdict' = [verdict EXCEPT ![r] = "none"]
  /\ UNCHANGED <<used, age>>

\* Time passes; a window may close when it has been open for Window ticks.
Tick ==
  /\ age' = IF age < Window THEN age + 1 ELSE Window
  /\ used' \in IF age' = Window THEN {0, used} ELSE {used}
  /\ UNCHANGED verdict

\* A window that is due closes when the next request is counted in a new one.
Reopen(r) ==
  /\ age = Window
  /\ used' = 1
  /\ age' = 0
  /\ verdict' = [verdict EXCEPT ![r] = "pass"]

\* A request finds a window that is due: it is closed, whatever the answer.
Close(r) ==
  /\ age = Window
  /\ used' = 0
  /\ verdict' \in {[verdict EXCEPT ![r] = v] : v \in {"none", "refuse"}}
  /\ UNCHANGED age

Next ==
  \/ \E r \in Requests : Open(r) \/ Pass(r) \/ Refuse(r) \/ Forget(r) \/ Reopen(r) \/ Close(r)
  \/ Tick

Spec == Init /\ [][Next]_vars
=============================================================================
