--------------------------- MODULE BreakerContract ---------------------------
(***************************************************************************)
(* What src/src/shared/circuit-breaker.ts promises to the code that asks   *)
(* it for permission (ExternalService.call, ProxyHandler.proxyRequest),    *)
(* said without its counters or its clock: when an upstream is cut off,    *)
(* for how long, and what it takes to be trusted again.                    *)
(***************************************************************************)
EXTENDS Naturals

CONSTANTS
  Calls,              \* identities of calls to the upstream
  FailureThreshold,   \* consecutive failures that cut the upstream off
  SuccessThreshold,   \* successes that restore it
  ResetTimeout        \* time it stays cut off before it is tried again

VARIABLES
  phase,      \* "CLOSED", "OPEN" or "HALF_OPEN", as an operator sees it
  quiet,      \* time since the upstream was cut off, up to ResetTimeout
  badRun,     \* consecutive failures reported while CLOSED
  goodRun,    \* successes reported while HALF_OPEN
  inFlight    \* calls that were let through and have not returned

vars == <<phase, quiet, badRun, goodRun, inFlight>>

Init ==
  /\ phase = "CLOSED"
  /\ quiet = ResetTimeout
  /\ badRun = 0
  /\ goodRun = 0
  /\ inFlight = {}

\* A call reaches a trusted upstream, or one that is being tried.
Pass(c) ==
  /\ phase # "OPEN"
  /\ inFlight' = inFlight \union {c}
  /\ UNCHANGED <<phase, quiet, badRun, goodRun>>

\* The first call after the whole quiet period starts the trial.
Probe(c) ==
  /\ phase = "OPEN"
  /\ quiet = ResetTimeout
  /\ phase' = "HALF_OPEN"
  /\ goodRun' = 0
  /\ inFlight' = inFlight \union {c}
  /\ UNCHANGED <<quiet, badRun>>

CutOff ==
  /\ phase' = "OPEN"
  /\ quiet' = 0
  /\ badRun' = 0
  /\ goodRun' = 0

Good(c) ==
  /\ inFlight' = inFlight \ {c}
  /\ \/ /\ phase = "CLOSED"
        /\ badRun' = 0
        /\ UNCHANGED <<phase, quiet, goodRun>>
     \/ /\ phase = "HALF_OPEN"
        /\ goodRun + 1 < SuccessThreshold
        /\ goodRun' = goodRun + 1
        /\ UNCHANGED <<phase, quiet, badRun>>
     \/ /\ phase = "HALF_OPEN"
        /\ goodRun + 1 = SuccessThreshold
        /\ phase' = "CLOSED"
        /\ badRun' = 0
        /\ goodRun' = 0
        /\ UNCHANGED quiet
     \/ /\ phase = "OPEN"
        /\ UNCHANGED <<phase, quiet, badRun, goodRun>>

Bad(c) ==
  /\ inFlight' = inFlight \ {c}
  /\ \/ /\ phase = "CLOSED"
        /\ badRun + 1 < FailureThreshold
        /\ badRun' = badRun + 1
        /\ UNCHANGED <<phase, quiet, goodRun>>
     \/ /\ phase = "CLOSED"
        /\ badRun + 1 = FailureThreshold
        /\ CutOff
     \/ /\ phase = "HALF_OPEN"
        /\ CutOff
     \/ /\ phase = "OPEN"
        /\ UNCHANGED <<phase, quiet, badRun, goodRun>>

\* A call that is given up says nothing of the upstream.
Gone(c) ==
  /\ inFlight' = inFlight \ {c}
  /\ UNCHANGED <<phase, quiet, badRun, goodRun>>

\* An operator declares the upstream trusted.
Restore ==
  /\ phase' = "CLOSED"
  /\ badRun' = 0
  /\ goodRun' = 0
  /\ UNCHANGED <<quiet, inFlight>>

Pause ==
  /\ quiet < ResetTimeout
  /\ quiet' = quiet + 1
  /\ UNCHANGED <<phase, badRun, goodRun, inFlight>>

Next ==
  \/ \E c \in Calls \ inFlight : Pass(c) \/ Probe(c)
  \/ \E c \in inFlight : Good(c) \/ Bad(c) \/ Gone(c)
  \/ Restore
  \/ Pause

Spec == Init /\ [][Next]_vars
=============================================================================
