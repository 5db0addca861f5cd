---------------------------- MODULE CircuitBreaker ----------------------------
(***************************************************************************)
(* One CircuitBreaker object (src/src/shared/circuit-breaker.ts) and the   *)
(* calls it guards.  A call is admitted by execute() or by tryAcquire(),   *)
(* runs for any time, and reports success or failure when it returns, so a *)
(* result can arrive in a state other than the one that admitted the call. *)
(* The code runs on one thread: admission and each report are atomic.      *)
(*                                                                         *)
(* Time is kept as the distance from lastFailureTime to Date.now(), cut at *)
(* ResetTimeout, and failureCount is cut at FailureThreshold: the code     *)
(* only compares each with that bound.                                     *)
(***************************************************************************)
EXTENDS Naturals

CONSTANTS
  Calls,              \* identities of concurrent calls through this breaker
  FailureThreshold,   \* options.failureThreshold
  SuccessThreshold,   \* options.successThreshold
  ResetTimeout        \* options.resetTimeoutMs, in clock ticks

ASSUME ThresholdsAssumption ==
  /\ FailureThreshold \in Nat \ {0}
  /\ SuccessThreshold \in Nat \ {0}
  /\ ResetTimeout \in Nat

VARIABLES
  state,          \* CircuitState
  failureCount,   \* cut at FailureThreshold
  successCount,
  elapsed,        \* Date.now() - lastFailureTime, cut at ResetTimeout
  gauge,          \* circuit_breaker_state metric, set by onStateChange
  calls,          \* per call: "idle", or the traffic it was admitted as
  sinceTrip       \* history: time since the last entry into OPEN, cut

counters == <<failureCount, successCount>>
vars == <<state, counters, elapsed, gauge, calls, sinceTrip>>

CircuitState == {"CLOSED", "OPEN", "HALF_OPEN"}
CallStatus == {"idle", "normal", "trial"}

\* n + 1, not beyond cap.
Bump(n, cap) == IF n < cap THEN n + 1 ELSE cap

Init ==
  /\ state = "CLOSED"
  /\ failureCount = 0
  /\ successCount = 0
  /\ elapsed = ResetTimeout       \* lastFailureTime = 0 is long ago
  /\ gauge = "CLOSED"
  /\ calls = [c \in Calls |-> "idle"]
  /\ sinceTrip = ResetTimeout

-----------------------------------------------------------------------------
\* Mistaken transition: onStateChange is not called.
MoveToUnobserved(s) ==
  /\ state' = s
  /\ UNCHANGED gauge

\* A change of state that runs onStateChange, which sets the gauge.
MoveTo(s) ==
  /\ state' = s
  /\ gauge' = s

\* Mistaken recovery: failureCount survives.
CloseKeepingFailures ==
  /\ MoveTo("CLOSED")
  /\ successCount' = 0
  /\ UNCHANGED failureCount

\* Mistaken recovery: successCount survives.
CloseKeepingSuccesses ==
  /\ MoveTo("CLOSED")
  /\ failureCount' = 0
  /\ successCount' = successCount + 1

\* Recovery: both counters start over.
CloseCircuit ==
  /\ MoveTo("CLOSED")
  /\ failureCount' = 0
  /\ successCount' = 0

\* Mistaken report: a failed trial does not restart the cooldown.
NoteFailureUnlessTrial ==
  /\ failureCount' = Bump(failureCount, FailureThreshold)
  /\ elapsed' = IF state = "HALF_OPEN" THEN elapsed ELSE 0

\* Every failure is counted and restarts the cooldown, whatever the state.
NoteFailure ==
  /\ failureCount' = Bump(failureCount, FailureThreshold)
  /\ elapsed' = 0

\* Mistaken admission: a refused call restarts the cooldown.
BeginRestartingCooldown(c) ==
  /\ calls[c] = "idle"
  /\ \/ /\ state # "OPEN"
        /\ calls' = [calls EXCEPT ![c] = "normal"]
        /\ UNCHANGED <<state, successCount, gauge, elapsed>>
     \/ /\ state = "OPEN"
        /\ elapsed >= ResetTimeout
        /\ MoveTo("HALF_OPEN")
        /\ successCount' = 0
        /\ calls' = [calls EXCEPT ![c] = "trial"]
        /\ UNCHANGED elapsed
     \/ /\ state = "OPEN"
        /\ elapsed < ResetTimeout
        /\ elapsed' = 0
        /\ UNCHANGED <<state, successCount, gauge, calls>>
  /\ UNCHANGED <<failureCount, sinceTrip>>

\* Mistaken admission: each trial call forgets the successes of the others.
BeginForgettingSuccesses(c) ==
  /\ calls[c] = "idle"
  /\ \/ /\ state = "CLOSED"
        /\ UNCHANGED <<state, successCount, gauge>>
     \/ /\ state = "HALF_OPEN" \/ (state = "OPEN" /\ elapsed >= ResetTimeout)
        /\ MoveTo("HALF_OPEN")
        /\ successCount' = 0
  /\ calls' = [calls EXCEPT ![c] = IF state = "CLOSED" THEN "normal" ELSE "trial"]
  /\ UNCHANGED <<failureCount, elapsed, sinceTrip>>

\* tryAcquire(), and the admission part of execute().  A refusal changes
\* nothing and is the absence of this step.
Begin(c) ==
  /\ calls[c] = "idle"
  /\ \/ /\ state # "OPEN"
        /\ UNCHANGED <<state, successCount, gauge>>
     \/ /\ state = "OPEN"
        /\ elapsed >= ResetTimeout
        /\ MoveTo("HALF_OPEN")
        /\ successCount' = 0
  /\ calls' = [calls EXCEPT ![c] = IF state = "CLOSED" THEN "normal" ELSE "trial"]
  /\ UNCHANGED <<failureCount, elapsed, sinceTrip>>

\* onSuccess(): in HALF_OPEN it counts towards recovery, in the two other
\* states it clears failureCount.
Succeed(c) ==
  /\ calls[c] # "idle"
  /\ calls' = [calls EXCEPT ![c] = "idle"]
  /\ \/ /\ state = "HALF_OPEN"
        /\ successCount + 1 < SuccessThreshold
        /\ successCount' = successCount + 1
        /\ UNCHANGED <<state, failureCount, gauge>>
     \/ /\ state = "HALF_OPEN"
        /\ successCount + 1 >= SuccessThreshold
        /\ CloseCircuit
     \/ /\ state # "HALF_OPEN"
        /\ failureCount' = 0
        /\ UNCHANGED <<state, successCount, gauge>>
  /\ UNCHANGED <<elapsed, sinceTrip>>

\* onFailure(): every failure restarts the cooldown, whatever the state; at
\* the threshold an OPEN breaker moves to OPEN again.
Fail(c) ==
  /\ calls[c] # "idle"
  /\ calls' = [calls EXCEPT ![c] = "idle"]
  /\ NoteFailure
  /\ \/ /\ state = "HALF_OPEN" \/ failureCount' >= FailureThreshold
        /\ MoveTo("OPEN")
        /\ sinceTrip' = IF state = "OPEN" THEN sinceTrip ELSE 0
     \/ /\ state # "HALF_OPEN" /\ failureCount' < FailureThreshold
        /\ UNCHANGED <<state, gauge, sinceTrip>>
  /\ UNCHANGED successCount

\* The answer of the upstream, or its failure, is reported: any other result of
\* a wrapped request is one of the two.
Report(c) == Succeed(c) \/ Fail(c)

\* A proxied request whose client went away: http-proxy then calls neither
\* proxyRes nor error, so nothing is reported.
Abandon(c) ==
  /\ calls[c] # "idle"
  /\ calls' = [calls EXCEPT ![c] = "idle"]
  /\ UNCHANGED <<state, counters, elapsed, gauge, sinceTrip>>

\* reset(), from POST /admin/circuit-breakers/:apiName/reset.
Reset ==
  /\ state' = "CLOSED"
  /\ gauge' = IF state # "CLOSED" THEN "CLOSED" ELSE gauge
  /\ failureCount' = 0
  /\ successCount' = 0
  /\ elapsed' = ResetTimeout
  /\ UNCHANGED <<calls, sinceTrip>>

\* The clock advances.
Tick ==
  /\ elapsed < ResetTimeout \/ sinceTrip < ResetTimeout
  /\ elapsed' = Bump(elapsed, ResetTimeout)
  /\ sinceTrip' = Bump(sinceTrip, ResetTimeout)
  /\ UNCHANGED <<state, counters, gauge, calls>>

Next ==
  \/ \E c \in Calls : Begin(c) \/ Report(c) \/ Abandon(c)
  \/ Reset
  \/ Tick

Spec == Init /\ [][Next]_vars

\* Callers keep calling, the HTTP timeout or the client ends every call, time
\* passes.
Fairness ==
  /\ \A c \in Calls : WF_vars(Begin(c)) /\ WF_vars(Report(c) \/ Abandon(c))
  /\ WF_vars(Tick)

FairSpec == Spec /\ Fairness

-----------------------------------------------------------------------------
TypeOK ==
  /\ state \in CircuitState
  /\ failureCount \in 0 .. FailureThreshold
  /\ successCount \in 0 .. (SuccessThreshold - 1)
  /\ elapsed \in 0 .. ResetTimeout
  /\ gauge \in CircuitState
  /\ calls \in [Calls -> CallStatus]
  /\ sinceTrip \in 0 .. ResetTimeout

\* No streak of results, arriving in whatever state, leaves the breaker
\* CLOSED with a full failure count or with trial successes left over from an
\* earlier trial (onFailure and onSuccess clear each counter in some states
\* only).
CountersFitState ==
  state = "CLOSED" => failureCount < FailureThreshold /\ successCount = 0

\* While OPEN the cooldown the code measures, from the last failure, is never
\* ahead of the time since the breaker opened: a late result cannot shorten
\* it.
CooldownNotShortened == state = "OPEN" => elapsed <= sinceTrip

\* The breaker, seen through the gauge onStateChange sets, keeps the
\* contract: it opens at exactly FailureThreshold consecutive failures
\* reported while CLOSED or at one failure in a trial, lets nothing through
\* for ResetTimeout after that, and closes after SuccessThreshold successes.
\* The counters mean something in one state each; elsewhere they are noise.
Contract == INSTANCE BreakerContract WITH
  phase <- gauge,
  quiet <- sinceTrip,
  badRun <- IF state = "CLOSED" THEN failureCount ELSE 0,
  goodRun <- IF state = "HALF_OPEN" THEN successCount ELSE 0,
  inFlight <- {c \in Calls : calls[c] # "idle"}

\* The refinement property named by the runs.
KeepsContract == Contract!Spec

\* An OPEN breaker is eventually tried again, although failures of calls
\* admitted before it opened keep restarting the cooldown.
TriedAgain == state = "OPEN" ~> state # "OPEN"

\* Either the upstream goes on failing for ever, or clients go on giving up, or
\* the breaker ends CLOSED and stays so.
Recovers ==
  \/ []<><<\E c \in Calls : Fail(c) \/ Abandon(c)>>_vars
  \/ <>[](state = "CLOSED")

\* circuit-breaker.ts line 9 says that after the cooldown "one test request
\* is allowed through": at most one trial call is out while HALF_OPEN.
OneTestRequest ==
  state = "HALF_OPEN" =>
    \A c, d \in Calls : calls[c] = "trial" /\ calls[d] = "trial" => c = d
=============================================================================
