------------------------ MODULE CircuitBreakerProofs ------------------------
(***************************************************************************)
(* CircuitBreaker keeps its invariants and implements BreakerContract, for *)
(* every number of concurrent calls, every pair of thresholds and every    *)
(* cooldown.                                                               *)
(***************************************************************************)
EXTENDS CircuitBreaker, TLAPS

\* The inductive invariant: the types, the counters of a CLOSED breaker, the
\* gauge that follows the state, and the two clocks of an OPEN one.
BreakerInv ==
  /\ TypeOK
  /\ CountersFitState
  /\ gauge = state
  /\ CooldownNotShortened

-----------------------------------------------------------------------------
\* A cut counter stays in its range.
LEMMA BumpInRange ==
  ASSUME NEW cap \in Nat, NEW n \in 0 .. cap
  PROVE  Bump(n, cap) \in 0 .. cap
BY DEF Bump

\* A cut clock that was not ahead of another one does not overtake it.
LEMMA BumpMonotone ==
  ASSUME NEW cap \in Nat, NEW m \in 0 .. cap, NEW n \in 0 .. cap, m <= n
  PROVE  Bump(m, cap) <= Bump(n, cap)
BY DEF Bump

\* The constructor establishes the invariant.
LEMMA InitInv == Init => BreakerInv
BY ThresholdsAssumption
   DEF Init, BreakerInv, TypeOK, CountersFitState, CooldownNotShortened,
       CircuitState, CallStatus

\* Admitting a call keeps the invariant.
LEMMA BeginInv ==
  ASSUME BreakerInv, NEW c \in Calls, Begin(c)
  PROVE  BreakerInv'
<1> USE ThresholdsAssumption DEF BreakerInv
<1>1. calls' \in [Calls -> CallStatus]
  BY DEF Begin, TypeOK, CallStatus
<1>2. CASE state # "OPEN"
  BY <1>1, <1>2 DEF Begin, TypeOK, CountersFitState, CooldownNotShortened
<1>3. CASE state = "OPEN"
  BY <1>1, <1>3
     DEF Begin, MoveTo, TypeOK, CountersFitState, CooldownNotShortened, CircuitState
<1>4. QED BY <1>2, <1>3

\* onSuccess keeps the invariant.
LEMMA SucceedInv ==
  ASSUME BreakerInv, NEW c \in Calls, Succeed(c)
  PROVE  BreakerInv'
<1> USE ThresholdsAssumption DEF BreakerInv
<1>1. calls' \in [Calls -> CallStatus]
  BY DEF Succeed, TypeOK, CallStatus
<1>2. QED
  BY <1>1
     DEF Succeed, CloseCircuit, MoveTo, TypeOK, CountersFitState,
         CooldownNotShortened, CircuitState

\* onFailure keeps the invariant.
LEMMA FailInv ==
  ASSUME BreakerInv, NEW c \in Calls, Fail(c)
  PROVE  BreakerInv'
<1> USE ThresholdsAssumption DEF BreakerInv
<1>1. calls' \in [Calls -> CallStatus]
  BY DEF Fail, TypeOK, CallStatus
<1>2. failureCount' \in 0 .. FailureThreshold
  BY BumpInRange DEF Fail, NoteFailure, TypeOK
<1>3. elapsed' = 0 /\ sinceTrip' \in 0 .. ResetTimeout
  BY DEF Fail, NoteFailure, TypeOK
<1>4. QED
  BY <1>1, <1>2, <1>3
     DEF Fail, MoveTo, TypeOK, CountersFitState, CooldownNotShortened, CircuitState

\* A call that is given up keeps the invariant.
LEMMA AbandonInv ==
  ASSUME BreakerInv, NEW c \in Calls, Abandon(c)
  PROVE  BreakerInv'
<1>1. calls' \in [Calls -> CallStatus]
  BY DEF Abandon, BreakerInv, TypeOK, CallStatus
<1>2. QED
  BY <1>1 DEF Abandon, counters, BreakerInv, TypeOK, CountersFitState, CooldownNotShortened

\* The admin reset keeps the invariant.
LEMMA ResetInv == BreakerInv /\ Reset => BreakerInv'
BY ThresholdsAssumption
   DEF Reset, BreakerInv, TypeOK, CountersFitState, CooldownNotShortened, CircuitState

\* The passage of time keeps the invariant.
LEMMA TickInv ==
  ASSUME BreakerInv, Tick
  PROVE  BreakerInv'
<1> USE ThresholdsAssumption DEF BreakerInv
<1>1. elapsed' \in 0 .. ResetTimeout /\ sinceTrip' \in 0 .. ResetTimeout
  BY BumpInRange DEF Tick, TypeOK
<1>2. CooldownNotShortened'
  BY BumpMonotone DEF Tick, TypeOK, CooldownNotShortened
<1>3. QED
  BY <1>1, <1>2 DEF Tick, counters, TypeOK, CountersFitState

\* The invariant is inductive.
LEMMA NextInv == BreakerInv /\ [Next]_vars => BreakerInv'
<1> SUFFICES ASSUME BreakerInv, [Next]_vars PROVE BreakerInv'
  OBVIOUS
<1>1. ASSUME NEW c \in Calls, Begin(c) PROVE BreakerInv'
  BY <1>1, BeginInv
<1>2. ASSUME NEW c \in Calls, Succeed(c) PROVE BreakerInv'
  BY <1>2, SucceedInv
<1>3. ASSUME NEW c \in Calls, Fail(c) PROVE BreakerInv'
  BY <1>3, FailInv
<1>3a. ASSUME NEW c \in Calls, Abandon(c) PROVE BreakerInv'
  BY <1>3a, AbandonInv
<1>4. CASE Reset
  BY <1>4, ResetInv
<1>5. CASE Tick
  BY <1>5, TickInv
<1>6. CASE UNCHANGED vars
  BY <1>6
     DEF BreakerInv, TypeOK, CountersFitState, CooldownNotShortened, vars, counters
<1>7. QED BY <1>1, <1>2, <1>3, <1>4, <1>5, <1>6, <1>3a DEF Next, Report

\* Every reachable state of the breaker satisfies the inductive invariant.
THEOREM BreakerInvariant == Spec => []BreakerInv
BY InitInv, NextInv, PTL DEF Spec

\* Every variable keeps its type; in particular successCount never reaches
\* SuccessThreshold, whichever calls report while HALF_OPEN.
THEOREM BreakerTypeCorrect == Spec => []TypeOK
<1>1. BreakerInv => TypeOK BY DEF BreakerInv
<1>2. QED BY <1>1, BreakerInvariant, PTL

\* A CLOSED breaker has room for at least one more failure and carries no
\* successes of an earlier trial.
THEOREM CountersFit == Spec => []CountersFitState
<1>1. BreakerInv => CountersFitState BY DEF BreakerInv
<1>2. QED BY <1>1, BreakerInvariant, PTL

\* Late results never let the breaker be tried again earlier than
\* ResetTimeout after it opened.
THEOREM CooldownHolds == Spec => []CooldownNotShortened
<1>1. BreakerInv => CooldownNotShortened BY DEF BreakerInv
<1>2. QED BY <1>1, BreakerInvariant, PTL

-----------------------------------------------------------------------------
\* The contract's variables, as the refinement mapping computes them.
InFlight == {c \in Calls : calls[c] # "idle"}
BadRun == IF state = "CLOSED" THEN failureCount ELSE 0
GoodRun == IF state = "HALF_OPEN" THEN successCount ELSE 0

\* The constructor starts the contract.
LEMMA InitContract == Init => Contract!Init
BY ThresholdsAssumption DEF Init, Contract!Init

\* An admission is a Pass or, from OPEN, the Probe that starts a trial: this
\* is where the two clocks are compared.
LEMMA BeginContract ==
  ASSUME BreakerInv, NEW c \in Calls, Begin(c)
  PROVE  Contract!Next
<1> USE ThresholdsAssumption
<1>1. c \in Calls \ InFlight
  BY DEF Begin, InFlight
<1>2. InFlight' = InFlight \union {c}
  BY DEF Begin, InFlight, BreakerInv, TypeOK
<1>3. CASE state # "OPEN"
  <2>1. Contract!Pass(c)
    BY <1>2, <1>3 DEF Begin, Contract!Pass, InFlight, BreakerInv
  <2>2. QED BY <2>1, <1>1 DEF Contract!Next, InFlight
<1>4. CASE state = "OPEN"
  <2>1. sinceTrip = ResetTimeout
    BY <1>4 DEF Begin, BreakerInv, TypeOK, CooldownNotShortened
  <2>2. Contract!Probe(c)
    BY <1>2, <1>4, <2>1 DEF Begin, MoveTo, Contract!Probe, InFlight, BreakerInv
  <2>3. QED BY <2>2, <1>1 DEF Contract!Next, InFlight
<1>5. QED BY <1>3, <1>4

\* onSuccess is a Good report.
LEMMA SucceedContract ==
  ASSUME BreakerInv, NEW c \in Calls, Succeed(c)
  PROVE  Contract!Next
<1> USE ThresholdsAssumption
<1>1. c \in InFlight
  BY DEF Succeed, InFlight
<1>2. InFlight' = InFlight \ {c}
  BY DEF Succeed, InFlight, BreakerInv, TypeOK
<1>3. Contract!Good(c)
  BY <1>2
     DEF Succeed, CloseCircuit, MoveTo, Contract!Good, InFlight, BreakerInv, TypeOK,
         CountersFitState, CircuitState
<1>4. QED BY <1>1, <1>3 DEF Contract!Next, InFlight

\* onFailure is a Bad report.
LEMMA FailContract ==
  ASSUME BreakerInv, NEW c \in Calls, Fail(c)
  PROVE  Contract!Next
<1> USE ThresholdsAssumption
<1>1. c \in InFlight
  BY DEF Fail, InFlight
<1>2. InFlight' = InFlight \ {c}
  BY DEF Fail, InFlight, BreakerInv, TypeOK
<1>3. Contract!Bad(c)
  BY <1>2
     DEF Fail, NoteFailure, Bump, MoveTo, Contract!Bad, Contract!CutOff, InFlight,
         BreakerInv, TypeOK, CountersFitState, CircuitState
<1>4. QED BY <1>1, <1>3 DEF Contract!Next, InFlight

\* A call that is given up is Gone.
LEMMA AbandonContract ==
  ASSUME BreakerInv, NEW c \in Calls, Abandon(c)
  PROVE  Contract!Next
<1>1. c \in InFlight
  BY DEF Abandon, InFlight
<1>2. InFlight' = InFlight \ {c}
  BY DEF Abandon, InFlight, BreakerInv, TypeOK
<1>3. Contract!Gone(c)
  BY <1>2 DEF Abandon, counters, Contract!Gone, InFlight
<1>4. QED BY <1>1, <1>3 DEF Contract!Next, InFlight

\* Every step of the breaker is a step of the contract or leaves it alone.
LEMMA NextContract ==
  ASSUME BreakerInv, [Next]_vars
  PROVE  [Contract!Next]_Contract!vars
<1>1. ASSUME NEW c \in Calls, Begin(c) PROVE Contract!Next
  BY <1>1, BeginContract
<1>2. ASSUME NEW c \in Calls, Succeed(c) PROVE Contract!Next
  BY <1>2, SucceedContract
<1>3. ASSUME NEW c \in Calls, Fail(c) PROVE Contract!Next
  BY <1>3, FailContract
<1>3a. ASSUME NEW c \in Calls, Abandon(c) PROVE Contract!Next
  BY <1>3a, AbandonContract
<1>4. CASE Reset
  BY <1>4 DEF Reset, Contract!Next, Contract!Restore, BreakerInv
<1>5. CASE Tick
  BY <1>5, ThresholdsAssumption
     DEF Tick, counters, Bump, Contract!Next, Contract!Pause, Contract!vars, BreakerInv, TypeOK
<1>6. CASE UNCHANGED vars
  BY <1>6 DEF vars, counters, Contract!vars
<1>7. QED BY <1>1, <1>2, <1>3, <1>4, <1>5, <1>6, <1>3a DEF Next, Report

\* The breaker implements its contract.
THEOREM BreakerRefinesContract == Spec => Contract!Spec
BY InitContract, NextContract, BreakerInvariant, PTL DEF Spec, Contract!Spec

\* The refinement under the name the model checker's runs give it.
THEOREM BreakerKeepsContract == Spec => KeepsContract
BY BreakerRefinesContract DEF KeepsContract
=============================================================================
