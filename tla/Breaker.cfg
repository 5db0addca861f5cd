SPECIFICATION FairSpec
CONSTANTS
  c1 = c1
  c2 = c2
  c3 = c3
  Calls = {c1, c2, c3}
  FailureThreshold = 5
  SuccessThreshold = 2
  ResetTimeout = 3
INVARIANTS
  TypeOK
  CountersFitState
  CooldownNotShortened
PROPERTIES
  KeepsContract
  TriedAgain
  Recovers
