SPECIFICATION FairSpec
CONSTANTS
  c1 = c1
  None = None
  Containers = {c1}
  Modes = {"off", "dev", "token", "approle"}
  MaxRotations = 1
  MaxRestarts = 2
  MaxFaults = 2
INVARIANTS
  TypeOK
  FleetVerifies
  SignsWhatItVerifies
  ExplicitWins
PROPERTIES
  KeepsVault
  GetsUp
CHECK_DEADLOCK FALSE
