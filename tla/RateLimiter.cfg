SPECIFICATION FairSpec
CONSTANTS
  i1 = i1
  i2 = i2
  k1 = k1
  k2 = k2
  Instances = {i1, i2}
  Slots = {k1, k2}
  Limit = 2
  Window = 2
  MaxFaults = 1
INVARIANTS
  TypeOK
  
  
PROPERTIES
  KeepsContract
  
