SPECIFICATION Spec
CONSTANTS
  gw1 = gw1
  gw2 = gw2
  tribe1 = tribe1
  tribe2 = tribe2
  v1 = v1
  v2 = v2
  vx = vx
  NoSemver = NoSemver
  Absent = Absent
  Instances = {gw1}
  Services = {tribe1, tribe2}
  Manifests = {v1, v2, vx}
  Major <- WithUnversioned
  Crons = {"health"}
  FaultKinds = {"drop", "timeout"}
  MinGap = 1
  MaxClock = 3
  MaxQueue = 2
  MaxFaults = 2
INVARIANTS
  WriteThrough
PROPERTIES
  
  KeepsLifecycle
CHECK_DEADLOCK FALSE
