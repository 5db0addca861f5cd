SPECIFICATION Spec
CONSTANTS
  gw1 = gw1
  gw2 = gw2
  tribe1 = tribe1
  tribe2 = tribe2
  v1 = v1
  v2 = v2
  vx = vx
  NoSemver = NoSemver
  Absent = Absent
  Instances = {gw1, gw2}
  Services = {tribe1}
  Manifests = {v1, v2}
  Major <- TwoMajors
  Crons = {"health", "drift"}
  FaultKinds = {"drop", "timeout", "crash", "outage"}
  MinGap = 1
  MaxClock = 2
  MaxQueue = 2
  MaxFaults = 1
SYMMETRY AnyInstance
INVARIANTS
  TypeOK
  StampIdentifiesEntry
  AckedInRedis
  ReloadIsAnswered
PROPERTIES
  GaugeLostOnlyByLoad
  PartsOnlyByReloadOrFault
CHECK_DEADLOCK FALSE
