SPECIFICATION GatewaySpec
CONSTANTS
  gw1 = gw1
  gw2 = gw2
  tribe1 = tribe1
  v1 = v1
  v2 = v2
  vs = vs
  url1 = url1
  url2 = url2
  url3 = url3
  NoSemver = NoSemver
  Absent = Absent
  Instances = {gw1,gw2}
  Services = {tribe1}
  Manifests = {v1, v2, vs}
  Major <- SameMajor
  Upstreams = {url1, url2, url3}
  BaseUrl <- Urls
  ServiceType <- Types
  Consumes <- Everything
  Crons = {"drift"}
  FaultKinds = {}
  MinGap = 1
  MaxClock = 2
  MaxQueue = 2
  MaxFaults = 0
INVARIANTS
  NoStaleRoute
CHECK_DEADLOCK FALSE
