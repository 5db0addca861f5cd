SPECIFICATION FairSpec
CONSTANTS
  c1 = c1
  c2 = c2
  c3 = c3
  t1 = t1
  t2 = t2
  tribe1 = tribe1
  None = None
  Callers = {c1, c2, c3}
  Jtis = {t1, t2}
  Subjects = {tribe1}
  TokenTtl = 2
  SessionTtl = 3
  MaxFaults = 1
INVARIANTS
  TypeOK
  IndexNamesTokens
  RevokedOnce
  LogoutReaches
PROPERTIES
  ExpiryIsSet
