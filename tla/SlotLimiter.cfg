SPECIFICATION Spec
CONSTANTS
  Requests = {r1, r2}
  Slots = {s1}
  Limits <- MCLimits
  Minute = 1
  Hour = 2
  MaxTime = 3
  MaxGrants = 3
  NoOne = NoOne
INVARIANTS
  TypeOK
  InflightIsHolders
  ConcurrencyRespected
PROPERTIES
  ImplementsQuota
