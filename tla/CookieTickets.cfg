SPECIFICATION Spec
CONSTANTS
  Ids = {1, 2}
  Managed = {2}
  Keeper = Keeper
  Admins = {a1}
  Requests = {r1}
  Checkers = {c1}
  Guards = {g1}
  Own = Own
  Foreign = Foreign
  MinInterval = 2
  GuardCooldown = 2
  MaxTime = 3
  MaxTickets = 2
  MaxStarts = 2
  MaxDeletes = 1
  None = None
CHECK_DEADLOCK FALSE

  
  
PROPERTIES
  LeftToBrowser
  SpacedPerCaller
