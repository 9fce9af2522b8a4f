SPECIFICATION Spec
CONSTANTS
  Profiles <- MCProfiles
  Slots = {0}
  Ids = {1, 2}
  InitialTables <- MCInitialTables
  Refresher = refresher
  Admins = {a}
  Ingesters = {x}
  Cooldown = 2
  MaxGap = 2
  Defer = 3
  MaxTime = 3
  MaxCalls = 2
  MaxFaults = 1
  None = None
CHECK_DEADLOCK FALSE
INVARIANTS
  VisibleOnce
PROPERTIES
  AutoSpaced
