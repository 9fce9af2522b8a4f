SPECIFICATION FairSpec
CONSTANTS
  Ids = {1, 2}
  Requests = {r1}
  Admins = {a1}
  Ticker = Ticker
  Boot = Boot
  InitialTables <- MCTables
  Threshold = 2
  Cooldown = 1
  Capacity = 1
  FallbackDirect = FALSE
  Attempts = 1
  MaxTime = 1
  MaxCalls = 2
  MaxEdits = 1
  MaxErrors = 1
  None = None
CHECK_DEADLOCK FALSE
INVARIANTS
  TypeOK
  CacheIsSnapshot
  DirectNeedsEmptyTable
  ExitsAccounted
PROPERTIES
  
  Converges
