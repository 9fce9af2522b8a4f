SPECIFICATION FairPoolSpec
CONSTANTS
  Ids = {1, 2}
  Requests = {r1}
  Checkers = {}
  Exits = {1}
  InitialTables <- MCMixed
  InitiallyUsable = {1}
  Answers = {"ok", "auth", "stale", "net"}
  CheckAnswers = {"ok"}
  MaxCookieTries = 2
  MaxAuthFailures = 2
  FallbackAnon = FALSE
  AnonFirst = FALSE
  Gap = 0
  MaxTime = 2
  MaxCalls = 2
  MaxChecks = 0
  MaxEdits = 1
  MaxSwitches = 0
  MaxErrors = 1
  MaxFlips = 1
  Nil = Nil
CHECK_DEADLOCK FALSE
INVARIANTS
  GivenUpIsRefused
  
PROPERTIES
  BindingKept
  RequestEnds
