SPECIFICATION PoolSpec
CONSTANTS
  Ids = {1, 2, 3}
  Requests = {r1, r2}
  Checkers = {c1}
  Exits = {}
  InitialTables <- MCThree
  InitiallyUsable = {}
  Answers = {"ok"}
  CheckAnswers = {"ok", "auth", "stale", "net"}
  MaxCookieTries = 2
  MaxAuthFailures = 2
  FallbackAnon = FALSE
  AnonFirst = TRUE
  Gap = 1
  MaxTime = 4
  MaxCalls = 4
  MaxChecks = 2
  MaxEdits = 0
  MaxSwitches = 0
  MaxErrors = 0
  MaxFlips = 0
  Nil = Nil
CHECK_DEADLOCK FALSE
INVARIANTS
  TurnsAlternate
