SPECIFICATION Spec
CONSTANTS
  Clients = {"c1", "c2"}
  Handlers = {h1, h2}
  Texts <- MCDistinct
  Replies = {"a"}
  Branching = FALSE
  TTL = 0
  ConvMax = 2
  Attempts = 2
  MaxTime = 1
  MaxCalls = 4
  MaxTurns = 3
  None = None
CHECK_DEADLOCK FALSE
INVARIANTS
  
  StoreBounded
PROPERTIES
  DeadStaysDead
