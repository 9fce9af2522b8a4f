SPECIFICATION Spec
CONSTANTS
  Values = {"A", "B", "C"}
  Bad = {"C"}
  Renewed = "A+"
  Unreadable = "?"
  Olds <- MCOlds
  Flags <- MCFlags
  Savers = {s1, s2}
  Retries = {1, 3}
  Default = 3
  Budgets <- MCBudgets
  None = None
CHECK_DEADLOCK FALSE
INVARIANTS
  OneRecord
  
PROPERTIES
  OthersKept
