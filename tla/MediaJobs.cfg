\* Two callers, one slot.
SPECIFICATION FairSpec
CONSTANTS
  Callers = {1, 2}
  Plans <- MCPlans
  Slots = 1
  Posts = 2
  Budget = 4
  Floor = 2
  Reserve = 1
  MaxPolls = 3
  TextOnlyFor = 2
  Spare = 1
  SpareWithFiles = 2
  MaxTries = 2
  MaxRestarts = 1
  None = None
CHECK_DEADLOCK FALSE
INVARIANTS
  
  VerdictJustified
PROPERTIES
  ToldForward
  JobEnds
