SPECIFICATION FairSpec
CONSTANTS
  s0 = s0
  s1 = s1
  c1 = c1
  c2 = c2
  Calls = {c1, c2}
  Slots = {s0, s1}
  Plans <- MCPlans
  Frames <- MCFrames
  Codes = {401}
  RetryAttempts = 3
  MaxExpiries = 1
  MaxCookies = 1
  None = None
INVARIANTS
  TokenOfSlot
  OneAnswer
  StreamExact
  PostsAccounted
PROPERTIES
  CallEnds
