SPECIFICATION Spec
CONSTANTS
  r1 = r1
  s1 = s1
  w1 = w1
  Questions = {r1, s1, w1}
  Reads = {r1}
  Bare = {}
  Searches = {s1}
  Floor = {s1}
  Sweeps = {w1}
  AskedBy <- Asked
  Rounds = 2
  PlanCap = 1
  FollowupCap = 2
  MaxReads = 1
  MaxSearches = 2
  MaxPlan = 3
  MaxItems = 2
INVARIANTS
  LoopInv
  AnswersRestOnHits
  ScopeIsHonest
  NoRequestIsForgotten
  ShownAnswersStand
CHECK_DEADLOCK FALSE
