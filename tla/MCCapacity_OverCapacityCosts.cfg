SPECIFICATION Spec
CONSTANTS
  a1 = a1
  a2 = a2
  s1 = s1
  b1 = b1
  RepoA = RepoA
  RepoB = RepoB
  RepoLimit = 1
  GlobalLimit = 2
  Runs <- MCRuns
  Repos = {RepoA, RepoB}
  RepoOf <- MCRepoOf
  Successors = {s1}
  Policies <- MCOnePolicy
  LastDay = 2
  Owners = {o1, o2, o3}
  None = None
SYMMETRY CapacitySymmetry
INVARIANTS
  OverCapacityCostsNothing
CHECK_DEADLOCK FALSE
