SPECIFICATION Spec
CONSTANTS
  a = a
  b = b
  foo = foo
  bar = bar
  Paths = {a, b}
  Literals = {foo, bar}
  MaxReads = 2
  MaxSearches = 1
  ProbeCap = 1
  MaxCalls = 3
  Heads <- FewOddFiles
SYMMETRY Interchangeable
INVARIANTS
  ReadsInv
  EvidenceIsTrueAtHead
  DerivedRestsOnAnEarlierHit
  RepeatsAreExcused
CHECK_DEADLOCK FALSE
