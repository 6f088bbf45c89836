SPECIFICATION Spec
CONSTANTS
  Items = {i1, i2}
  Owners = {o1, o2}
  MaxOps = 2
  MaxTries = 2
  Reserves = {1}
  Allocations = {2}
  None = None
SYMMETRY DispatchSymmetry
INVARIANTS
  DispatchInv
  CounterMatchesLedger
PROPERTIES
  UnknownStopsPurchases
  SettlementIsFinal
  ImplementsSpendingCap
CHECK_DEADLOCK FALSE
