SPECIFICATION Spec
CONSTANTS
  Owners = {o1, o2, o3}
  Heads = {h1, h2}
  FirstHead = h1
  MaxAttempts = 2
  MaxMoves = 2
  None = None
SYMMETRY DeliverySymmetry
INVARIANTS
  LifecycleInv
  NormalReturnMovesOn
  ContextIsOfThisRun
  AttemptsAreSerial
  PhaseHasItsRecord
PROPERTIES
  PredecessorWasSettled
CHECK_DEADLOCK FALSE
