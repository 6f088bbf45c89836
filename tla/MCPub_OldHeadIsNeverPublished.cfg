SPECIFICATION Spec
CONSTANTS
  Owners = {o1, o2}
  Heads = {h1, h2}
  ItemHead = h1
  ExpectedStatus = "CONTEXT_READY"
  MaxAttempts = 2
  MaxMoves = 2
  None = None
  Legacy = Legacy
  Foreign = Foreign
PROPERTIES
  OldHeadIsNeverPublished
CHECK_DEADLOCK FALSE
