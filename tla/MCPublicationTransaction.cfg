SPECIFICATION FairSpec
CONSTANTS
  Owners = {o1, o2}
  Heads = {h1, h2}
  ItemHead = h1
  ExpectedStatus = "CONTEXT_READY"
  MaxAttempts = 2
  MaxMoves = 2
  None = None
  Legacy = Legacy
  Foreign = Foreign
INVARIANTS
  IInv
  AtMostOneReview
  ProcessedNamesTheReview
  NoPostIsHonest
  ReviewIsAccountedFor
  OnlyPublishableIsPosted
PROPERTIES
  ImplementsAtMostOnceWrite
  Settles
CHECK_DEADLOCK FALSE
