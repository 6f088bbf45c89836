CONSTANTS
  Catalog <- MCCatalog
  Restorable <- MCRestorable
  ChangedPaths = {"p"}
  NoPath = "none"
  HeadlineCap = 1
  InlineCap = 1
  Answers <- MCAnswers
  Corrections <- MCCorrections
SPECIFICATION FairSpec
INVARIANTS
  GenerationTypeOK
  PostureIsTheModels
  NoDecidingLoss
  NothingStaleIsPublished
  PostureMatchesItems
  ValidatorsAgree
CHECK_DEADLOCK FALSE
PROPERTIES
  RecompilationIsStable
  ContractionEndsUnlessSelfQuoting
