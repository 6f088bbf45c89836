CONSTANTS
  Catalog <- MCCatalog
  Restorable <- MCRestorable
  ChangedPaths = {"p"}
  NoPath = "none"
  HeadlineCap = 1
  InlineCap = 1
  Answers <- MCAnswers
  Corrections <- MCCorrections
SPECIFICATION Spec
INVARIANT ChangedDecidingEvidenceFailsClosed
CHECK_DEADLOCK FALSE
