SPECIFICATION Spec
CONSTANTS
  Workers = {w1}
  Handlers = {h1, h2}
  Retired = {old}
  MaxHeight = 2
  NoHeight = NoHeight
  CanCrash = TRUE
  CanLag = FALSE
  AnswersNull = FALSE
INVARIANTS
  NoBlockLost
  RunAccountsForBlocks
  AtMostOnce
PROPERTIES
  CoverageGrows
