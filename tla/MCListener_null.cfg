SPECIFICATION Spec
CONSTANTS
  Workers = {w1}
  Handlers = {h1}
  Retired = {}
  MaxHeight = 2
  NoHeight = NoHeight
  CanCrash = FALSE
  CanLag = FALSE
  AnswersNull = TRUE
INVARIANTS
  NoBlockLost
