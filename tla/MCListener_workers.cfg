SPECIFICATION Spec
CONSTANTS
  Workers = {w1, w2}
  Handlers = {h1}
  Retired = {old}
  MaxHeight = 1
  NoHeight = NoHeight
  CanCrash = TRUE
  CanLag = TRUE
  AnswersNull = FALSE
SYMMETRY Symmetry
VIEW WithoutHistory
INVARIANTS
  TypeOK
  NoBlockLost
PROPERTIES
  ImplementsLedger
