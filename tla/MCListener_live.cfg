SPECIFICATION FairSpec
CONSTANTS
  Workers = {w1}
  Handlers = {h1}
  Retired = {}
  MaxHeight = 2
  NoHeight = NoHeight
  CanCrash = TRUE
  CanLag = FALSE
  AnswersNull = FALSE
PROPERTIES
  EveryBlockDelivered
