SPECIFICATION FairSpec
CONSTANTS
  a = a
  p = p
  Connections = {a, p}
  Public = {a}
  TypeOf <- OneType
  Wanted <- NobodyOrPrivate
  Initial <- StartsWithPublic
  Calls = {k1, k2}
  None = None
  Rejected = Rejected
  Answers = {"low", "high", "null", "throws"}
  MaxTime = 2
INVARIANTS
  TypeOK
  EnabledConnectionIsLoaded
  PrivateServesItsOwner
PROPERTIES
  RecoversWhenNodesAnswer
