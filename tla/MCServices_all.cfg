SPECIFICATION ServicesSpec
CONSTANTS
  n = n
  m = m
  s = s
  t = t
  p = p
  q = q
  c = c
  None = None
  NaN = NaN
  Conns = {n}
  Projects = {p, q}
  Connections = {n, m}
  Subs = {s, t}
  ProjectOf <- TwoProjects
  ClientOf <- OneClient
  Mixes <- SomeMixes
  MaxQueue = 1
  Scheduled = {s, t}
  Txs = {x}
  Crons = {d}
  OwnerOf <- OneIsAClient
  ProjectClients = {c}
  MaxFails = 1
  Ids = {s, t}
  SessionClients = {c, d}
  SessionProjects = {p}
  Known = {c, p}
  MaxTime = 2
  MaxRows = 4
  MaxPosts = 5
  MaxCalls = 2
  Contracts = {c}
  PublicRequests = {s, t}
  Calls = {k, l}
INVARIANTS
  TypesOK
  ViewFollowsRequests
  ActiveOnlyIsHandled
  ReportsAreTrue
  SentWasReceived
  SendReportsAreTrue
  SubmissionsAreNeverSent
  CountsAgreeWithAnswers
  ActiveSessionsAgree
  ResultsAreInOrder
  CallsAreNeverReported
  MarksFollowRequests
PROPERTIES
  SubscribedIsHandled
  MessagesAreHandled
  EveryRequestIsAnswered
CHECK_DEADLOCK FALSE
