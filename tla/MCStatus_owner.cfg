SPECIFICATION Spec
CONSTANTS
  c1 = c1
  p1 = p1
  p2 = p2
  s1 = s1
  s2 = s2
  u1 = u1
  u2 = u2
  n1 = n1
  n2 = n2
  NoCaller = NoCaller
  None = None
  Clients = {c1}
  ClientOf <- OneClient
  KindOf <- WithFabric
  ProjectOf <- OfOneProject
  Projects = {p1, p2}
  Subs = {s2}
  Setups = {u1, u2}
  Conns = {n1}
  InitialSetups <- NoSetups
  Callers = {k1}
  CanFail = FALSE
  MaxLate = 0
INVARIANTS
  AnsweredTakesEffect
PROPERTIES
  ConnectionsFollowTheirOwner
