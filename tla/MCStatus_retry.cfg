SPECIFICATION Spec
CONSTANTS
  c1 = c1
  p1 = p1
  p2 = p2
  s1 = s1
  s2 = s2
  u1 = u1
  u2 = u2
  n1 = n1
  n2 = n2
  NoCaller = NoCaller
  None = None
  Clients = {c1}
  ClientOf <- OneClient
  KindOf <- TwoKinds
  ProjectOf <- OfOneProject
  Projects = {p1}
  Subs = {s2}
  Setups = {u1}
  Conns = {n1}
  InitialSetups <- OneSetup
  Callers = {k1}
  CanFail = TRUE
  MaxLate = 1
INVARIANTS
  TypeOK
  AnsweredTakesEffect
