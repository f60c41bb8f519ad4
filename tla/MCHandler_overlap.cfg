SPECIFICATION Spec
CONSTANTS
  s1 = s1
  s2 = s2
  x = x
  y = y
  Execs = {e1, e2}
  Kinds = {"address"}
  Subs = {s1}
  MinConfirmations <- WaitTwo
  MaxHeight = 2
  Branches = {x, y}
  Matches <- TwoForOne
  MaxCopies = 1
  Fails = {"task", "exec"}
  Redelivers = TRUE
SYMMETRY Symmetry
VIEW WithoutHistory
INVARIANTS
  TypeOK
  MatchNotForgotten
PROPERTIES
  AnnouncedWhenDue
