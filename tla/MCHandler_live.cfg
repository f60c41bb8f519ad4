SPECIFICATION FairSpec
CONSTANTS
  s1 = s1
  s2 = s2
  x = x
  y = y
  Execs = {e1}
  Kinds = {"address", "contract", "oraclize", "fabric"}
  Subs = {s1, s2}
  MinConfirmations <- WaitOneAndTwo
  MaxHeight = 3
  Branches = {x, y}
  Matches <- OneBlock
  MaxCopies = 2
  Fails = {"task", "exec"}
  Redelivers = FALSE
INVARIANTS
  MatchNotForgotten
  StoredAtMostOnce
PROPERTIES
  RecheckSettles
