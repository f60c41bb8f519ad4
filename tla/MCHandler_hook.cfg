SPECIFICATION Spec
CONSTANTS
  s1 = s1
  s2 = s2
  x = x
  y = y
  Execs = {e1}
  Kinds = {"address"}
  Subs = {s1, s2}
  MinConfirmations <- WaitOneAndTwo
  MaxHeight = 2
  Branches = {x, y}
  Matches <- OneBlock
  MaxCopies = 1
  Fails = {}
  Redelivers = FALSE
PROPERTIES
  HookedBeforeStored
