SPECIFICATION Spec
CONSTANTS
  n1 = n1
  n2 = n2
  n3 = n3
  x1 = x1
  Nil = Nil
  Node = {n1, n2, n3}
  Value = {x1}
  MaxElections = 2
  MaxIndex = 1
  MaxAppendReqs = 0
  MaxCrashes = 0
SYMMETRY Symmetry
INVARIANT ElectionTimerArmed
CHECK_DEADLOCK FALSE
