SPECIFICATION SnapSpec
CONSTANTS
  Node = {n1, n2, n3}
  Value = {x1}
  Nil = Nil
  MaxElections = 1
  MaxIndex = 2
  MaxAppendReqs = 3
  MaxCrashes = 1
INVARIANT RequestsCarryTheRest
CHECK_DEADLOCK FALSE
