SPECIFICATION ContestedSpec
CONSTANTS
  n1 = n1
  n2 = n2
  n3 = n3
  c0 = c0
  c1 = c1
  c2 = c2
  x1 = x1
  x2 = x2
  Deleted = Deleted
  Nil = Nil
  Node = {n1, n2, n3}
  Client = {c0, c1, c2}
  Value = {x1, x2, Deleted}
  MaxElections = 2
  MaxIndex = 2
  MaxAppendReqs = 3
  MaxCrashes = 1
SYMMETRY Symmetry
INVARIANTS ReadsAreCommitted SeenPutIsCommitted
CHECK_DEADLOCK FALSE
