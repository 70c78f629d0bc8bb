SPECIFICATION Spec
CONSTANTS
  Writer = {w1}
  k1 = k1
  k2 = k2
  v1 = v1
  v2 = v2
  Key = {k1, k2}
  Value = {v1, v2}
  Empty = Empty
  Nil = Nil
  MaxMemSize = 1
  CompactionThreshold = 4
  MaxOps = 5
  MaxFiles = 6
  MaxCrashes = 0
  MaxFaults = 0
SYMMETRY Symmetry
INVARIANTS ReadsLatest
CHECK_DEADLOCK FALSE
