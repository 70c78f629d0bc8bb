SPECIFICATION Spec
CONSTANTS
  Writer = {w1}
  k1 = k1
  k2 = k2
  v1 = v1
  v2 = v2
  Key = {k1, k2}
  Value = {v1}
  Empty = Empty
  Nil = Nil
  MaxMemSize = 1
  CompactionThreshold = 3
  MaxOps = 5
  MaxFiles = 7
  MaxCrashes = 1
  MaxFaults = 0
SYMMETRY Symmetry
INVARIANTS NoKeyVanishes
CHECK_DEADLOCK FALSE
