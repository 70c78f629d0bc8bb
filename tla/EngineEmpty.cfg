SPECIFICATION Spec
CONSTANTS
  Writer = {w1}
  k1 = k1
  k2 = k2
  v1 = v1
  v2 = v2
  Key = {k1, k2}
  Value = {v1, Empty}
  Empty = Empty
  Nil = Nil
  MaxMemSize = 2
  CompactionThreshold = 4
  MaxOps = 3
  MaxFiles = 2
  MaxCrashes = 1
  MaxFaults = 0
PROPERTIES AckedSurvives
CHECK_DEADLOCK FALSE
