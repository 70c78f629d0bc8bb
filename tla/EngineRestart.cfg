SPECIFICATION Spec
CONSTANTS
  Writer = {w1}
  k1 = k1
  k2 = k2
  v1 = v1
  v2 = v2
  Key = {k1, k2}
  Value = {v1}
  Empty = Empty
  Nil = Nil
  MaxMemSize = 2
  CompactionThreshold = 2
  MaxOps = 4
  MaxFiles = 5
  MaxCrashes = 1
  MaxFaults = 1
SYMMETRY Symmetry
INVARIANTS TypeOK ListedReadable UncompactedReadsLatest
PROPERTIES RecoveredReadsLatest
CHECK_DEADLOCK FALSE
