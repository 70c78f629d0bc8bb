SPECIFICATION Spec
CONSTANTS
  k1 = k1
  k2 = k2
  v1 = v1
  v2 = v2
  Key = {k1, k2}
  Value = {v1}
  Nil = Nil
  Capacity = 1
  MaxLog = 3
  MaxRestarts = 0
  MaxErrors = 0
INVARIANT EngineFollowsLog
CHECK_DEADLOCK FALSE
