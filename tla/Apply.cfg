SPECIFICATION FairSpec
CONSTANTS
  k1 = k1
  k2 = k2
  v1 = v1
  v2 = v2
  Key = {k1, k2}
  Value = {v1}
  Nil = Nil
  Capacity = 2
  MaxLog = 4
  MaxRestarts = 1
  MaxErrors = 1
INVARIANTS TypeOK CleanProcessFollowsLog
PROPERTIES EventuallyApplied
CHECK_DEADLOCK FALSE
