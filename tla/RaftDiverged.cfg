SPECIFICATION LateSpec
CONSTANTS
  n1 = n1
  n2 = n2
  n3 = n3
  x1 = x1
  Nil = Nil
  Node = {n1, n2, n3}
  Value = {x1}
  MaxElections = 4
  MaxIndex = 2
  MaxAppendReqs = 3
  MaxCrashes = 1
INVARIANTS TypeOK IndexIsPosition MatchIndexSound LogMatching StateMachineSafety LeaderCompleteness ElectionInv
PROPERTIES CommittedNeverTruncated AppliedNeverTruncated ImplementsCommittedLog
CHECK_DEADLOCK FALSE
