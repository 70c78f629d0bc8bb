SPECIFICATION Spec
CONSTANTS
  Key = {1, 2, 3, 4, 5, 6}
  Value = {100}
  Nil = Nil
  MaxLevel = 3
  Interval = 2
  MaxWrites = 6
INVARIANTS SkipListIsMap SizeCoversContent TableIsMap
CHECK_DEADLOCK FALSE
