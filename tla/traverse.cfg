\* Every pair of directories with up to two entries each.
CONSTANTS
  NDirs = 2
  Trees <- SmallTrees
  Quotas = {0, 2, 9}
  Limits = {1, 2, 9}
  PathMax = 3
  MinStack = 20
SPECIFICATION Spec
INVARIANTS
  TypeOK
  FoundOnce
  Complete
PROPERTIES
  EventuallyReturns
\* The walk ends.
CHECK_DEADLOCK FALSE
