\* One directory with twenty empty ones in it; seven of them are enough if they
\* cannot be opened.
CONSTANTS
  NDirs = 2
  Trees <- WideTree
  Quotas = {99}
  Limits = {9}
  PathMax = 3
  MinStack = 20
SPECIFICATION Spec
INVARIANTS
  StackHasRoom
\* The walk ends.
CHECK_DEADLOCK FALSE
