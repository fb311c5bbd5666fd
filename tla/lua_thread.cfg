\* Stop and join in any order, several times on one thread.
CONSTANTS
  NThreads = 3
  MaxCalls = 4
SPECIFICATION Spec
INVARIANTS
  TypeOK
  ClosedAfterItsThread
  JoinsOnlyJoinable
  LeftEnded
\* The script ends.
CHECK_DEADLOCK FALSE
