\* Two processes in one directory, with one failing call or a ^C in either.
CONSTANTS
  NReaders = 2
  NWorkers = 2
  Backlog = 0
  MaxFaults = 1
  MaxRuns = 2
SPECIFICATION Spec
INVARIANTS
  TypeOK
  ServersReachable
  RightPeers
  ReportersStartLast
PROPERTIES
  EventuallyEnds
\* The last process is allowed to end.
CHECK_DEADLOCK FALSE
