\* No call fails; one ^C may come at any time.
CONSTANTS
  NReaders = 1
  NWorkers = 1
  Backlog = 0
  MaxFaults = 0
  MaxRuns = 1
SPECIFICATION Spec
PROPERTIES
  FileIsCreatedLater
\* The last process is allowed to end.
CHECK_DEADLOCK FALSE
