\* Two readers, each sending both files to the only worker.
CONSTANTS
  NReaders = 2
  NWorkers = 1
  NFiles = 2
  FilesLimit = 9
  Capacity = 2
  Outcome <- GoodOutcome2
SPECIFICATION Spec
INVARIANTS
  ReportComplete
  NoFileTwice
  NoLostWakeup
PROPERTIES
  EventuallyExits
