\* More than one reader, no file that fails.
CONSTANTS
  NReaders = 2
  NWorkers = 1
  NFiles = 1
  FilesLimit = 9
  Capacity = 2
  Outcome <- GoodOutcome1
SPECIFICATION Spec
INVARIANTS
  GoodFilesReported
