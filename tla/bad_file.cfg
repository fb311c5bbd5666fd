\* The task fails on the first file; each worker is sent two.
CONSTANTS
  NReaders = 1
  NWorkers = 2
  NFiles = 4
  FilesLimit = 9
  Capacity = 1
  Outcome <- BadOutcome4
SPECIFICATION Spec
INVARIANTS
  ReportFaithful
  NoFileTwice
  ReceiversCloseFirst
PROPERTIES
  EventuallyExits
  ImplementsTaskRun
