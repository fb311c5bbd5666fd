\* Every file can be handled; files_limit stops the walk before the last one,
\* if it does not fail before.
CONSTANTS
  NReaders = 1
  NWorkers = 2
  NFiles = 4
  FilesLimit = 3
  Capacity = 2
  Outcome <- GoodOutcome4
SPECIFICATION Spec
INVARIANTS
  TypeOK
  ReportComplete
  ReportFaithful
  EveryFileInOnePlace
  CountersMatch
  NoLostWakeup
  ReceiversCloseFirst
  ExpiresOnlyAfterPanic
  ReporterNeverPanics
PROPERTIES
  NothingDropped
  ImplementsTaskRun
