SPECIFICATION Spec
CONSTANTS
  Process = {p1, p2}
  Column = {c1}
  Row = {r1}
  Object = {o1}
  NoProcess = NoProcess
  Runner = {p1}
  Job = {j1, j2}
  Attempts = 2
  Interval = 1
  StoreFails = TRUE
  NoJob = NoJob
INVARIANT RecordedTruthfully
PROPERTIES MigrationAtomic RecoveryComplete RecordsStable QueuedJobsEnd
