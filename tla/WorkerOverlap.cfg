SPECIFICATION SpecH
CONSTANTS
  a1 = a1
  s1 = s1
  Article = {a1}
  Destination = {d1}
  Source = {s1}
  SourceOf <- OneSource
  PriorityOf <- EqualPriority
  Hour = 2
  Lease = 1
  BaseBackoff = 1
  MaxAttempts = 2
  MaxGlobal = 2
  MaxSource = 2
  MaxTime = 2
  Process = {p1, w1, w2}
  NewsTime = {1, 2}
  MaxItems = 1
  MaxAge = 3
  Tolerance = 0
  Publisher = {d1}
  Outcome = {"ok", "rejected", "lost_reply"}
  Crashes = TRUE
  Prompt = FALSE
  NoJob = NoJob
  Worker = {w1, w2}
  Ingester = {p1}
SYMMETRY AlikeWorkers
CONSTRAINT SomeRowKept
INVARIANTS KeyHasPost ClaimsExclude RepostsExplained AcknowledgesPosted
CHECK_DEADLOCK FALSE
