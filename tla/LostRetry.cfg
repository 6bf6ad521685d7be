SPECIFICATION Spec
CONSTANTS
  a1 = a1
  a2 = a2
  s1 = s1
  Article = {a1}
  Destination = {d1}
  Source = {s1}
  SourceOf <- OneSource
  PriorityOf <- EqualPriority
  Hour = 2
  Lease = 1
  BaseBackoff = 1
  MaxAttempts = 2
  MaxGlobal = 1
  MaxSource = 1
  MaxTime = 4
  Process = {p1}
  NewsTime = {1, 2}
  MaxItems = 1
  MaxAge = 3
  Tolerance = 0
  Publisher = {d1}
  Outcome = {"ok", "rejected"}
  Crashes = FALSE
  Prompt = TRUE
  NoJob = NoJob
PROPERTY RetriedIsPosted
CHECK_DEADLOCK FALSE
