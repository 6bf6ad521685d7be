SPECIFICATION PoolFairSpec
CONSTANTS
  a1 = a1
  a2 = a2
  a3 = a3
  s1 = s1
  s2 = s2
  p1 = p1
  p2 = p2
  Article = {a1}
  Destination = {d1}
  Source = {s1}
  SourceOf <- OneSource
  PriorityOf <- EqualPriority
  Hour = 2
  Lease = 1
  BaseBackoff = 1
  MaxAttempts = 2
  MaxGlobal = 1
  MaxSource = 1
  MaxTime = 3
  Process = {p1, p2}
  Publisher = {d1}
  Outcome = {"ok", "rejected"}
  Crashes = TRUE
  Prompt = FALSE
  NoJob = NoJob
  Backlog = {1}
PROPERTY ClaimsEnd
CHECK_DEADLOCK FALSE
