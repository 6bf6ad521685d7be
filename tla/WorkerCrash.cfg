SPECIFICATION QueuedSpec
CONSTANTS
  a1 = a1
  a2 = a2
  a3 = a3
  a4 = a4
  s1 = s1
  s2 = s2
  s3 = s3
  Article = {a1, a2, a3, a4}
  Destination = {d1}
  Source = {s1, s2, s3}
  SourceOf <- ThreeSources
  PriorityOf <- EqualPriority
  Hour = 2
  Lease = 1
  BaseBackoff = 1
  MaxAttempts = 2
  MaxGlobal = 2
  MaxSource = 1
  MaxTime = 2
  Process = {p1, w1, w2}
  NewsTime = {1}
  MaxItems = 1
  MaxAge = 3
  Tolerance = 0
  Publisher = {d1}
  Outcome = {"ok", "rejected"}
  Crashes = TRUE
  Prompt = TRUE
  NoJob = NoJob
  Worker = {w1}
  Ingester = {}
SYMMETRY AlikeArticles
INVARIANT SlotsWithinLimits
CHECK_DEADLOCK FALSE
