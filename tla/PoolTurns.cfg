SPECIFICATION PoolSpec
CONSTANTS
  a1 = a1
  a2 = a2
  a3 = a3
  s1 = s1
  s2 = s2
  p1 = p1
  p2 = p2
  Article = {a1, a2, a3}
  Destination = {d1}
  Source = {s1, s2}
  SourceOf <- TwoSources
  PriorityOf <- FirstUrgent
  Hour = 2
  Lease = 1
  BaseBackoff = 1
  MaxAttempts = 2
  MaxGlobal = 2
  MaxSource = 1
  MaxTime = 4
  Process = {p1, p2}
  Publisher = {d1}
  Outcome = {"ok", "rejected"}
  Crashes = FALSE
  Prompt = TRUE
  NoJob = NoJob
  Backlog = {1, 2}
INVARIANTS LeasesExclude NoReposts HourlyRate SlotsWithinLimits
PROPERTY ImplementsFinalContract
CHECK_DEADLOCK FALSE
SYMMETRY Processes
