SPECIFICATION SelectionSpec
CONSTANTS
  a1 = a1
  a2 = a2
  a3 = a3
  a4 = a4
  a5 = a5
  s1 = s1
  s2 = s2
  Process = {p1}
  Article = {a1, a2, a3, a4, a5}
  Destination = {d1}
  Source = {s1, s2}
  SourceOf <- TwoSources
  PriorityOf <- FirstUrgent
  Hour = 2
  Lease = 1
  BaseBackoff = 1
  MaxAttempts = 2
  MaxGlobal = 3
  MaxSource = 2
  MaxTime = 1
  Ages = {1, 2, 3, 4, 5}
INVARIANTS SelectsFairly SelectionDetermined
PROPERTY SelectionEnds
CHECK_DEADLOCK FALSE
