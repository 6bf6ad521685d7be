SPECIFICATION Spec
CONSTANTS
  Thread = {t1, t2}
  Loop = t1
  NoThread = NoThread
  ReportInterval = 2
  StaleAfter = 1
  FailureCap = 1
  MaxTime = 3
INVARIANTS SingleFlight ReportsPaced FewLateTicks HangDetected
PROPERTY TicksGoOn
