SPECIFICATION Spec
CONSTANTS
  Component = {c1, c2}
  NoComponent = NoComponent
  StaleAfter = 1
  Cooldown = 2
  MaxRecovery = 2
  MaxTime = 6
INVARIANTS RecoveriesRationed RecoveriesBounded
PROPERTIES SilenceNoticed
