SPECIFICATION Spec
CONSTANTS
  c1 = c1
  c2 = c2
  Null = Null
  Claimers = {c1, c2}
  Limits = {1, 2}
  Gaps = {0, 2}
  LocalDate <- AutumnDate
  StartOfNextDay <- AutumnNextDay
  Hour = 2
  Env = {"lateRelease"}
  MaxTime = 5
  MaxEdits = 1
INVARIANTS
  CounterIsUsage
PROPERTIES
  OvershootIsStrayed
  PacingHolds
  RefusalsWait
SYMMETRY Symmetry
CHECK_DEADLOCK FALSE
