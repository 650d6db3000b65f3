SPECIFICATION Spec
CONSTANTS
  c1 = c1
  c2 = c2
  Null = Null
  Claimers = {c1, c2}
  Limits = {1}
  Gaps = {0}
  LocalDate <- AutumnDate
  StartOfNextDay <- AutumnNextDay
  Hour = 2
  Env = {"editRace"}
  MaxTime = 2
  MaxEdits = 1
PROPERTIES DailyLimitHolds
CHECK_DEADLOCK FALSE
