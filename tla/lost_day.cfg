SPECIFICATION Spec
CONSTANTS
  c1 = c1
  c2 = c2
  Null = Null
  Claimers = {c1, c2}
  Limits = {1}
  Gaps = {0}
  LocalDate <- SpringDate
  StartOfNextDay <- SpringNextDay
  Hour = 1
  Env = {}
  MaxTime = 13
  MaxEdits = 0
PROPERTIES DeferralsReachANewDay
CHECK_DEADLOCK FALSE
