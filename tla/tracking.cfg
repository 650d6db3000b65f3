SPECIFICATION Spec
CONSTANTS
  h1 = h1
  h2 = h2
  h3 = h3
  m1 = m1
  m2 = m2
  l1 = l1
  l2 = l2
  Hits = {h1, h2, h3}
  Messages = {m1}
  Links = {l1, l2}
  Null = Null
  Second = 2
  BurstWindow = 0
  MinDelay = 1
  Env = {"db", "resend"}
  MaxTime = 1
  MaxCopies = 2
INVARIANTS
  TypeOK
  FirstTouchHasEvidence
  RecordedHitsAreSeen
  BurstsAreReal
  EarlyHitsAreNotPeople
SYMMETRY Symmetry
CHECK_DEADLOCK FALSE
