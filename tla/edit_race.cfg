SPECIFICATION Spec
CONSTANTS
  e1 = e1
  e2 = e2
  r1 = r1
  w1 = w1
  w2 = w2
  p1 = p1
  p2 = p2
  NoJob = NoJob
  Emails = {e1}
  Recipients = {r1}
  Workers = {w1}
  Pollers = {p1}
  To <- MCTo
  Refusals <- MCTransient
  MAX_ATTEMPTS = 2
  ClaimBatchSize = 1
  Env = {}
  Ops = {"cancel", "reschedule"}
  MaxClaims = 2
  MaxEvents = 0
  MaxOps = 1
PROPERTIES EditsLeaveClaimsAlone
