SPECIFICATION Spec
CONSTANTS
  e1 = e1
  e2 = e2
  r1 = r1
  w1 = w1
  w2 = w2
  p1 = p1
  p2 = p2
  NoJob = NoJob
  Emails = {e1}
  Recipients = {r1}
  Workers = {w1, w2}
  Pollers = {p1}
  To <- MCTo
  Refusals <- MCRefusals
  MAX_ATTEMPTS = 2
  ClaimBatchSize = 1
  Env = {"gate", "reply", "enqueue", "enqueueAck", "db", "crash", "outlive", "shutdown"}
  Ops = {"cancel", "reschedule", "retry", "cancelMany", "retryMany", "unsubscribe", "suppress", "unsuppress"}
  MaxClaims = 2
  MaxEvents = 1
  MaxOps = 2
INVARIANTS
  TypeOK
  UsedSendsArePaidFor
  ClaimStamped
  SuppressionHolds
SYMMETRY Symmetry
