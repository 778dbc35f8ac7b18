SPECIFICATION Spec
CONSTANTS
  w1 = w1
  w2 = w2
  s1 = s1
  s2 = s2
  MaxIntents = 2
  Webhooks = {w1}
  Sweeps = {s1}
  MaxDue = 2
INVARIANTS
  TypeOK
  SucceededIsCredited
  PaidIsLedgerTotal
PROPERTIES
  ImplementsLedger
CHECK_DEADLOCK FALSE
