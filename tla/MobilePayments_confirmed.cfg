SPECIFICATION FairSpec
CONSTANTS
  w1 = w1
  w2 = w2
  s1 = s1
  s2 = s2
  MaxIntents = 2
  Webhooks = {}
  Sweeps = {s1}
  MaxDue = 1
PROPERTIES
  ConfirmedIsCredited
CHECK_DEADLOCK FALSE
