SPECIFICATION Spec
CONSTANTS
  a1 = a1
  a2 = a2
  a3 = a3
  e1 = e1
  e2 = e2
  Attempts = {a1, a2}
  Events = {e1, e2}
  EventOf <- MCEventOf
  Cashiers = {c1}
  Intents = {i1}
  NoOne = NoOne
  Policy <- OpenCounts
  OneLoop = TRUE
  MaxTime = 1
  Fee <- MCFee
  DefaultGrace = 1
  ConfiguredGrace = 1
INVARIANTS
  TypeOK
  PulseWasGranted
  ClosedOnlyAfterOpening
  OpenedIsRecorded
  PaidIsBacked
PROPERTIES
  OwnerChangesOnlyAfterDenial
  LifecycleClosedIsFinal
CHECK_DEADLOCK FALSE
