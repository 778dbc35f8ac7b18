SPECIFICATION FairSpec
CONSTANTS
  a1 = a1
  a2 = a2
  a3 = a3
  e1 = e1
  e2 = e2
  Attempts = {a1, a2, a3}
  Events = {e1, e2}
  EventOf <- MCEventOf
  Cashiers = {}
  Intents = {}
  NoOne = NoOne
  Policy <- OpenCounts
  OneLoop = TRUE
  MaxTime = 0
  Fee <- MCFee
  DefaultGrace = 1
  ConfiguredGrace = 1
INVARIANTS
  AtMostOnePulse
PROPERTIES
  GrantedVehicleLeaves
CHECK_DEADLOCK FALSE
