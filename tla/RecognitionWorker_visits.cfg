SPECIFICATION FairSpec
CONSTANTS
  c1 = c1
  c2 = c2
  Cameras = {c1, c2}
  MaxConcurrency = 1
  MaxVisits <- TwoVehicles
  MaxDisturbances = 1
  MaxStray = 1
INVARIANTS
  SlotHasCall
  AwaitedWithinLimit
  OneEventPerVisit
  MarkedIsQueued
  SettledHasVisit
PROPERTIES
  KeepsReading
CHECK_DEADLOCK FALSE
