SPECIFICATION Spec
CONSTANTS
  plain = plain
  fused = fused
  pa = pa
  pb = pb
  pc = pc
  pd = pd
  Vehicles = {fused}
  Plates = {pa, pb, pc, pd}
  NoPlate = none
  none = none
  Similarity <- Alikeness
  Wait = 1
  PairWindow = 2
  Hold = 3
  Fused = {fused}
  ReadAs <- SlightMisreading
  Confidences = {80}
  AutoOpen = {}
  Limit = 3
  MaxNative = 2
  MaxFaults = 1
  MaxSwitches = 1
INVARIANTS
  OneSessionPerVisit
  AcceptedOnce
CHECK_DEADLOCK FALSE
