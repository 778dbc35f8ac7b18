SPECIFICATION FairSpec
CONSTANTS
  plain = plain
  fused = fused
  pa = pa
  pb = pb
  pc = pc
  pd = pd
  Vehicles = {plain, fused}
  Plates = {pa, pb, pc, pd}
  NoPlate = none
  none = none
  Similarity <- Alikeness
  Wait = 1
  PairWindow = 2
  Hold = 3
  Fused = {}
  ReadAs <- OwnPlates
  Confidences = {95}
  AutoOpen = {}
  Limit = 3
  MaxNative = 0
  MaxFaults = 2
  MaxSwitches = 2
INVARIANTS
  DroppedByFaultsOnly
PROPERTIES
  EventsLeave
  RetriesLeave
  StoredBeforeAck
CHECK_DEADLOCK FALSE
