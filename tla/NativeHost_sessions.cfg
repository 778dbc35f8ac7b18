SPECIFICATION FairSpec
CONSTANTS
  n1 = n1
  n2 = n2
  c1 = c1
  c2 = c2
  h1 = h1
  h2 = h2
  None = None
  Nodes = {n1, n2}
  Cameras = {c1, c2}
  Numbers = {h1, h2}
  Vehicles = {v1}
  Sites <- TwoLanes
  MaxDisturbances = 2
INVARIANTS
  OneSession
PROPERTIES
  SettlesOnOwner
  CallbacksMove
CHECK_DEADLOCK FALSE
