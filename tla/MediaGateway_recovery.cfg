SPECIFICATION FairSpec
CONSTANTS
  c1 = c1
  c2 = c2
  Clients = {c1}
  RoleOf <- OneRole
  Kinds = {"sdk", "rtsp"}
  OcrModes = {TRUE, FALSE}
  Stale = 1
  Dead = 3
  FirstFrame = 2
  OpenLimit = 2
  ReadTimeout = 1
  Waits = {3}
  Idle = 1
  MaxArrivals = 1
  MaxChanges = 2
INVARIANTS
  OneProducer
PROPERTIES
  PictureReturns
  StopsUnwatched
CHECK_DEADLOCK FALSE
