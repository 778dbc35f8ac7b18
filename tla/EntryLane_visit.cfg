SPECIFICATION FairSpec
CONSTANTS
  Submits = {s1, s2}
  Confirms = {r1}
  Retries = {t1}
  Leaves = {l1}
  NoOne = NoOne
  Policy <- TakenFirst
  ProcessOf <- OneProcess
INVARIANTS
  TypeOK
  GateHeldForReceipt
  AtMostOnePulse
  ActiveOnlyAfterOpening
  OpenedIsRecorded
PROPERTIES
  AdmittedEnters
CHECK_DEADLOCK FALSE
