SPECIFICATION FairSpec
CONSTANTS
  r1 = r1  r2 = r2
  Requests = {r1, r2}
  None = None
  MaxRecord = 2
  MaxFaults = 1
  MaxBreaks = 2
  Loads <- MCLoads
INVARIANTS
  TypeOK
  DeliveryExplained
PROPERTY
  EveryRecordPassed
CHECK_DEADLOCK FALSE
