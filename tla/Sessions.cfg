SPECIFICATION FairSpec
CONSTANTS
  r1 = r1  r2 = r2  r3 = r3  r4 = r4
  alice = alice  bob = bob
  Requests = {r1, r2, r3, r4}
  Users = {alice, bob}
  Limit = 1
  None = None
  Asks <- MCAsks
  MaxFailed = 1
  MaxExpired = 1
INVARIANTS
  TypeOK
  SweepComplete
  DeviceLimit
PROPERTIES
  RotatedTokenRefused
  EndedByOwner
  ImplementsLedger
  EveryRequestEnds
CHECK_DEADLOCK FALSE
