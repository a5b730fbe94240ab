SPECIFICATION Spec
CONSTANTS
  r1 = r1  r2 = r2  r3 = r3  r4 = r4
  alice = alice  bob = bob
  Requests = {r1, r2, r3, r4}
  Users = {alice, bob}
  Limit = 1
  None = None
  Asks <- MCAsks
  MaxFailed = 0
  MaxExpired = 1
INVARIANT
  SingleUse
CHECK_DEADLOCK FALSE
