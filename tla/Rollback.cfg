SPECIFICATION Spec
CONSTANTS
  r1 = r1  r2 = r2  r3 = r3  r4 = r4
  home = home
  Requests = {r1, r2, r3, r4}
  Emails = {home}
  None = None
  Asks <- MCAsks
  MaxLost = 1
INVARIANT
  RollbackRemovesProfile
CHECK_DEADLOCK FALSE
