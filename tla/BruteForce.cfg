SPECIFICATION FairSpec
CONSTANTS
  r1 = r1  r2 = r2  r3 = r3  r4 = r4
  home = home  work = work  lan = lan  wan = wan
  Requests = {r1, r2, r3, r4}
  Emails = {home, work}
  Ips = {lan, wan}
  Asks <- MCAsks
  Max = 2
  Tolerance = 1
  MaxLost = 1
  None = None
INVARIANTS
  TypeOK
  LockoutSlack
  NearLockoutSeen
PROPERTY
  LockoutEnds
CHECK_DEADLOCK FALSE
