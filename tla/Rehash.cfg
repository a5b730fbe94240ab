SPECIFICATION Spec
CONSTANTS
  r1 = r1  r2 = r2  r3 = r3
  p0 = p0  p1 = p1  p2 = p2
  Requests = {r1, r2, r3}
  Passwords = {p0, p1, p2}
  First = p0
  None = None
  Asks <- MCAsks
  MaxLost = 0
PROPERTY
  RehashKeepsPassword
CHECK_DEADLOCK FALSE
