SPECIFICATION Spec
CONSTANTS
  u1 = u1  u2 = u2  ip = ip  a = a  b = b  h = h  k = k  old = old  new = new
  r1 = r1  r2 = r2  r3 = r3  r4 = r4
  Users = {u1, u2}
  Addresses = {ip}
  Apps = {a, b}
  Hosts = {h, k}
  Static = {}
  Passwords = {old, new}
  Requests = {r1, r2, r3, r4}
  None = None
  Absent = Absent
  MaxPair = 3
  PerSecond = 2
  Life = 2
  Login <- MCLogin
  First <- MCFirst
  Limit <- MCLimit
  KeyLimit = 1
  Window = 2
  Plans <- MCPlans
INVARIANTS
  TypeOK
  IdentityProven
  BudgetHolds
  OneOwner
  SignedOut
PROPERTIES
  ImplementsLedger
CHECK_DEADLOCK FALSE
