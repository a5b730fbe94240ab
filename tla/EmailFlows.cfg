SPECIFICATION FairSpec
CONSTANTS
  u1 = u1  u2 = u2
  a = a  b = b  c = c  d = d
  jpeg = jpeg  png = png
  r1 = r1  r2 = r2  r3 = r3  r4 = r4
  Users = {u1, u2}
  Emails = {a, b, c, d}
  Formats = {jpeg, png}
  Requests = {r1, r2, r3, r4}
  None = None
  Home <- MCHome
  Plans <- MCPlans
  MaxLost = 1
  MaxSecond = 1
INVARIANTS
  TypeOK
  AvatarAgrees
  VerifiedMeansProven
  LinkTakesEffectOnce
  UsedMeansApplied
  EmptySuccess
PROPERTIES
  EveryRequestEnds
CHECK_DEADLOCK FALSE
