SPECIFICATION FairSpec
CONSTANTS
  r1 = r1  r2 = r2  r3 = r3  r4 = r4
  home = home
  Requests = {r1, r2, r3, r4}
  Emails = {home}
  None = None
  Asks <- MCAsks
  MaxLost = 1
INVARIANTS
  TypeOK
  EmailUnique
  RowsAgree
  DeletedMeansOut
PROPERTY
  EveryRequestEnds
CHECK_DEADLOCK FALSE
