CONSTANTS
  Entity = {e1}
  Page = {c1}
  Request = {p1, p2}
  None = None
  MaxTick = 3
  MaxLoad = 2
  MaxFail = 1
SPECIFICATION FairSpec
INVARIANTS
  TypeOK
  RowOwed
PROPERTY
  Settles
CHECK_DEADLOCK FALSE
