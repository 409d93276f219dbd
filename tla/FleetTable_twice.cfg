CONSTANTS
  Entity = {e1}
  Page = {c1}
  Request = {p1, p2}
  None = None
  MaxTick = 2
  MaxLoad = 2
  MaxFail = 0
SPECIFICATION Spec
INVARIANTS
  OneRowPerEntity

CHECK_DEADLOCK FALSE
