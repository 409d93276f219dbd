CONSTANTS
  User = {u1, u2}
  Session = {s1, s2}
  Ceremony = {k1, k2}
  Request = {p1, p2}
  None = None
  MaxSign = 2
  MaxFail = 1
SPECIFICATION Spec
SYMMETRY Interchangeable
CHECK_DEADLOCK FALSE
INVARIANTS
  TypeOK
  FlagFollows
  SignCountNotAhead
PROPERTY
  AccessSpec
