CONSTANTS
  admin = admin
  guest = guest
  i1 = i1
  i2 = i2
  i3 = i3
  None = None
  Email = {admin, guest}
  Admin = admin
  Invite = {i1, i2, i3}
  EmailOf <- Invitee
  Request = {r1, r2}
  MaxSessions = 2
  MaxFail = 1
  MaxCrash = 1
SPECIFICATION Spec
SYMMETRY Symmetry
INVARIANTS TypeOK MembersWereInvited AcceptedMeansMember NobodyStranded
PROPERTIES RevocationLasts
CHECK_DEADLOCK FALSE
