CONSTANTS
  o1 = o1
  None = None
  Key = {k1, k2}
  Org = {o1}
  OrgOf <- InOneOrg
  Admin = {p1, p2}
  MaxFail = 2
  MaxRestart = 1
SPECIFICATION FairSpec
INVARIANTS TypeOK LiveKeyHasUser RevokedKeyHasNoUser
PROPERTIES RevocationLasts AccessSpec RequestsEnd
CHECK_DEADLOCK FALSE
