CONSTANTS
  o1 = o1
  Entity = {e1}
  Org = {o1}
  OrgOf <- InOneOrg
  Handler = {p1}
  DeviceValue <- BlankOrGone
  MaxTick = 3
  MaxFail = 0
  MaxCrash = 1
  DeviceKey = {}
  Owner <- AnyOwner
  Client = {c1}
  QueueCap = 1
  MaxRev = 3
  MaxRestarts = 1
SPECIFICATION LiveSpec
CHECK_DEADLOCK FALSE
INVARIANTS BucketAgrees CardShowsRow
