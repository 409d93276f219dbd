CONSTANTS
  o1 = o1
  Entity = {e1}
  Org = {o1}
  OrgOf <- InOneOrg
  Handler = {p1}
  DeviceValue = {}
  MaxTick = 4
  MaxFail = 0
  MaxCrash = 0
SPECIFICATION Spec
CHECK_DEADLOCK FALSE
INVARIANTS KeyHasLastFields
