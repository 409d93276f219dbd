CONSTANTS
  o1 = o1
  Entity = {e1, e2}
  Org = {o1}
  OrgOf <- InOneOrg
  Handler = {p1, p2}
  DeviceValue <- Gone
  MaxTick = 4
  MaxFail = 1
  MaxCrash = 1
SPECIFICATION FairSpec
CHECK_DEADLOCK FALSE
INVARIANTS TypeOK RowHasKey RenameRevivesNoKey UndisturbedKeyCurrent
PROPERTIES RequestsEnd
