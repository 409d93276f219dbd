CONSTANTS
  Worker = {w1, w2, w3}
  Request = {r1, r2}
  Tables = 3
  Statements = 6
  MaxFail = 2
  MaxCrash = 2
SPECIFICATION FairSpec
INVARIANTS
  TypeOK
  ServedByAll
  NothingCutOff
PROPERTY
  SignalEnds
