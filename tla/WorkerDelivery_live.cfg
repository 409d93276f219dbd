CONSTANTS
  e1 = e1
  boot = boot
  reboot = reboot
  shutdown = shutdown
  position = position
  broken = broken
  None = None
  Entity = {e1}
  Message = {broken, position}
  Kind <- KindOf
  StreamOf <- StreamOfKind
  About <- AboutOne
  Batch = 2
  MaxDeliver = 3
  MaxExpire = 1
  MaxFail = 1
  MaxRestart = 1
SPECIFICATION FairSpec
CHECK_DEADLOCK FALSE
PROPERTIES EverySettled StopEnds
