CONSTANTS
  e1 = e1
  boot = boot
  reboot = reboot
  shutdown = shutdown
  position = position
  broken = broken
  None = None
  Entity = {e1}
  Message = {boot, shutdown, position}
  Kind <- KindOf
  StreamOf <- StreamOfKind
  About <- AboutOne
  Batch = 2
  MaxDeliver = 2
  MaxExpire = 1
  MaxFail = 1
  MaxRestart = 1
SPECIFICATION Spec
CHECK_DEADLOCK FALSE
INVARIANTS TypeOK CleanStop RegistryFollowsEvents
PROPERTIES AtLeastOnceSpec
