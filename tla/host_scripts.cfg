CONSTANTS
  Hosts = {"observation", "action", "target", "controller", "fixture",
           "capture", "adapter", "preparation", "closure", "editor"}
  MaxRuns <- MCMaxRuns
  Version = {v1, v2}
  Expected = v1
  Inode = {1, 2, 3}
  MaxClock = 2
SPECIFICATION HostSpec
CHECK_DEADLOCK FALSE
INVARIANTS
  TypeOK
  SealVouches
  InputsBelongTogether
  EffectOnce
  AcceptedIsOneVersion
PROPERTIES
  ClaimHolds
