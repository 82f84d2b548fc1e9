SPECIFICATION Spec
CONSTANTS
  Watchdog = 1
  Slow = 1
  GhostGrace = 1
  GhostCooldown = 1
  MaxTold = 1
  MaxFaults = 1
INVARIANT
  TypeOK
  
PROPERTY
  GhostSparesTheOther
  HandsOffRests
