SPECIFICATION Spec
CONSTANTS
  Height = 4
  Cars = {1, 4}
  StallAfter = 3
  Grace = 1
  HallTimeout = 1
  Watchdog = 2
  MaxFaults = 2
INVARIANTS
  TypeOK
  PushIsBounded
  ReleaseStops
PROPERTIES
  
  LeftAloneRests
  HeldLiftArrives
