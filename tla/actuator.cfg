SPECIFICATION Spec
CONSTANTS
  Stroke = 3
  Grace = 1
  HallTimeout = 1
  Limit = 4
  Tolerance = 1
  FullPeriod = 1
  Restarts = TRUE
  Overrun = TRUE
  Killable = TRUE
  MaxDrift = 1
INVARIANTS
  TypeOK
  
  StallIsCut
  CountIsExact
PROPERTIES
  
  CallsReturn
