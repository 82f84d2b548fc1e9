\* Broken links, broker restarts, new processes; a queue that overflows.
SPECIFICATION FairSpec
CONSTANTS
  Why <- Reasons
  Nothing = "none"
  MaxQueue = 2
  MaxBurst = 3
  SlowPass = FALSE
  MaxBreaks = 1
  Devices = {TRUE, FALSE}
INVARIANT
  TypeOK
  AlarmsCurrent
PROPERTY
  AlarmsCatchUp
