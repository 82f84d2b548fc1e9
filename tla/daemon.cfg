\* One daemon with its queue, its link and its robot, a controller that leaves,
\* an axis that falls silent, and one break: of the link, of the broker, or of the
\* daemon, killed or not.
SPECIFICATION FairDaemon
CONSTANTS
  N = 1
  Rpms <- OneSpeed
  MaxRpm = 15
  Creep = 3
  Settle = 1
  DecelSecs = 2
  DecelStep = 2
  IdleDivider = 1
  FailLimit = 1
  OverLimit = 1
  MotorTimeout = 1
  Losses <- NoLoss
  SilentSets <- FallsOff
  Noise = FALSE
  Feedback <- Truthful
  Watchdog = 1
  MaxLag = 1
  Killable = TRUE
  MayLeave = TRUE
  Leds = {TRUE}
  MaxQueue = 1
  MaxBurst = 1
  SlowPass = FALSE
  MaxBreaks = 1
  Devices = {FALSE}
INVARIANT
  EStopReachesTheRobot
PROPERTY
  ImplementsLoop
  TicksObeyEStops
  
