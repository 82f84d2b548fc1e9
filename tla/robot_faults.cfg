\* Faults: dead and overloaded axes, missed polls, processes that end or are killed
\* and start again, and a ramp with an intermediate speed, of an axis each way.
\* Times are short, so that every limit is reached within a few periods.
SPECIFICATION Spec
CONSTANTS
  N = 2
  Rpms <- Mixed
  MaxRpm = 15
  Creep = 3
  Settle = 1
  DecelSecs = 3
  DecelStep = 2
  IdleDivider = 2
  FailLimit = 2
  OverLimit = 2
  MotorTimeout = 2
  Losses <- NoLoss
  SilentSets <- OneSilent
  Noise = FALSE
  Feedback <- Currents
  Watchdog = 2
  MaxLag = 1
  Killable = TRUE
  MayLeave = TRUE
  Leds = {TRUE}
INVARIANT
  TypeOK
  LatchesHold
  MotorsFollow
  QuietBeforeFirstCommand
  WatchdogStops
PROPERTY
  FaultStopsEveryAxis
  ImplementsSafeStop
  TickNeverDrivesHarder
