\* Axes turning slower than moving() can see.
SPECIFICATION Spec
CONSTANTS
  N = 2
  Rpms <- SlowTurn
  MaxRpm = 15
  Creep = 3
  Settle = 1
  DecelSecs = 2
  DecelStep = 2
  IdleDivider = 2
  FailLimit = 2
  OverLimit = 2
  MotorTimeout = 3
  Losses <- NoLoss
  SilentSets <- AllConnected
  Noise = FALSE
  Feedback <- Resting
  Watchdog = 2
  MaxLag = 1
  Killable = FALSE
  MayLeave = FALSE
  Leds = {TRUE}
INVARIANT
  WatchdogStopsEveryAxis
