\* The process may be killed: its successor has not been given a command.
SPECIFICATION Spec
CONSTANTS
  N = 2
  Rpms <- OneSpeed
  MaxRpm = 15
  Creep = 3
  Settle = 1
  DecelSecs = 2
  DecelStep = 2
  IdleDivider = 2
  FailLimit = 2
  OverLimit = 2
  MotorTimeout = 2
  Losses <- NoLoss
  SilentSets <- AllConnected
  Noise = FALSE
  Feedback <- Answer
  Watchdog = 2
  MaxLag = 1
  Killable = TRUE
  MayLeave = FALSE
  Leds = {TRUE}
INVARIANT
  QuietUntilCommanded
