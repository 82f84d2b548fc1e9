\* A new speed commanded while the drive is decelerating.
SPECIFICATION Spec
CONSTANTS
  N = 2
  Rpms <- TwoSpeeds
  MaxRpm = 15
  Creep = 3
  Settle = 1
  DecelSecs = 6
  DecelStep = 3
  IdleDivider = 2
  FailLimit = 2
  OverLimit = 2
  MotorTimeout = 2
  Losses <- NoLoss
  SilentSets <- AllConnected
  Noise = FALSE
  Feedback <- Answer
  Watchdog = 6
  MaxLag = 1
  Killable = FALSE
  MayLeave = FALSE
  Leds = {TRUE}
PROPERTY
  DecelNeverSpeedsUp
