SPECIFICATION Spec
CONSTANTS
  TofReopenAfter = 1
  I2cFactor = 2
  ThermalReopenAfter = 2
INVARIANT
  TypeOK
PROPERTIES
  StateCatchesUp
  SilenceIsShown
  ThermalComesUp
