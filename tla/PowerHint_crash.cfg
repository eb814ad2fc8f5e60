CONSTANTS
  Periods = {0, 16666666, 16393442, 11111111, 8333333}
  Modes = {"On", "Off"}
  RateSupported = {60, 90}
  IdleSupported = TRUE
  MaxSignals = 3
  MaxFaults = 0
  MaxCrashes = 1
SPECIFICATION Spec
CHECK_DEADLOCK FALSE
PROPERTY RateHintConverges
