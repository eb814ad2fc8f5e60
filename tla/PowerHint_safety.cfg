CONSTANTS
  Periods = {0, 16666666, 16393442, 11111111, 8333333}
  Modes = {"On", "Off"}
  RateSupported = {60, 90}
  IdleSupported = TRUE
  MaxSignals = 4
  MaxFaults = 2
  MaxCrashes = 1
SPECIFICATION Spec
CHECK_DEADLOCK FALSE
INVARIANTS LeakFree NoTwoHintsWhileOn
PROPERTY RefinesRateHints
