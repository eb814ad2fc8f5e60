\* Two pluggable slots, two pluggable panels, a display factory Create may fail.
CONSTANTS
  MaxBuiltin = 1
  MaxPluggable = 2
  MaxVirtual = 0
  KNumBuiltIn = 4
  KNumPluggable = 4
  KNumVirtual = 1
  NumHwPluggable = 2
  NumHwBuiltin2 = 0
  CreateMayFail = TRUE
  SerialScans = TRUE
  VirtualEarly = FALSE
  MaxHwEvents = 2
SPECIFICATION Spec
INVARIANT
  ClientViewConsistent
