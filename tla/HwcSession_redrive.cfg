\* Two pluggable slots, one pluggable panel, a Create of a driven panel may succeed.
CONSTANTS
  MaxBuiltin = 2
  MaxPluggable = 2
  MaxVirtual = 0
  KNumBuiltIn = 4
  KNumPluggable = 4
  KNumVirtual = 1
  NumHwPluggable = 1
  NumHwBuiltin2 = 1
  CreateMayFail = FALSE
  SerialScans = TRUE
  VirtualEarly = FALSE
  MaxHwEvents = 3
SPECIFICATION Spec
INVARIANT
  NoDoubleDrive
