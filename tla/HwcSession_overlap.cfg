\* The client's first scan and a uevent scan may overlap.
CONSTANTS
  MaxBuiltin = 2
  MaxPluggable = 1
  MaxVirtual = 1
  KNumBuiltIn = 4
  KNumPluggable = 4
  KNumVirtual = 1
  NumHwPluggable = 2
  NumHwBuiltin2 = 1
  CreateMayFail = FALSE
  SerialScans = FALSE
  VirtualEarly = FALSE
  MaxHwEvents = 3
SPECIFICATION Spec
INVARIANT
  NoMisfree
