\* One slot per pool, two pluggable panels for the one pluggable slot,
\* scans of the two threads never overlap.
CONSTANTS
  MaxBuiltin = 2
  MaxPluggable = 1
  MaxVirtual = 1
  KNumBuiltIn = 4
  KNumPluggable = 4
  KNumVirtual = 1
  NumHwPluggable = 2
  NumHwBuiltin2 = 1
  CreateMayFail = FALSE
  SerialScans = TRUE
  VirtualEarly = FALSE
  MaxHwEvents = 3
SPECIFICATION Spec
INVARIANTS
  TypeOK
  BuiltinConcurrency
  HotplugConsistent
  ClientViewConsistent
  ActivationRestored
  NoMisfree
