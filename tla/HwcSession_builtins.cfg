\* Two second builtin panels and room for both in the builtin pool.
CONSTANTS
  MaxBuiltin = 3
  MaxPluggable = 1
  MaxVirtual = 1
  KNumBuiltIn = 4
  KNumPluggable = 4
  KNumVirtual = 1
  NumHwPluggable = 1
  NumHwBuiltin2 = 2
  CreateMayFail = FALSE
  SerialScans = TRUE
  VirtualEarly = FALSE
  MaxHwEvents = 1
SPECIFICATION Spec
INVARIANT
  BuiltinsMapped
