CONSTANTS
  Displays = {0, 1}
  Modes = {"On", "Off", "Doze"}
  MaxPanelEvents = 2
  MaxCommands = 2
  MaxPlugs = 2
SPECIFICATION Spec
INVARIANT SequenceExclusion
PROPERTIES WaitersReleased
CHECK_DEADLOCK FALSE
