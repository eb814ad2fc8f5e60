CONSTANTS
  Displays = {0, 1}
  Modes = {"On", "Off", "Doze"}
  MaxPanelEvents = 1
  MaxCommands = 0
  MaxPlugs = 0
SPECIFICATION Spec
PROPERTY PanelRecovers
CHECK_DEADLOCK FALSE
