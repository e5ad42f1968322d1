CONSTANTS
  Globals = {1, 2, 3}
  Initial = {1, 2, 3}
  Names = {"eDP-1", "DP-1"}
  Connector <- MCConnector
  Dims = {5}
  Images = {"x"}
  Clear = "clear"
  NULL = "NULL"
  InitCap = 8
  MaxSlots = 3
  MaxSurfs = 3
  MaxBufs = 0
  MaxQueue = 1
  Behaviours = {"unplug", "close"}
SPECIFICATION Spec
PROPERTIES
  CloseStaysLocal
\* The daemon exits, or has crashed.
CHECK_DEADLOCK FALSE
