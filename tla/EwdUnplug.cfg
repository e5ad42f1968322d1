CONSTANTS
  Globals = {1, 2, 3}
  Initial = {1, 2}
  Names = {"eDP-1", "DP-1"}
  Connector <- MCConnector
  Dims = {5}
  Images = {"x"}
  Clear = "clear"
  NULL = "NULL"
  InitCap = 8
  MaxSlots = 3
  MaxSurfs = 3
  MaxBufs = 2
  MaxQueue = 2
  Behaviours = {"hotplug", "unplug", "resize"}
SPECIFICATION Spec
INVARIANTS
  ListenersInPlace
  NoOrphans
  FaultCause
PROPERTIES
  RightDisplay
\* The daemon exits, or has crashed.
CHECK_DEADLOCK FALSE
