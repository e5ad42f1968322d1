CONSTANTS
  Globals = {1, 2}
  Initial = {1}
  Names = {"eDP-1", "DP-1"}
  Connector <- MCConnector
  Dims = {5}
  Images = {"x"}
  Clear = "clear"
  NULL = "NULL"
  InitCap = 2
  MaxSlots = 2
  MaxSurfs = 2
  MaxBufs = 3
  MaxQueue = 3
  Behaviours = {"hotplug", "resize", "late_info", "late_configure", "late_release"}
SPECIFICATION Spec
INVARIANTS
  FaultCause
\* The daemon exits, or has crashed.
CHECK_DEADLOCK FALSE
