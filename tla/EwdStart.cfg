CONSTANTS
  Globals = {1, 2, 3}
  Initial = {1}
  Names = {"eDP-1", "DP-1"}
  Connector <- MCConnector
  Dims = {5}
  Images = {"x"}
  Clear = "clear"
  NULL = "NULL"
  InitCap = 1
  MaxSlots = 3
  MaxSurfs = 3
  MaxBufs = 2
  MaxQueue = 2
  Behaviours = {"hotplug", "any_order", "deficient", "close", "oom"}
SPECIFICATION Spec
INVARIANTS
  FaultCause
\* The daemon exits, or has crashed.
CHECK_DEADLOCK FALSE
