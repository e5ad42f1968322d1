CONSTANTS
  Globals = {1, 2, 3}
  Initial = {1, 2}
  Names = {"eDP-1", "DP-1"}
  Connector <- MCConnector
  Dims = {5}
  Images = {"x"}
  Clear = "clear"
  NULL = "NULL"
  InitCap = 8
  MaxSlots = 3
  MaxSurfs = 3
  MaxBufs = 0
  MaxQueue = 2
  Behaviours = {"hotplug", "unplug", "close"}
SPECIFICATION Spec
INVARIANTS
  TypeOK
  TableOK
  SurfacesOwned
\* The daemon exits, or has crashed.
CHECK_DEADLOCK FALSE
