CONSTANTS
  Globals = {1, 2}
  Initial = {1}
  Names = {"eDP-1", "DP-1"}
  Connector <- MCConnector
  Dims = {5, 6}
  Images = {"x"}
  Clear = "clear"
  NULL = "NULL"
  InitCap = 2
  MaxSlots = 2
  MaxSurfs = 2
  MaxBufs = 2
  MaxQueue = 2
  Behaviours = {"hotplug", "resize", "deficient"}
SPECIFICATION FairSpec
INVARIANTS
  BuffersLiveInUse
  GrowthFaults
PROPERTIES
  Applied
  WallpaperKept
  KnownWhenServing
  WallpaperGoesOn
  MemoryReturns
\* The daemon exits, or has crashed.
CHECK_DEADLOCK FALSE
