SPECIFICATION FairCocoaSpec
CONSTANTS
  MB = 1
  SizeMod = 34816
  CPU64 = TRUE
  IOSFamily = FALSE
  Simulator = FALSE
  Darwin = TRUE
  Mac = TRUE
  FastMalloc = FALSE
  Ram = 16384
  PageCounts = {}
  Configurations = {}
  Handlers = {}
  Footprints <- SmallFootprints
  PollInterval = 1
  Events = {"Normal", "SystemWarning", "SystemCritical", "ProcessLimitWarning", "ProcessLimitCritical"}
  Timers = {t1, t2}
  MaxQueue = 3
  MaxEnds = 1
  Simulations = {"lowMemory", "lowMemory.begin", "lowMemory.end"}
  DirectCalls = TRUE
  TimersFail = TRUE
INVARIANTS NoSourceLeaks InstalledMeansSource
PROPERTIES  SimulationEnds
