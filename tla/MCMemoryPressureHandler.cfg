SPECIFICATION FairSpec
CONSTANTS
  MB = 1
  SizeMod = 34816
  CPU64 = TRUE
  IOSFamily = FALSE
  Simulator = FALSE
  Darwin = TRUE
  Mac = TRUE
  FastMalloc = TRUE
  Ram = 16384
  PageCounts = {0, 1}
  Footprints <- MacFootprints
  Configurations <- MCConfigurations
  Handlers <- AllHandlers
  PollInterval = 1
  Events = {"Normal", "SystemCritical"}
INVARIANTS NotifiedCurrent KilledOnlyAfterLastChance
PROPERTIES ToldOncePerExcursion NoProcessStaysAboveLimit 
CHECK_DEADLOCK FALSE
