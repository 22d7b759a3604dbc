SPECIFICATION FairLimitsSpec
CONSTANTS
  MB = 1
  SizeMod = 34816
  CPU64 = TRUE
  IOSFamily = TRUE
  Simulator = FALSE
  Darwin = TRUE
  AppCopy = FALSE
  Threads = {t1, t2}
  HostInfos <- MCHostInfos
  Limits <- MCLimits
  MaxTabs = 5
INVARIANTS OneSizeOfMemory StrictBeforeKill InactiveBelowActive AppAgreesWithWebKit
PROPERTY EveryCallReturns
