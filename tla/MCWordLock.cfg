SPECIFICATION FairSpec
CONSTANTS
  Threads = {t1, t2, t3}
  NoThread = none
INVARIANTS MutualExclusion QueueIsTheSleepers NoUseAfterDestruction
PROPERTIES ImplementsLock SleeperWakes
