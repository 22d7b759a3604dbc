SPECIFICATION FairSpec
CONSTANTS
  t1 = t1
  t2 = t2
  t3 = t3
  Threads = {t1, t2, t3}
  NoThread = none
  Clients <- MCClients
INVARIANTS MutualExclusion OwnerSeesItsBits SleepersAreAnnounced
PROPERTIES ImplementsLock ParkedThreadWakes
CHECK_DEADLOCK FALSE
