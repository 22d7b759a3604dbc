SPECIFICATION Spec
CONSTANTS
  t1 = t1
  t2 = t2
  t3 = t3
  t4 = t4
  Threads = {t1, t2, t3, t4}
  Conditions = {m_cond}
  NoThread = none
  NoCondition = noCondition
  Clients <- MCClients
  Rounds = 2
INVARIANTS WaitersAreAnnounced WriterIsAlone
PROPERTIES NotifyAllWakes WritersGoFirst EveryLockerEnters
CHECK_DEADLOCK FALSE
