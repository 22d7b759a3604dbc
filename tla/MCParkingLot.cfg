SPECIFICATION Spec
CONSTANTS
  t1 = t1
  t2 = t2
  t3 = t3
  addr1 = addr1
  addr2 = addr2
  Threads = {t1, t2, t3}
  Addresses = {addr1, addr2}
  Hash <- MCHash
  maxLoadFactor = 2
  growthFactor = 1
  Programs <- MCPrograms
  NoThread = NoThread
  NoAddress = NoAddress
  NoToken = NoToken
  NoAnswer = NoAnswer
INVARIANTS QueuesAreWhole TakenThreadsStay
PROPERTIES ImplementsParking EveryCallEnds
CHECK_DEADLOCK FALSE
