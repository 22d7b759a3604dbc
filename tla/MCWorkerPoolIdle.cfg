SPECIFICATION Spec
CONSTANTS
  w1 = w1
  w2 = w2
  w3 = w3
  Threads = {w1, w2, w3, client, main}
  Clients = {client, main}
  Owner = main
  m_threads <- MCThree
  Conditions <- MCConditions
  NoThread = none
  NoCondition = noCondition
  MaxTasks = 2
INVARIANT NoTaskWaitsForAnother
CHECK_DEADLOCK FALSE
