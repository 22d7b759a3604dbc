SPECIFICATION Spec
CONSTANTS
  w1 = w1
  w2 = w2
  w3 = w3
  Threads = {w1, w2, client, main}
  Clients = {client, main}
  Owner = main
  m_threads <- MCTwo
  Conditions <- MCConditions
  NoThread = none
  NoCondition = noCondition
  MaxTasks = 3
INVARIANTS NoTaskIsStranded DestroyedMeansDone
PROPERTIES EveryTaskRuns PoolIsDestroyed
CHECK_DEADLOCK FALSE
