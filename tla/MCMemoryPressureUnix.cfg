SPECIFICATION FairSpec
CONSTANTS
  Main = main
  Callers = {main, monitor1, monitor2}
  Simulates = TRUE
  MaxTasks = 2
INVARIANTS StatusSettles ClientSettles
PROPERTY ReceptionReturns
