SPECIFICATION LiveSpec
CONSTANTS
  NumTasks = 3
  Lanes <- McLanes
  Gpu = "gpu"
  Kinds <- McKinds
  Threads = {w1, w2}
  NoThread = NoThread
  NoTask = NoTask
  MaxTerminal = 1
  Stalls = {1}
  MaxUpdates = 1
INVARIANT StartsInOrder
PROPERTIES EndIsFinal DrainSettles EveryTaskEnds CancelledInTime
CHECK_DEADLOCK FALSE
