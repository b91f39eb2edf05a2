SPECIFICATION FairSpec

CONSTANTS
  Worker = {w1, w2, w3}
  NoTask = NoTask
  MaxTasks = 4

PROPERTIES
  Implements
  EveryTaskRuns
  ShutdownReturns
