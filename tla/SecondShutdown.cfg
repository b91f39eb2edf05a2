SPECIFICATION Spec

CONSTANTS
  Worker = {w1, w2, w3}
  NoTask = NoTask
  MaxTasks = 1

INVARIANT NeverAborts
