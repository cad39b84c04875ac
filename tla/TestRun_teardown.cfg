SPECIFICATION Spec
CONSTANTS
  QueueDepth = 2
  Period = 2
  MaxTime = 2
  NULL = NULL
INVARIANTS TeardownIsComplete
