SPECIFICATION Spec
CONSTANTS
  QueueDepth = 2
  Period = 2
  MaxTime = 4
  NULL = NULL
INVARIANTS TypeOK FailureHasCause CascadeEnds TimerHasItsClock SilenceIsOwn
