SPECIFICATION FairSpec
CONSTANTS
  QueueDepth = 4
  MaxOutstanding = 4
  Faults = {"driverError", "sendTimeout", "overcurrent", "lateTimer", "destroyFromBelow"}
INVARIANTS ReminderComesNext PassedMeansLocked AssertHasCause
PROPERTIES ImplementsLockCtrl SelfTestEnds SelfTestAdvances
CHECK_DEADLOCK FALSE
