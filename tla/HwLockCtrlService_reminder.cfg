SPECIFICATION Spec
CONSTANTS
  QueueDepth = 3
  MaxOutstanding = 3
  Faults = {}
INVARIANTS ReminderFits
CHECK_DEADLOCK FALSE
