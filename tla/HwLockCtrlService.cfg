SPECIFICATION FairSpec
CONSTANTS
  QueueDepth = 6
  MaxOutstanding = 4
  Faults = {}
INVARIANTS TypeOK ReminderComesNext SettledAgrees ObserverIsCurrent NothingAsserts
PROPERTIES ObserverCatchesUp ImplementsFairLockCtrl
