SPECIFICATION FairSpec
CONSTANTS
  Buttons = {onOff, garbage}
  Supported = {onOff}
  Observers = {o1, o2}
  NULL = NULL
  Liberties = {"lateRegister", "destroy", "readError"}
INVARIANTS TypeOK NoLostWakeup
PROPERTIES ImplementsFairButtonEvents
