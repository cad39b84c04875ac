SPECIFICATION Spec
CONSTANTS
  Buttons = {onOff}
  Supported = {onOff}
  Observers = {o1, o2}
  NULL = NULL
  Liberties = {"lateRegister"}
SYMMETRY ObserverSymmetry
INVARIANTS ContextMatches
