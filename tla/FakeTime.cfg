SPECIFICATION Spec
CONSTANTS
  Timer = {t1, t2}
  Periods = {1, 3}
  MaxTime = 4
  NULL = NULL
INVARIANTS TypeOK DelaysAreExact FiresOnTime
PROPERTIES NeverOversleeps
