SPECIFICATION Spec
CHECK_DEADLOCK FALSE
CONSTANTS
  Threads = {t1}
  Groups = {t1, g0}
  Waited = {t1}
  Steps = 3
  NaN = NaN
INVARIANTS
  ShownIsPicked
