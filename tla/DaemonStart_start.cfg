SPECIFICATION Spec
CONSTANTS
  t1 = t1
  t2 = t2
  Old = Old
  None = None
  Starters = {t1, t2}
INVARIANT OneDaemon
CHECK_DEADLOCK FALSE
