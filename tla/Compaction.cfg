CONSTANTS
  t1 = t1
  t2 = t2
  t3 = t3
  t4 = t4
  Turn = {t1, t2, t3, t4}
  None = None
  Request = {"cancel", "clear", "resume"}
  Bound <- CompactionBound
SPECIFICATION Spec
SYMMETRY Symmetric
CHECK_DEADLOCK FALSE
INVARIANTS
  ContextExact
  HintOnlyWhileActive
