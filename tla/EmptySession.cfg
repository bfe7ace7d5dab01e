CONSTANTS
  t1 = t1
  t2 = t2
  Turn = {t1, t2}
  None = None
  Request = {}
  Bound <- FaultBound
SPECIFICATION Spec
SYMMETRY Symmetric
CHECK_DEADLOCK FALSE
INVARIANTS
  VisibleSessionHasTurn
