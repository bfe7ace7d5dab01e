CONSTANTS
  t1 = t1
  t2 = t2
  t3 = t3
  Turn = {t1, t2, t3}
  None = None
  Request = {"stop", "clear", "resume"}
  Bound <- FaultBound
SPECIFICATION Spec
SYMMETRY Symmetric
CHECK_DEADLOCK FALSE
INVARIANTS
  UniqueOrder
  ContextOfOwnSession
PROPERTIES
  ImplementsTurnQueue
