CONSTANTS
  t1 = t1
  t2 = t2
  t3 = t3
  Turn = {t1, t2, t3}
  None = None
  Request = {"cancel", "stop", "clear"}
  Bound <- QueueBound
SPECIFICATION Spec
SYMMETRY Symmetric
CHECK_DEADLOCK FALSE
INVARIANTS
  TurnInCharge
  NoIdleQueue
  CancelSticks
  ClearIsFinal
PROPERTIES
  ImplementsTurnQueue
