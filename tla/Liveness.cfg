CONSTANTS
  t1 = t1
  t2 = t2
  Turn = {t1, t2}
  None = None
  Request = {"cancel", "stop", "clear", "eof"}
  Bound <- LivenessBound
SPECIFICATION FairSpec
CHECK_DEADLOCK FALSE
PROPERTIES
  EveryTurnAnswered
  ExitCompletes
  ImplementsFairTurnQueue
