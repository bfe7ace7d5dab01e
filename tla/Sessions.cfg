CONSTANTS
  t1 = t1
  t2 = t2
  t3 = t3
  Turn = {t1, t2, t3}
  None = None
  Request = {"stop", "clear", "resume"}
  Bound <- SessionsBound
SPECIFICATION Spec
SYMMETRY Symmetric
CHECK_DEADLOCK FALSE
INVARIANTS
  TypeOK
  ResumeOnlyWhenIdle
  VerdictIsLogged
  RoundsMatchLog
  TitleOfOwnRound
  UniqueOrder
PROPERTIES
  ImplementsTurnQueue
