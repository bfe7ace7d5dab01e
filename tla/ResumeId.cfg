CONSTANTS
  t1 = t1
  t2 = t2
  old = old
  Turn = {t1, t2, old}
  None = None
  Stored = Stored
  Past <- PastTurns
  Elsewhere = FALSE
  Patient = TRUE
  Ends = {"completed"}
  MaxCommands = 1
  MaxChunks = 0
  MaxFaults = 0
  MaxTogether = 3
SPECIFICATION Spec
CHECK_DEADLOCK FALSE
INVARIANTS
  SessionIdIsAttached
