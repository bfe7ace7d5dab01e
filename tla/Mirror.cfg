CONSTANTS
  t1 = t1
  t2 = t2
  old = old
  Turn = {t1, t2, old}
  None = None
  Stored = Stored
  Past <- PastTurns
  Elsewhere = TRUE
  Patient = TRUE
  Ends = {"completed"}
  MaxCommands = 2
  MaxChunks = 1
  MaxFaults = 1
  MaxTogether = 3
SPECIFICATION FairSpec
CHECK_DEADLOCK FALSE
INVARIANTS
  LinkTypeOK
  QuietMirrorAgrees
  ClearedStaysGone
  StreamFollowsRow
  HintHasOwner
PROPERTIES
  AnswerIsFinal
  PromptSettles
