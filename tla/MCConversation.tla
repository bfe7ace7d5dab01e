--------------------------- MODULE MCConversation ---------------------------
(***************************************************************************)
(* Instances of Conversation for TLC: each run takes the bounds it needs.  *)
(***************************************************************************)
EXTENDS ConversationProperties, TLC

Limits(request, delta, fold, fault, panic, crash, timeout) ==
  [c \in Counted |-> CASE c = "request" -> request [] c = "delta" -> delta
                       [] c = "fold" -> fold [] c = "fault" -> fault [] c = "panic" -> panic
                       [] c = "crash" -> crash [] c = "timeout" -> timeout]

\* The queue: cancel, stop and clear racing the worker and its panic.
QueueBound == Limits(2, 0, 0, 0, 1, 0, 0)

\* Sessions: resumes and clears, a restart, a late reply of the coordinator.
SessionsBound == Limits(2, 0, 0, 0, 0, 1, 1)

\* Compaction: one fold and a title, cancelled, cleared or resumed.
CompactionBound == Limits(1, 1, 1, 0, 0, 0, 0)

\* Liveness: every way a turn can end, and the end of the process.
LivenessBound == Limits(1, 0, 1, 0, 1, 0, 0)

\* Failing writes.
FaultBound == Limits(2, 0, 0, 1, 0, 0, 0)

Symmetric == Permutations(Turn)
=============================================================================
