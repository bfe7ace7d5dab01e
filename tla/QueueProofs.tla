----------------------------- MODULE QueueProofs -----------------------------
(***************************************************************************)
(* Theorems about the queue and its workers, for any number of turns and   *)
(* any bounds: the queue never stands idle (NoIdleQueue), nothing          *)
(* submitted before a clear survives it (ClearIsFinal), and the active     *)
(* turn has a live worker or the settle that worker sent, never both and   *)
(* never neither, while no other turn has a thread (TurnInCharge); the     *)
(* compaction hint ends with its turn (HintOnlyWhileActive); and behind    *)
(* its channel, its threads and its crashes the client sees a queue that   *)
(* runs one turn at a time, in order (TurnQueue).  They rest on there      *)
(* being one active turn, to which the coordinator's references are        *)
(* (ConversationProofs).                                                   *)
(***************************************************************************)
EXTENDS ConversationProofs, NaturalOrder

-----------------------------------------------------------------------------
(* The queue never stands idle *)

\* What most steps do: no turn begins to wait, and none stops being active.
KeepsRunning ==
  /\ Pending' = {} \/ (Pending' \subseteq Pending /\ Active \subseteq Active')
  /\ IsShuttingDown => IsShuttingDown'

LEMMA KeepsRunningIdle ==
  ASSUME NoIdleQueue, KeepsRunning
  PROVE  NoIdleQueue'
  BY DEF NoIdleQueue, KeepsRunning

\* A set of pending turns has a first one.
LEMMA FirstPendingExists ==
  ASSUME TypeOK, Pending # {}
  PROVE  FirstPending # {}
  <1> DEFINE numbers == {seq[t] + 1 : t \in Pending}
  <1>1. \A t \in Pending : t \in Turn /\ seq[t] \in SeqNo
    BY DEF Pending, TypeOK, TranscriptType
  <1>2. numbers \in SUBSET Nat /\ numbers # {}
    BY <1>1 DEF SeqNo
  <1> HIDE DEF numbers
  <1>3. PICK n \in numbers : \A m \in numbers : n <= m
    BY <1>2, LeastElement
  <1>4. PICK t \in Pending : n = seq[t] + 1
    BY <1>3 DEF numbers
  <1>5. ASSUME NEW u \in Pending PROVE seq[t] <= seq[u]
    <2>1. seq[u] + 1 \in numbers
      BY DEF numbers
    <2> QED BY <1>1, <1>3, <1>4, <2>1 DEF SeqNo
  <1> QED BY <1>4, <1>5 DEF FirstPending

\* The end of the active turn is the start of the first that waits.
LEMMA SettleActiveIdle ==
  ASSUME TypeOK, NEW t \in Active, NEW k, NEW lost, SettleActive(t, k, lost)
  PROVE  NoIdleQueue'
  <1>1. /\ UNCHANGED <<shuttingDown, shutdownRequested>>
        /\ phase' = [u \in Turn |->
                       IF u = t THEN "settled"
                       ELSE IF u \in (IF IsShuttingDown THEN {} ELSE FirstPending)
                            THEN "active" ELSE phase[u]]
    BY DEF SettleActive
  <1>2. t \notin Pending /\ FirstPending \subseteq Pending
    BY DEF Active, Pending, FirstPending
  <1>3. CASE IsShuttingDown
    BY <1>1, <1>3 DEF NoIdleQueue, IsShuttingDown
  <1>4. CASE ~IsShuttingDown /\ Pending # {}
    <2>1. PICK u : u \in FirstPending /\ u \in Turn /\ u # t
      BY <1>2, <1>4, FirstPendingExists DEF Pending
    <2>2. u \in Active'
      BY <1>1, <1>4, <2>1 DEF Active
    <2> QED BY <2>2 DEF NoIdleQueue
  <1>5. CASE Pending = {}
    <2>1. Pending' = {}
      BY <1>1, <1>5 DEF Pending
    <2> QED BY <2>1 DEF NoIdleQueue
  <1> QED BY <1>3, <1>4, <1>5

\* A turn waits only if another is active when it is enqueued.
LEMMA EnqueueIdle ==
  ASSUME TypeOK, CancelInv, NoIdleQueue, NEW fault \in EnqueueFault, Enqueue(fault)
  PROVE  NoIdleQueue'
  <1> DEFINE t == Head(chan).turn
  <1>1. Head(chan) \in Command /\ Head(chan) = chan[1] /\ 1 \in DOMAIN chan
        /\ Head(chan).op = "Enqueue"
    BY ReceiveType DEF Enqueue, Receive, TypeOK
  <1>2. t \in Turn /\ t \notin Unsettled
    BY <1>1, CommandFields DEF CancelInv, EnqueuedOnce, Fresh, At
  <1>3. /\ UNCHANGED shuttingDown /\ UNCHANGED shutdownRequested
        /\ phase' = IF fault = "none"
                    THEN [phase EXCEPT ![t] = IF Active = {} THEN "active" ELSE "pending"]
                    ELSE phase
    BY DEF Enqueue, StartsAtOnce
  <1> HIDE DEF t
  <1>4. CASE phase' = phase
    BY <1>3, <1>4 DEF NoIdleQueue, IsShuttingDown, Pending, Active
  <1>5. CASE phase' = [phase EXCEPT ![t] = "active"]
    <2>1. t \in Active'
      BY <1>2, <1>5 DEF Active, TypeOK, TranscriptType
    <2> QED BY <2>1 DEF NoIdleQueue
  <1>6. CASE Active # {} /\ phase' = [phase EXCEPT ![t] = "pending"]
    <2>1. Active \subseteq Active'
      BY <1>2, <1>6 DEF Active, Unsettled, TypeOK, TranscriptType
    <2> QED BY <1>6, <2>1 DEF NoIdleQueue
  <1> QED BY <1>3, <1>4, <1>5, <1>6

LEMMA CoordinatorIdle ==
  ASSUME TypeOK, CancelInv, NoIdleQueue, Coordinator
  PROVE  NoIdleQueue'
  <1>1. ASSUME UNCHANGED <<phase, shuttingDown, shutdownRequested>> PROVE NoIdleQueue'
    BY <1>1, KeepsRunningIdle DEF KeepsRunning, IsShuttingDown, Pending, Active
  <1>2. EnqueueIgnored \/ SettleStale \/ Delta \/ CompactedReported \/ CompactionStatus
          \/ Cancel \/ QueryStatus \/ (\E t \in Turn : StartWorker(t))
          \/ (\E lost : SetSessionSummary(lost))
            => UNCHANGED <<phase, shuttingDown, shutdownRequested>>
    BY DEF EnqueueIgnored, SettleStale, Delta, CompactedReported, CompactionStatus, Cancel,
       QueryStatus, StartWorker, SetSessionSummary, transcript
  <1>3. ASSUME NEW lost, Settle(lost) PROVE NoIdleQueue'
    BY <1>3, SettleActiveIdle DEF Settle
  <1>4. ASSUME NEW t \in Turn, NEW lost, Unconfigured(t, lost) PROVE NoIdleQueue'
    <2>1. t \in Active
      BY <1>4, ConversationAssumption DEF Unconfigured, CancelInv, AboutActive
    <2> QED BY <1>4, <2>1, SettleActiveIdle DEF Unconfigured
  <1>5. ASSUME NEW lost, Stop(lost) PROVE NoIdleQueue'
    <2>1. Pending' = {}
      BY <1>5 DEF Stop, Pending
    <2> QED BY <2>1 DEF NoIdleQueue
  <1>6. ASSUME NEW logged, Clear(logged) PROVE NoIdleQueue'
    <2>1. Pending' = {}
      BY <1>6 DEF Clear, KeptByClear, Pending, Active
    <2> QED BY <2>1 DEF NoIdleQueue
  <1>7. ASSUME ResumeSession \/ Shutdown PROVE NoIdleQueue'
    <2>1. Pending' = {}
      BY <1>7 DEF ResumeSession, Shutdown, Pending
    <2> QED BY <2>1 DEF NoIdleQueue
  <1> QED
    BY <1>1, <1>2, <1>3, <1>4, <1>5, <1>6, <1>7, EnqueueIdle DEF Coordinator, StartActive

LEMMA NoIdleStep ==
  ASSUME TypeOK, CancelInv, NoIdleQueue, [Next]_vars
  PROVE  NoIdleQueue'
  <1>1. CASE \/ UNCHANGED vars
             \/ (\E t \in Turn : Worker(t)) \/ (\E j \in titling : TitleThread(j))
             \/ Serve \/ ShutdownAndJoin
    <2>1. CASE UNCHANGED <<transcript, closing>>
      BY <2>1, KeepsRunningIdle DEF transcript, closing, KeepsRunning, IsShuttingDown,
         Pending, Active
    <2>2. CASE ShutdownAndJoin
      <3>1. /\ UNCHANGED <<phase, shuttingDown>>
            /\ shutdownRequested' = shutdownRequested \/ shutdownRequested'
        BY <2>2 DEF ShutdownAndJoin, RaiseFlag, SendShutdown, Join, transcript
      <3> QED BY <3>1, KeepsRunningIdle DEF KeepsRunning, IsShuttingDown, Pending, Active
    <2> QED BY <1>1, <2>1, <2>2 DEF vars, Worker, TitleThread, Serve
  <1>2. CASE Restart
    <2>1. Pending' = {}
      BY <1>2 DEF Restart, Pending
    <2> QED BY <2>1 DEF NoIdleQueue
  <1> QED BY <1>1, <1>2, CoordinatorIdle DEF Next

\* The queue never stands idle: whatever ends the active turn (its settle, a missing
\* configuration, a failed write) hands over to the first that waits, and whatever
\* takes turns out of the queue leaves none behind (enqueue, settle, stop, clear and
\* start_active of state.rs).
THEOREM QueueNeverIdle == Spec => []NoIdleQueue
  <1>1. Init => NoIdleQueue
    BY DEF Init, NoIdleQueue, Pending
  <1>2. TypeOK /\ CancelInv /\ NoIdleQueue /\ [Next]_vars => NoIdleQueue'
    BY NoIdleStep
  <1> QED BY <1>1, <1>2, TypeCorrect, CancelInvariant, PTL DEF Spec

-----------------------------------------------------------------------------
(* A clear is final *)

\* A turn submitted before a clear is either out of the queue or on its way out.
Leaving(t) == phase[t] \in {"pending", "active"} => phase[t] = "active" /\ cancelling = t

\* The clear comes behind every enqueue of such a turn that is still in the channel.
ClearFollows ==
  running => \A i \in DOMAIN chan :
               At(i, "Enqueue") /\ chan[i].turn \in abandoned =>
                 \E j \in DOMAIN chan : i < j /\ At(j, "Clear")

ClearInv ==
  /\ \A t \in abandoned : told[t] # "unsent"
  /\ ClearFollows
  /\ ClearIsFinal

\* What most steps do: a turn that was leaving goes on leaving, and none is unsent again.
KeepsLeaving ==
  /\ abandoned' = abandoned
  /\ \A t \in abandoned : /\ told[t] # "unsent" => told'[t] # "unsent"
                          /\ Leaving(t) => Leaving(t)'

\* A handler takes a command that is no clear, or none.
LEMMA ReturnClear ==
  ASSUME TypeOK, ClearInv, running,
         NEW rest, rest = chan \/ (chan # <<>> /\ ~At(1, "Clear") /\ rest = Tail(chan)),
         Return(rest), abandoned' = abandoned,
         \A t \in abandoned : told[t] # "unsent" => told'[t] # "unsent",
         running' /\ (\A i \in DOMAIN chan : ~At(i, "Clear")) =>
           \A t \in abandoned : Leaving(t) => Leaving(t)'
  PROVE  ClearInv'
  <1>1. chan \in Seq(Command)
    BY DEF TypeOK
  <1>2. running' => chan' = rest
    BY DEF Return
  <1>3. \E k \in {0, 1} :
          /\ \A i \in DOMAIN rest : i + k \in DOMAIN chan /\ rest[i] = chan[i + k] /\ i \in Int
          /\ \A j \in DOMAIN chan : j > k => j - k \in DOMAIN rest /\ rest[j - k] = chan[j]
          /\ k = 1 => ~At(1, "Clear")
    <2>1. CASE rest = chan
      <3>1. /\ \A i \in DOMAIN rest : i + 0 \in DOMAIN chan /\ rest[i] = chan[i + 0] /\ i \in Int
            /\ \A j \in DOMAIN chan : j > 0 => j - 0 \in DOMAIN rest /\ rest[j - 0] = chan[j]
        BY <1>1, <2>1
      <3> QED BY <3>1
    <2>2. CASE chan # <<>> /\ ~At(1, "Clear") /\ rest = Tail(chan)
      <3>1. /\ \A i \in DOMAIN rest : i + 1 \in DOMAIN chan /\ rest[i] = chan[i + 1] /\ i \in Int
            /\ \A j \in DOMAIN chan : j > 1 => j - 1 \in DOMAIN rest /\ rest[j - 1] = chan[j]
        BY <1>1, <2>2
      <3> QED BY <2>2, <3>1
    <2> QED BY <2>1, <2>2
  <1>4. PICK k \in {0, 1} :
          /\ \A i \in DOMAIN rest : i + k \in DOMAIN chan /\ rest[i] = chan[i + k] /\ i \in Int
          /\ \A j \in DOMAIN chan : j > k => j - k \in DOMAIN rest /\ rest[j - k] = chan[j]
          /\ k = 1 => ~At(1, "Clear")
    BY <1>3
  <1>5. ASSUME NEW j \in DOMAIN chan, At(j, "Clear") PROVE j > k /\ j \in Int
    BY <1>1, <1>4, <1>5
  <1>6. ClearFollows'
    <2> SUFFICES ASSUME running', NEW i \in DOMAIN rest, rest[i].op = "Enqueue",
                        rest[i].turn \in abandoned
                 PROVE  \E j \in DOMAIN rest : i < j /\ rest[j].op = "Clear"
      BY <1>2 DEF ClearFollows, At
    <2>1. PICK j \in DOMAIN chan : i + k < j /\ At(j, "Clear")
      BY <1>4 DEF ClearInv, ClearFollows, At
    <2>2. j - k \in DOMAIN rest /\ rest[j - k] = chan[j] /\ i < j - k
      BY <1>4, <1>5, <2>1
    <2> QED BY <2>1, <2>2 DEF At
  <1>7. ClearIsFinal'
    <2>1. SUFFICES ASSUME running', \A i \in DOMAIN rest : rest[i].op # "Clear"
                   PROVE  \A t \in abandoned : Leaving(t)'
      BY <1>2 DEF ClearIsFinal, Leaving
    <2>2. \A j \in DOMAIN chan : ~At(j, "Clear")
      BY <1>4, <1>5, <2>1 DEF At
    <2> QED BY <2>1, <2>2 DEF ClearInv, ClearIsFinal, Leaving, At
  <1> QED BY <1>6, <1>7 DEF ClearInv

\* Another thread sends a command that enqueues no abandoned turn, or none.
LEMMA SendClear ==
  ASSUME TypeOK, ClearInv, KeepsLeaving, UNCHANGED running,
         chan' = chan \/ \E c : /\ c.op = "Enqueue" => c.turn \notin abandoned
                                /\ Send(c)
  PROVE  ClearInv'
  <1>1. CASE chan' = chan
    BY <1>1 DEF ClearInv, ClearFollows, ClearIsFinal, KeepsLeaving, Leaving, At
  <1>2. ASSUME NEW c, c.op = "Enqueue" => c.turn \notin abandoned, chan' = Append(chan, c)
        PROVE  ClearInv'
    <2>1. /\ \A i \in DOMAIN chan' : (i \in DOMAIN chan /\ chan'[i] = chan[i]) \/ chan'[i] = c
          /\ \A i \in DOMAIN chan : i \in DOMAIN chan' /\ chan'[i] = chan[i]
      BY <1>2 DEF TypeOK
    <2>2. ClearFollows'
      BY <1>2, <2>1 DEF ClearInv, ClearFollows, KeepsLeaving, At
    <2>3. ClearIsFinal'
      BY <2>1 DEF ClearInv, ClearIsFinal, KeepsLeaving, Leaving
    <2> QED BY <2>2, <2>3 DEF ClearInv, KeepsLeaving
  <1> QED BY <1>1, <1>2 DEF Send

\* The next turn to start was waiting, so it was not abandoned.
LEMMA SettleActiveLeaving ==
  ASSUME TypeOK, CancelInv, NEW t \in Active, NEW k, NEW lost, SettleActive(t, k, lost)
  PROVE  KeepsLeaving
  <1>1. /\ abandoned' = abandoned
        /\ cancelling' = (IF cancelling = t THEN None ELSE cancelling)
        /\ told' = [u \in Turn |->
                      IF u = t THEN "over"
                      ELSE IF u \in (IF IsShuttingDown THEN {} ELSE FirstPending)
                           THEN "running" ELSE told[u]]
        /\ phase' = [u \in Turn |->
                       IF u = t THEN "settled"
                       ELSE IF u \in (IF IsShuttingDown THEN {} ELSE FirstPending)
                            THEN "active" ELSE phase[u]]
    BY DEF SettleActive
  <1>2. FirstPending \subseteq Pending /\ abandoned \subseteq Turn
    BY DEF FirstPending, TypeOK
  <1>3. ASSUME NEW u \in abandoned, Leaving(u) PROVE Leaving(u)'
    <2>1. u \notin Pending /\ (phase[u] = "active" => u = t)
      BY <1>2, <1>3 DEF Leaving, Pending, CancelInv, OneActive, Active
    <2> QED BY <1>1, <1>2, <1>3, <2>1 DEF Leaving
  <1>4. \A u \in abandoned : told[u] # "unsent" => told'[u] # "unsent"
    BY <1>1, <1>2
  <1> QED BY <1>1, <1>3, <1>4 DEF KeepsLeaving

\* An abandoned turn is enqueued only while its clear is still behind it.
LEMMA EnqueueClear ==
  ASSUME TypeOK, CancelInv, ClearInv, NEW fault \in EnqueueFault, Enqueue(fault)
  PROVE  ClearInv'
  <1> DEFINE t == Head(chan).turn
  <1>1. /\ chan # <<>> /\ 1 \in DOMAIN chan /\ Head(chan) = chan[1] /\ Head(chan) \in Command
        /\ At(1, "Enqueue") /\ running /\ Return(Tail(chan)) /\ abandoned' = abandoned
        /\ cancelling' = cancelling
    BY ReceiveType DEF Enqueue, Receive, TypeOK, At
  <1>2. t \in Turn
    BY <1>1, CommandFields DEF At
  <1>3. \A u \in Turn : u # t => phase'[u] = phase[u] /\ told'[u] = told[u]
    BY <1>2 DEF Enqueue, Tell, TypeOK, TranscriptType, ViewType
  <1>4. told'[t] # "unsent"
    BY <1>2 DEF Enqueue, Tell, TypeOK, ViewType
  <1>5. t \in abandoned => \E j \in DOMAIN chan : At(j, "Clear")
    BY <1>1 DEF ClearInv, ClearFollows
  <1>6. abandoned \subseteq Turn
    BY DEF TypeOK
  <1> HIDE DEF t
  <1>7. (\A i \in DOMAIN chan : ~At(i, "Clear")) =>
           \A u \in abandoned : Leaving(u) => Leaving(u)'
    BY <1>1, <1>3, <1>5, <1>6 DEF Leaving
  <1> QED BY <1>1, <1>3, <1>4, <1>6, <1>7, ReturnClear DEF At

\* A clear leaves the active turn alone in the queue, cancelling.
LEMMA ClearClear ==
  ASSUME TypeOK, CancelInv, ClearInv, NEW logged, Clear(logged)
  PROVE  ClearInv'
  <1>1. /\ chan # <<>> /\ running /\ Return(Tail(chan)) /\ At(1, "Clear")
        /\ UNCHANGED <<told, abandoned>> /\ abandoned \subseteq Turn
        /\ phase' = [t \in Turn |-> IF t \in Active THEN phase[t] ELSE "absent"]
    BY DEF Clear, Receive, KeptByClear, TypeOK, At, view
  <1>2. \A t \in abandoned : Leaving(t)'
    <2>1. Active = {} \/ cancelling' \in Active
      BY DEF Clear
    <2> QED BY <1>1, <2>1 DEF Leaving, Active, CancelInv, OneActive
  <1>3. ClearFollows'
    <2> SUFFICES ASSUME running', NEW i \in DOMAIN chan', At(i, "Enqueue")',
                        chan'[i].turn \in abandoned
                 PROVE  \E j \in DOMAIN chan' : i < j /\ At(j, "Clear")'
      BY <1>1 DEF ClearFollows
    <2>1. /\ i + 1 \in DOMAIN chan /\ chan'[i] = chan[i + 1] /\ i \in Int
          /\ \A j \in DOMAIN chan : j > 1 => j - 1 \in DOMAIN chan' /\ chan'[j - 1] = chan[j]
      BY <1>1 DEF Return, TypeOK
    <2>2. PICK j \in DOMAIN chan : i + 1 < j /\ At(j, "Clear")
      BY <1>1, <2>1 DEF ClearInv, ClearFollows, At
    <2>3. j - 1 \in DOMAIN chan' /\ chan'[j - 1] = chan[j] /\ i < j - 1
      BY <2>1, <2>2 DEF TypeOK
    <2> QED BY <2>2, <2>3 DEF At
  <1> QED BY <1>1, <1>2, <1>3 DEF ClearInv, ClearIsFinal, Leaving

LEMMA CoordinatorClear ==
  ASSUME TypeOK, CancelInv, ClearInv, Coordinator
  PROVE  ClearInv'
  <1> DEFINE Passes == /\ running /\ KeepsLeaving
                       /\ \/ Return(chan)
                          \/ chan # <<>> /\ ~At(1, "Clear") /\ Return(Tail(chan))
  <1>1. Passes => ClearInv'
    BY ReturnClear DEF KeepsLeaving
  <1>2. ASSUME NEW op, op # "Clear", Receive(op), Return(Tail(chan)), KeepsLeaving
        PROVE  Passes
    BY <1>2 DEF Receive, TypeOK, At
  <1>3. ASSUME UNCHANGED <<phase, cancelling, told, abandoned>> PROVE KeepsLeaving
    BY <1>3 DEF KeepsLeaving, Leaving
  <1> HIDE DEF Passes
  <1>4. ASSUME EnqueueIgnored \/ SettleStale \/ CompactedReported \/ CompactionStatus
                 \/ QueryStatus \/ (\E lost : SetSessionSummary(lost))
        PROVE  ClearInv'
    <2>1. UNCHANGED <<phase, cancelling, told, abandoned>> /\ Return(Tail(chan))
      BY <1>4 DEF EnqueueIgnored, SettleStale, CompactedReported, CompactionStatus,
         QueryStatus, SetSessionSummary, transcript, loop, view
    <2>2. \E op \in {"Enqueue", "Settle", "Compacted", "CompactionStatus", "QueryStatus",
                     "SetSessionSummary"} : Receive(op)
      BY <1>4 DEF EnqueueIgnored, SettleStale, CompactedReported, CompactionStatus,
         QueryStatus, SetSessionSummary
    <2> QED BY <1>1, <1>2, <1>3, <2>1, <2>2
  <1>5. ASSUME Delta PROVE ClearInv'
    <2>1. UNCHANGED <<phase, cancelling, abandoned>> /\ Receive("Delta") /\ Return(Tail(chan))
      BY <1>5 DEF Delta, transcript, loop
    <2>2. \A t \in Turn : told[t] # "unsent" => told'[t] # "unsent"
      BY <1>5 DEF Delta, TypeOK, ViewType
    <2>3. KeepsLeaving
      BY <2>1, <2>2 DEF KeepsLeaving, Leaving, TypeOK
    <2> QED BY <1>1, <1>2, <2>1, <2>3
  <1>6. ASSUME NEW t \in Turn, StartWorker(t) PROVE ClearInv'
    <2>1. UNCHANGED <<phase, cancelling, told, abandoned>> /\ running /\ Return(chan)
      BY <1>6 DEF StartWorker, transcript, view
    <2> QED BY <1>1, <1>3, <2>1 DEF Passes
  <1>7. ASSUME NEW t \in Turn, NEW lost, Unconfigured(t, lost) PROVE ClearInv'
    <2>1. t \in Active /\ running /\ Return(chan)
      BY <1>7, ConversationAssumption DEF Unconfigured, CancelInv, AboutActive
    <2> QED BY <1>1, <1>7, <2>1, SettleActiveLeaving DEF Unconfigured, Passes
  <1>8. ASSUME NEW lost, Settle(lost) PROVE ClearInv'
    BY <1>1, <1>2, <1>8, SettleActiveLeaving DEF Settle
  <1>9. ASSUME Cancel PROVE ClearInv'
    <2>1. /\ UNCHANGED <<phase, told, abandoned>> /\ Receive("Cancel") /\ Return(Tail(chan))
          /\ cancelling' = cancelling \/ cancelling' \in Active
      BY <1>9 DEF Cancel, transcript, view
    <2>2. KeepsLeaving
      BY <2>1 DEF KeepsLeaving, Leaving, CancelInv, OneActive, Active, TypeOK
    <2> QED BY <1>1, <1>2, <2>1, <2>2
  <1>10. ASSUME NEW lost, Stop(lost) PROVE ClearInv'
    <2>1. /\ UNCHANGED abandoned /\ Receive("Stop") /\ Return(Tail(chan))
          /\ cancelling' = cancelling \/ cancelling' \in Active
          /\ phase' = [t \in Turn |-> IF t \in Pending THEN "absent" ELSE phase[t]]
          /\ told' = [t \in Turn |-> IF t \in Pending THEN "removed" ELSE told[t]]
      BY <1>10 DEF Stop
    <2>2. KeepsLeaving
      BY <2>1 DEF KeepsLeaving, Leaving, CancelInv, OneActive, Active, TypeOK
    <2> QED BY <1>1, <1>2, <2>1, <2>2
  <1>11. ASSUME ResumeSession \/ Shutdown PROVE ClearInv'
    <2>1. /\ UNCHANGED <<cancelling, told, abandoned>> /\ Return(Tail(chan))
          /\ \A t \in Turn : phase'[t] \in {phase[t], "absent", "settled"}
          /\ \E op \in {"ResumeSession", "Shutdown"} : Receive(op)
      BY <1>11 DEF ResumeSession, Shutdown, view
    <2>2. KeepsLeaving
      BY <2>1 DEF KeepsLeaving, Leaving, TypeOK
    <2> QED BY <1>1, <1>2, <2>1, <2>2
  <1> QED
    BY <1>4, <1>5, <1>6, <1>7, <1>8, <1>9, <1>10, <1>11, EnqueueClear, ClearClear
    DEF Coordinator, StartActive

LEMMA ThreadClear ==
  ASSUME TypeOK, ClearInv,
         (\E t \in Turn : Worker(t)) \/ (\E j \in titling : TitleThread(j)) \/ ShutdownAndJoin
  PROVE  ClearInv'
  <1>1. UNCHANGED <<phase, cancelling, told, abandoned, running>>
    BY DEF Worker, TitleThread, ShutdownAndJoin, transcript, loop, closing, view
  <1>2. chan' = chan \/ \E c : c.op # "Enqueue" /\ Send(c)
    BY DEF Worker, CallProvider, StartFolding, StopFolding, ReportCompaction, Stream,
       Complete, NoticeCancel, Fail, End, EndThread, TitleThread, ShutdownAndJoin, RaiseFlag,
       SendShutdown, Join
  <1> QED BY <1>1, <1>2, SendClear DEF KeepsLeaving, Leaving

LEMMA ServeClear ==
  ASSUME TypeOK, ClearInv, Serve
  PROVE  ClearInv'
  <1>1. UNCHANGED <<phase, cancelling, running>>
    BY DEF Serve, transcript, loop, closing
  <1>2. ASSUME NEW t \in Turn, NEW config \in BOOLEAN, Submit(t, config) PROVE ClearInv'
    <2> DEFINE c == [op |-> "Enqueue", turn |-> t, config |-> config]
    <2>1. /\ Send(c) /\ told[t] = "unsent" /\ told' = [told EXCEPT ![t] = "sent"]
          /\ UNCHANGED abandoned /\ c.turn = t
      BY <1>2 DEF Submit
    <2> HIDE DEF c
    <2>2. c.turn \notin abandoned
      BY <2>1 DEF ClearInv
    <2>3. KeepsLeaving
      BY <1>1, <2>1 DEF KeepsLeaving, Leaving, TypeOK, ViewType
    <2> QED BY <1>1, <2>1, <2>2, <2>3, SendClear
  <1>3. ASSUME RequestClear PROVE ClearInv'
    <2> DEFINE c == [op |-> "Clear"]
    <2>1. /\ Send(c) /\ c.op = "Clear" /\ UNCHANGED told
          /\ abandoned' = {t \in Turn : told[t] # "unsent"}
      BY <1>3 DEF RequestClear, view
    <2> HIDE DEF c
    <2>2. CASE ~running
      BY <1>1, <2>1, <2>2 DEF ClearInv, ClearFollows, ClearIsFinal
    <2>3. CASE chan' = Append(chan, c)
      <3>1. /\ Len(chan) + 1 \in DOMAIN chan' /\ chan'[Len(chan) + 1] = c
            /\ \A i \in DOMAIN chan' : i = Len(chan) + 1 \/ i < Len(chan) + 1
        BY <2>3 DEF TypeOK
      <3> QED BY <2>1, <3>1 DEF ClearInv, ClearFollows, ClearIsFinal, At
    <2> QED BY <2>1, <2>2, <2>3 DEF Send
  <1>4. ASSUME \/ \E t \in Turn : RequestCancel(t)
               \/ RequestStop \/ \E s \in Turn : RequestResume(s)
               \/ RefuseResume \/ SendResume \/ ConfirmResume \/ TimeOut
               \/ \E polite \in BOOLEAN : EndOfInput(polite)
        PROVE  ClearInv'
    <2>1. /\ UNCHANGED <<told, abandoned>>
          /\ chan' = chan \/ \E c : c.op # "Enqueue" /\ Send(c)
      BY <1>4 DEF RequestCancel, RequestStop, RequestResume, RefuseResume, SendResume,
         ConfirmResume, TimeOut, EndOfInput, view
    <2> QED BY <1>1, <2>1, SendClear DEF KeepsLeaving, Leaving
  <1> QED BY <1>2, <1>3, <1>4 DEF Serve

LEMMA ClearInvStep ==
  ASSUME TypeOK, CancelInv, ClearInv, [Next]_vars
  PROVE  ClearInv'
  <1>1. CASE UNCHANGED vars
    <2>1. KeepsLeaving /\ UNCHANGED <<running, chan>>
      BY <1>1 DEF KeepsLeaving, Leaving, vars, transcript, loop, closing, view
    <2> QED BY <2>1, SendClear
  <1>2. CASE Restart
    <2>1. /\ chan' = <<>> /\ UNCHANGED <<told, abandoned>> /\ abandoned \subseteq Turn
          /\ phase' = [t \in Turn |-> "absent"]
      BY <1>2 DEF Restart, view, TypeOK
    <2> QED BY <2>1 DEF ClearInv, ClearFollows, ClearIsFinal
  <1> QED BY <1>1, <1>2, CoordinatorClear, ThreadClear, ServeClear DEF Next

\* A clear is final: once it is handled, no turn submitted before it is pending or
\* begins to run, however many were queued or on their way when it was asked for, and
\* the one it finds active can only settle as cancelled (clear and settle of state.rs).
THEOREM ClearedForGood == Spec => []ClearIsFinal
  <1>1. Init => ClearInv
    BY DEF Init, ClearInv, ClearFollows, ClearIsFinal
  <1>2. TypeOK /\ CancelInv /\ ClearInv /\ [Next]_vars => ClearInv'
    BY ClearInvStep
  <1>3. ClearInv => ClearIsFinal
    BY DEF ClearInv
  <1> QED BY <1>1, <1>2, <1>3, TypeCorrect, CancelInvariant, PTL DEF Spec

-----------------------------------------------------------------------------
(* The coordinator and its worker threads *)

\* A settle of turn t is in the channel.
Reported(t) == \E i \in DOMAIN chan : At(i, "Settle") /\ chan[i].turn = t

\* TurnInCharge, of one turn.
InCharge(t) ==
  IF phase[t] = "active" /\ starting # t THEN worker[t] \in Live <=> ~Reported(t)
  ELSE worker[t] = "off"

\* A turn that is still to start has reported nothing.
NotYet(t) ==
  t \in Pending \/ starting = t \/ told[t] \in {"unsent", "sent"} => ~Reported(t)

\* When the loop has stopped there is no turn to wait for.
StoppedIsIdle == ~running => Active = {}

WorkerInv == (\A t \in Turn : InCharge(t) /\ NotYet(t)) /\ StoppedIsIdle

\* What most steps do, for turn t: it is left alone.
Same(t) ==
  /\ t \in Active' <=> t \in Active
  /\ t \in Pending' => t \in Pending
  /\ starting' = t <=> starting = t
  /\ told'[t] \in {"unsent", "sent"} => told[t] \in {"unsent", "sent"}
  /\ worker'[t] = worker[t]
  /\ Reported(t)' <=> Reported(t)

LEMMA SameInCharge ==
  ASSUME TypeOK, NEW t \in Turn, InCharge(t), NotYet(t), Same(t)
  PROVE  InCharge(t)' /\ NotYet(t)'
  <1>1. (phase[t] = "active" <=> t \in Active) /\ (phase'[t] = "active" <=> t \in Active')
    BY DEF Active
  <1>2. InCharge(t)'
    BY <1>1 DEF InCharge, Same
  <1> QED BY <1>2 DEF NotYet, Same

-----------------------------------------------------------------------------
(* The channel *)

\* What a handler does to the settles in the channel.
LEMMA ReturnReports ==
  ASSUME TypeOK, NEW rest, rest = chan \/ (chan # <<>> /\ rest = Tail(chan)), Return(rest),
         NEW t
  PROVE  /\ Reported(t)' => Reported(t)
         /\ running' /\ Reported(t) => \/ Reported(t)'
                                       \/ rest # chan /\ At(1, "Settle") /\ chan[1].turn = t
  <1>1. CASE rest = chan
    <2>1. (chan' = chan \/ chan' = <<>>) /\ (running' => chan' = chan)
      BY <1>1 DEF Return
    <2> QED BY <2>1 DEF Reported, At
  <1>2. CASE chan # <<>> /\ rest = Tail(chan)
    <2>1. /\ \A i \in DOMAIN rest : i + 1 \in DOMAIN chan /\ rest[i] = chan[i + 1]
          /\ \A j \in DOMAIN chan : j = 1 \/ (j - 1 \in DOMAIN rest /\ rest[j - 1] = chan[j])
          /\ rest # chan
      BY <1>2 DEF TypeOK
    <2>2. (running' => chan' = rest) /\ (chan' = rest \/ chan' = <<>>)
      BY DEF Return
    <2>3. Reported(t)' => Reported(t)
      BY <2>1, <2>2 DEF Reported, At
    <2>4. ASSUME running', Reported(t)
          PROVE  Reported(t)' \/ (rest # chan /\ At(1, "Settle") /\ chan[1].turn = t)
      BY <2>1, <2>2, <2>4 DEF Reported, At
    <2> QED BY <2>3, <2>4
  <1> QED BY <1>1, <1>2

\* What a sender does to them.
LEMMA SendReports ==
  ASSUME TypeOK, NEW c, Send(c), NEW t
  PROVE  /\ Reported(t) => Reported(t)'
         /\ Reported(t)' => Reported(t) \/ (c.op = "Settle" /\ c.turn = t)
         /\ running /\ c.op = "Settle" /\ c.turn = t => Reported(t)'
  <1>1. CASE chan' = chan /\ ~running
    BY <1>1 DEF Reported, At
  <1>2. CASE chan' = Append(chan, c)
    <2>1. /\ \A i \in DOMAIN chan' : (i \in DOMAIN chan /\ chan'[i] = chan[i]) \/ chan'[i] = c
          /\ \A i \in DOMAIN chan : i \in DOMAIN chan' /\ chan'[i] = chan[i]
          /\ Len(chan) + 1 \in DOMAIN chan' /\ chan'[Len(chan) + 1] = c
      BY <1>2 DEF TypeOK
    <2> QED BY <2>1 DEF Reported, At
  <1> QED BY <1>1, <1>2 DEF Send

\* When the loop stops after a handler no turn is active.
LEMMA ReturnStops ==
  ASSUME TypeOK, TypeOK', NEW rest, Return(rest)
  PROVE  StoppedIsIdle'
  BY DEF Return, LoopStops, StoppedIsIdle, Active

-----------------------------------------------------------------------------
(* The handlers that start and end no turn *)

\* The threads stay, no turn begins to wait or to run or stops running, and the settle
\* taken from the channel, if any, is of a turn that is not active.
Undisturbed ==
  /\ Active' = Active /\ Pending' \subseteq Pending
  /\ UNCHANGED <<worker, starting>>
  /\ \A t \in Turn : told'[t] \in {"unsent", "sent"} => told[t] \in {"unsent", "sent"}

\* The settle of a turn that is not active means nothing to its thread.
LEMMA UndisturbedHandler ==
  ASSUME TypeOK, TypeOK', WorkerInv, Undisturbed, running,
         NEW rest, rest = chan \/ (chan # <<>> /\ rest = Tail(chan)), Return(rest),
         rest # chan /\ At(1, "Settle") => chan[1].turn \notin Active
  PROVE  WorkerInv'
  <1>1. ASSUME NEW t \in Turn PROVE InCharge(t)' /\ NotYet(t)'
    <2>1. /\ Reported(t)' => Reported(t)
          /\ running' /\ Reported(t) => \/ Reported(t)'
                                        \/ rest # chan /\ At(1, "Settle") /\ chan[1].turn = t
      BY ReturnReports
    <2>2. NotYet(t)'
      BY <2>1 DEF WorkerInv, NotYet, Undisturbed
    <2>3. t \in Active => (Reported(t)' <=> Reported(t))
      <3> SUFFICES ASSUME t \in Active, Reported(t) PROVE Reported(t)'
        BY <2>1
      <3>1. running'
        BY ReturnStops DEF StoppedIsIdle, Undisturbed
      <3> QED BY <2>1, <3>1
    <2>4. (phase[t] = "active" <=> t \in Active) /\ (phase'[t] = "active" <=> t \in Active)
      BY DEF Active, Undisturbed
    <2>5. InCharge(t)'
      BY <2>3, <2>4 DEF WorkerInv, InCharge, Undisturbed
    <2> QED BY <2>2, <2>5
  <1> QED BY <1>1, ReturnStops DEF WorkerInv

LEMMA QuietHandlers ==
  ASSUME TypeOK, TypeOK', WorkerInv,
         \/ EnqueueIgnored \/ SettleStale \/ Delta \/ CompactedReported \/ CompactionStatus
         \/ (\E lost : SetSessionSummary(lost)) \/ Cancel \/ QueryStatus \/ Shutdown
         \/ (\E lost : Stop(lost)) \/ (\E logged : Clear(logged))
  PROVE  WorkerInv'
  <1> DEFINE Passes == /\ Undisturbed /\ running /\ chan # <<>> /\ Return(Tail(chan))
                       /\ At(1, "Settle") => chan[1].turn \notin Active
  <1>1. ASSUME NEW op, Receive(op), op # "Settle"
        PROVE  running /\ chan # <<>> /\ ~At(1, "Settle")
    BY <1>1 DEF Receive, TypeOK, At
  <1>2. ASSUME SettleStale PROVE Passes
    BY <1>2 DEF SettleStale, Receive, Undisturbed, transcript, loop, workers, view, Pending,
       Active, TypeOK
  <1>3. ASSUME Delta PROVE Passes
    <2>1. /\ UNCHANGED <<phase, worker, starting>> /\ Receive("Delta") /\ Return(Tail(chan))
          /\ \A t \in Turn : told'[t] \in {"unsent", "sent"} => told[t] \in {"unsent", "sent"}
      BY <1>3 DEF Delta, transcript, loop, workers, TypeOK, ViewType
    <2> QED BY <1>1, <2>1 DEF Undisturbed, Pending, Active
  <1>4. ASSUME EnqueueIgnored \/ CompactedReported \/ CompactionStatus \/ QueryStatus
                 \/ Cancel \/ \E lost : SetSessionSummary(lost)
        PROVE  Passes
    <2>1. UNCHANGED <<phase, worker, starting, told>> /\ Return(Tail(chan))
      BY <1>4 DEF EnqueueIgnored, CompactedReported, CompactionStatus, QueryStatus, Cancel,
         SetSessionSummary, transcript, loop, workers, view
    <2>2. \E op \in {"Enqueue", "Compacted", "CompactionStatus", "QueryStatus", "Cancel",
                     "SetSessionSummary"} : Receive(op)
      BY <1>4 DEF EnqueueIgnored, CompactedReported, CompactionStatus, QueryStatus, Cancel,
         SetSessionSummary
    <2> QED BY <1>1, <2>1, <2>2 DEF Undisturbed, Pending, Active
  <1>5. ASSUME NEW lost, Stop(lost) PROVE Passes
    <2>1. /\ UNCHANGED <<worker, starting>> /\ Receive("Stop") /\ Return(Tail(chan))
          /\ phase' = [t \in Turn |-> IF t \in Pending THEN "absent" ELSE phase[t]]
          /\ told' = [t \in Turn |-> IF t \in Pending THEN "removed" ELSE told[t]]
      BY <1>5 DEF Stop
    <2> QED BY <1>1, <2>1 DEF Undisturbed, Pending, Active
  <1>6. ASSUME NEW logged, Clear(logged) PROVE Passes
    <2>1. /\ UNCHANGED <<worker, starting, told>> /\ Receive("Clear") /\ Return(Tail(chan))
          /\ phase' = [t \in Turn |-> IF t \in Active THEN phase[t] ELSE "absent"]
      BY <1>6 DEF Clear, KeptByClear, view
    <2> QED BY <1>1, <2>1 DEF Undisturbed, Pending, Active
  <1>7. ASSUME Shutdown PROVE Passes
    <2>1. /\ UNCHANGED <<worker, starting, told>> /\ Receive("Shutdown")
          /\ Return(Tail(chan))
          /\ phase' = [t \in Turn |-> IF t \in Pending THEN "absent" ELSE phase[t]]
      BY <1>7 DEF Shutdown, workers, view
    <2> QED BY <1>1, <2>1 DEF Undisturbed, Pending, Active
  <1> HIDE DEF Passes
  <1>8. Passes
    BY <1>2, <1>3, <1>4, <1>5, <1>6, <1>7
  <1> QED BY <1>8, UndisturbedHandler DEF Passes

-----------------------------------------------------------------------------
(* The life of a turn *)

\* The end of the active turn t: its thread is over, and the next turn that starts, u,
\* has none yet.
LEMMA SettleActiveWorker ==
  ASSUME TypeOK, TypeOK', CancelInv, WorkerInv, running,
         NEW t \in Active, NEW k, NEW lost, SettleActive(t, k, lost), UNCHANGED worker,
         NEW rest, rest = chan \/ (chan # <<>> /\ rest = Tail(chan)), Return(rest),
         rest # chan /\ At(1, "Settle") => chan[1].turn = t
  PROVE  WorkerInv'
  <1> DEFINE next == IF IsShuttingDown THEN {} ELSE FirstPending
  <1>1. /\ worker[t] = "off" /\ ((next = {} /\ starting' = None) \/ starting' \in next)
        /\ told' = [u \in Turn |-> IF u = t THEN "over"
                                   ELSE IF u \in next THEN "running" ELSE told[u]]
        /\ phase' = [u \in Turn |-> IF u = t THEN "settled"
                                    ELSE IF u \in next THEN "active" ELSE phase[u]]
    BY DEF SettleActive
  <1>2. next \subseteq Pending /\ t \notin Pending /\ t \in Turn
    BY DEF FirstPending, Pending, Active
  <1>3. \A u, v \in next : u = v
    <2>1. \A u \in Turn : seq[u] \in Int
      BY DEF TypeOK, TranscriptType, SeqNo
    <2>2. \A u, v \in FirstPending : seq[u] = seq[v]
      BY <2>1 DEF FirstPending, Pending
    <2> QED BY <2>2 DEF FirstPending, CancelInv, QueueOrder, Unsettled
  <1>4. Active = {t} /\ None \notin Turn
    BY ConversationAssumption DEF CancelInv, OneActive
  <1> HIDE DEF next
  <1>5. ASSUME NEW u \in Turn PROVE InCharge(u)' /\ NotYet(u)'
    <2>1. Reported(u)' => Reported(u)
      BY ReturnReports
    <2>2. ~(phase'[u] = "active" /\ starting' # u)
      BY <1>1, <1>2, <1>3, <1>4 DEF Active
    <2>3. worker[u] = "off"
      BY <1>1, <1>4 DEF WorkerInv, InCharge, Active
    <2>4. NotYet(u)'
      <3>1. u \in Pending' => u \in Pending
        BY <1>1 DEF Pending
      <3>2. starting' = u => u \in Pending
        BY <1>1, <1>2, <1>4
      <3>3. told'[u] \in {"unsent", "sent"} => told[u] \in {"unsent", "sent"}
        BY <1>1
      <3> QED BY <2>1, <3>1, <3>2, <3>3 DEF WorkerInv, NotYet
    <2> QED BY <2>2, <2>3, <2>4 DEF InCharge
  <1> QED BY <1>5, ReturnStops DEF WorkerInv

LEMMA SettleWorker ==
  ASSUME TypeOK, TypeOK', CancelInv, WorkerInv, NEW lost, Settle(lost)
  PROVE  WorkerInv'
  <1>1. /\ running /\ chan # <<>> /\ Return(Tail(chan)) /\ UNCHANGED worker
        /\ Head(chan) = chan[1]
    BY DEF Settle, Receive, workers, TypeOK
  <1> QED BY <1>1, SettleActiveWorker DEF Settle

LEMMA UnconfiguredWorker ==
  ASSUME TypeOK, TypeOK', CancelInv, WorkerInv, NEW t \in Turn, NEW lost, Unconfigured(t, lost)
  PROVE  WorkerInv'
  <1>1. t \in Active /\ running /\ Return(chan) /\ UNCHANGED worker
    BY ConversationAssumption DEF Unconfigured, CancelInv, AboutActive, workers
  <1> QED BY <1>1, SettleActiveWorker DEF Unconfigured

\* The thread is spawned: it has reported nothing yet.
LEMMA StartWorkerWorker ==
  ASSUME TypeOK, TypeOK', CancelInv, WorkerInv, NEW t \in Turn, StartWorker(t)
  PROVE  WorkerInv'
  <1>1. /\ t \in Active /\ starting = t /\ starting' = None /\ Return(chan)
        /\ UNCHANGED <<phase, told>> /\ worker' = [worker EXCEPT ![t] = "started"]
    BY ConversationAssumption DEF StartWorker, CancelInv, AboutActive, transcript, view
  <1>2. None \notin Turn /\ "started" \in Live
    BY ConversationAssumption DEF Live
  <1>3. running'
    BY <1>1 DEF Return, LoopStops, Active
  <1>4. ASSUME NEW u \in Turn PROVE InCharge(u)' /\ NotYet(u)'
    <2>1. Reported(u)' <=> Reported(u)
      BY <1>1, <1>3, ReturnReports
    <2>2. NotYet(u)'
      BY <1>1, <1>2, <2>1 DEF WorkerInv, NotYet, Pending
    <2>3. CASE u = t
      BY <1>1, <1>2, <2>1, <2>3 DEF WorkerInv, NotYet, InCharge, Active, TypeOK, WorkersType
    <2>4. CASE u # t
      <3>1. /\ worker'[u] = worker[u] /\ phase'[u] = phase[u]
            /\ starting # u /\ starting' # u
        BY <1>1, <1>2, <2>4 DEF TypeOK, WorkersType
      <3>2. InCharge(u)'
        BY <2>1, <3>1 DEF WorkerInv, InCharge
      <3> QED BY <2>2, <3>2
    <2> QED BY <2>2, <2>3, <2>4
  <1> QED BY <1>3, <1>4 DEF WorkerInv, StoppedIsIdle

\* A turn enters the queue with no thread and nothing reported, as starting if active.
LEMMA EnqueueWorker ==
  ASSUME TypeOK, TypeOK', CancelInv, WorkerInv, NEW fault \in EnqueueFault, Enqueue(fault)
  PROVE  WorkerInv'
  <1> DEFINE t == Head(chan).turn
  <1>1. /\ chan # <<>> /\ 1 \in DOMAIN chan /\ Head(chan) = chan[1] /\ Head(chan) \in Command
        /\ At(1, "Enqueue") /\ running /\ Return(Tail(chan)) /\ starting = None
    BY ReceiveType DEF Enqueue, Receive, TypeOK, At
  <1>2. t \in Turn /\ told[t] = "sent" /\ t \notin Unsettled
    BY <1>1, CommandFields DEF CancelInv, EnqueuedOnce, Fresh, At
  <1>3. /\ UNCHANGED worker
        /\ \A u \in Turn : u # t => phase'[u] = phase[u] /\ told'[u] = told[u]
        /\ (starting' = None /\ phase'[t] # "active") \/ starting' = t
    <2>1. UNCHANGED worker
      BY DEF Enqueue, workers
    <2>2. \A u \in Turn : u # t => phase'[u] = phase[u] /\ told'[u] = told[u]
      BY <1>2 DEF Enqueue, Tell, TypeOK, TranscriptType, ViewType
    <2>3. (starting' = None /\ phase'[t] # "active") \/ starting' = t
      BY <1>2 DEF Enqueue, StartsAtOnce, Unsettled, Active, TypeOK, TranscriptType
    <2> QED BY <2>1, <2>2, <2>3
  <1>4. worker[t] = "off" /\ ~Reported(t)
    BY <1>2 DEF WorkerInv, InCharge, NotYet, Unsettled, Active
  <1>5. None \notin Turn
    BY ConversationAssumption
  <1> HIDE DEF t
  <1>6. ASSUME NEW u \in Turn PROVE InCharge(u)' /\ NotYet(u)'
    <2>1. /\ Reported(u)' => Reported(u)
          /\ running' /\ Reported(u) => Reported(u)'
      BY <1>1, ReturnReports DEF At
    <2>2. CASE u = t
      BY <1>3, <1>4, <2>1, <2>2 DEF InCharge, NotYet
    <2>3. CASE u # t
      <3>1. NotYet(u)'
        BY <1>3, <1>5, <2>1, <2>3 DEF WorkerInv, NotYet, Pending
      <3>2. phase[u] = "active" => running'
        BY <1>1, <1>3, <2>3, ReturnStops DEF StoppedIsIdle, Active
      <3>3. /\ worker'[u] = worker[u] /\ phase'[u] = phase[u]
            /\ starting # u /\ starting' # u
        BY <1>1, <1>3, <1>5, <2>3
      <3>4. InCharge(u)'
        BY <2>1, <3>2, <3>3 DEF WorkerInv, InCharge
      <3> QED BY <3>1, <3>4
    <2> QED BY <2>2, <2>3
  <1> QED BY <1>1, <1>6, ReturnStops DEF WorkerInv

\* A session is attached when no turn is active, so no thread lives.
LEMMA ResumeSessionWorker ==
  ASSUME TypeOK, TypeOK', CancelInv, WorkerInv, ResumeOnlyWhenIdle, ResumeSession
  PROVE  WorkerInv'
  <1>1. /\ chan # <<>> /\ Return(Tail(chan)) /\ Unsettled = {}
        /\ UNCHANGED <<worker, starting, told>>
    BY DEF ResumeSession, Receive, ResumeOnlyWhenIdle, workers, view
  <1>2. Active' = {} /\ Pending' = {}
    BY DEF ResumeSession, Active, Pending
  <1>3. ASSUME NEW u \in Turn PROVE InCharge(u)' /\ NotYet(u)'
    <2>1. Reported(u)' => Reported(u)
      BY <1>1, ReturnReports
    <2>2. phase[u] # "active" /\ phase'[u] # "active" /\ u \notin Pending'
      BY <1>1, <1>2 DEF Unsettled, Active, Pending
    <2> QED BY <1>1, <2>1, <2>2 DEF WorkerInv, InCharge, NotYet
  <1> QED BY <1>1, <1>3, ReturnStops DEF WorkerInv

LEMMA CoordinatorWorker ==
  ASSUME TypeOK, TypeOK', CancelInv, WorkerInv, ResumeOnlyWhenIdle, Coordinator
  PROVE  WorkerInv'
  BY QuietHandlers, SettleWorker, UnconfiguredWorker, StartWorkerWorker, EnqueueWorker,
     ResumeSessionWorker
  DEF Coordinator, StartActive

-----------------------------------------------------------------------------
(* The worker itself, and the other threads *)

\* Turns keep their place, and those in S their thread and the settles they sent.
KeepsPlace(S) ==
  /\ UNCHANGED <<phase, starting, running>>
  /\ \A u \in Turn : told'[u] \in {"unsent", "sent"} => told[u] \in {"unsent", "sent"}
  /\ \A u \in S : worker'[u] = worker[u] /\ (Reported(u)' <=> Reported(u))

LEMMA OthersWorker ==
  ASSUME TypeOK, WorkerInv, NEW t \in Turn, KeepsPlace(Turn \ {t}), InCharge(t)', NotYet(t)'
  PROVE  WorkerInv'
  <1>1. ASSUME NEW u \in Turn, u # t PROVE InCharge(u)' /\ NotYet(u)'
    <2>1. Same(u)
      BY <1>1 DEF KeepsPlace, Same, Active, Pending
    <2> QED BY <2>1, SameInCharge DEF WorkerInv
  <1> QED BY <1>1 DEF WorkerInv, StoppedIsIdle, Active, KeepsPlace

LEMMA NobodyWorker ==
  ASSUME TypeOK, WorkerInv, KeepsPlace(Turn)
  PROVE  WorkerInv'
  <1>1. ASSUME NEW u \in Turn PROVE InCharge(u)' /\ NotYet(u)'
    <2>1. Same(u)
      BY DEF KeepsPlace, Same, Active, Pending
    <2> QED BY <2>1, SameInCharge DEF WorkerInv
  <1> QED BY <1>1 DEF WorkerInv, StoppedIsIdle, Active, KeepsPlace

LEMMA WorkerWorker ==
  ASSUME TypeOK, CancelInv, WorkerInv, NEW t \in Turn, Worker(t)
  PROVE  WorkerInv'
  <1>1. /\ UNCHANGED <<phase, starting, running, told>> /\ DOMAIN worker = Turn
    BY DEF Worker, transcript, loop, closing, view, TypeOK, WorkersType
  <1>2. worker[t] # "off" => /\ phase[t] = "active" /\ starting # t /\ running
                             /\ t \notin Pending /\ told[t] \notin {"unsent", "sent"}
    BY DEF WorkerInv, InCharge, StoppedIsIdle, CancelInv, UnsettledIsOpen, Unsettled, Active,
       Pending
  <1>3. \A u \in Turn \ {t} : worker'[u] = worker[u]
    BY <1>1 DEF Worker, CallProvider, StartFolding, StopFolding, ReportCompaction, Stream,
       Complete, NoticeCancel, Fail, End, EndThread
  <1>4. CASE \/ CallProvider(t) \/ StartFolding(t) \/ StopFolding(t) \/ ReportCompaction(t)
             \/ Stream(t)
    <2>1. worker[t] \in Live /\ worker'[t] \in Live
      BY <1>1, <1>4 DEF CallProvider, StartFolding, StopFolding, ReportCompaction, Stream, Live
    <2>2. chan' = chan \/ \E c : c.op # "Settle" /\ Send(c)
      BY <1>4 DEF CallProvider, StartFolding, StopFolding, ReportCompaction, Stream
    <2>3. \A u \in Turn : Reported(u)' <=> Reported(u)
      BY <2>2, SendReports DEF Reported, At
    <2>4. InCharge(t)' /\ NotYet(t)'
      <3>1. worker[t] # "off"
        BY <2>1 DEF Live
      <3>2. ~Reported(t)
        BY <1>2, <2>1, <3>1 DEF WorkerInv, InCharge
      <3>3. InCharge(t)'
        BY <1>1, <1>2, <2>1, <2>3, <3>1, <3>2 DEF InCharge
      <3>4. NotYet(t)'
        BY <2>3, <3>2 DEF NotYet
      <3> QED BY <3>3, <3>4
    <2> QED BY <1>1, <1>3, <2>3, <2>4, OthersWorker DEF KeepsPlace
  <1>5. ASSUME NEW kind, worker[t] \in Live, End(t, kind) PROVE WorkerInv'
    <2> DEFINE c == [op |-> "Settle", turn |-> t, kind |-> kind]
    <2>1. Send(c) /\ c.op = "Settle" /\ c.turn = t /\ worker'[t] = "ending"
      BY <1>1, <1>5 DEF End
    <2> HIDE DEF c
    <2>2. worker[t] # "off" /\ "ending" \notin Live
      BY <1>5 DEF Live
    <2>3. Reported(t)' /\ \A u \in Turn \ {t} : Reported(u)' <=> Reported(u)
      BY <1>2, <2>1, <2>2, SendReports
    <2>4. InCharge(t)' /\ NotYet(t)'
      BY <1>1, <1>2, <2>1, <2>2, <2>3 DEF InCharge, NotYet, Pending
    <2> QED BY <1>1, <1>3, <2>3, <2>4, OthersWorker DEF KeepsPlace
  <1>6. CASE EndThread(t)
    <2>1. worker[t] = "ending" /\ worker'[t] = "off" /\ Reported(t)
      BY <1>1, <1>2, <1>6 DEF EndThread, WorkerInv, InCharge, Live
    <2>2. chan' = chan \/ \E c : c.op = "Settle" /\ c.turn = t /\ Send(c)
      BY <1>6 DEF EndThread
    <2>3. Reported(t)' /\ \A u \in Turn \ {t} : Reported(u)' <=> Reported(u)
      BY <2>1, <2>2, SendReports DEF Reported, At
    <2>4. InCharge(t)' /\ NotYet(t)'
      BY <1>1, <1>2, <2>1, <2>3 DEF InCharge, NotYet, Pending, Live
    <2> QED BY <1>1, <1>3, <2>3, <2>4, OthersWorker DEF KeepsPlace
  <1>7. Complete(t) \/ NoticeCancel(t) \/ Fail(t)
          => worker[t] \in Live /\ \E kind : End(t, kind)
    BY DEF Complete, NoticeCancel, Fail, Live
  <1> QED BY <1>4, <1>5, <1>6, <1>7 DEF Worker

LEMMA ServeWorker ==
  ASSUME TypeOK, WorkerInv,
         Serve \/ ShutdownAndJoin \/ \E j \in titling : TitleThread(j)
  PROVE  WorkerInv'
  <1>1. UNCHANGED <<phase, starting, running, worker>>
    BY DEF Serve, ShutdownAndJoin, TitleThread, transcript, loop, closing, workers
  <1>2. chan' = chan \/ \E c : c.op # "Settle" /\ Send(c)
    BY DEF Serve, Submit, RequestCancel, RequestStop, RequestClear, RequestResume, RefuseResume,
       SendResume, ConfirmResume, TimeOut, EndOfInput, ShutdownAndJoin, RaiseFlag,
       SendShutdown, Join, TitleThread
  <1>3. \A u \in Turn : Reported(u)' <=> Reported(u)
    BY <1>2, SendReports DEF Reported, At
  <1>4. \A u \in Turn : told'[u] \in {"unsent", "sent"} => told[u] \in {"unsent", "sent"}
    <2>1. UNCHANGED told \/ \E t \in Turn : /\ told[t] = "unsent"
                                            /\ told' = [told EXCEPT ![t] = "sent"]
      BY DEF Serve, Submit, RequestCancel, RequestStop, RequestClear, RequestResume,
         RefuseResume, SendResume, ConfirmResume, TimeOut, EndOfInput, ShutdownAndJoin,
         TitleThread, view
    <2> QED BY <2>1 DEF TypeOK, ViewType
  <1> QED BY <1>1, <1>3, <1>4, NobodyWorker DEF KeepsPlace

LEMMA WorkerInvStep ==
  ASSUME TypeOK, TypeOK', CancelInv, WorkerInv, ResumeOnlyWhenIdle, [Next]_vars
  PROVE  WorkerInv'
  <1>1. CASE UNCHANGED vars
    <2>1. /\ UNCHANGED <<phase, starting, running, worker, told, chan>>
      BY <1>1 DEF vars, transcript, loop, closing, workers, view
    <2> QED BY <2>1, NobodyWorker DEF KeepsPlace, Reported, At
  <1>2. CASE Restart
    <2>1. /\ phase' = [t \in Turn |-> "absent"] /\ worker' = [t \in Turn |-> "off"]
          /\ chan' = <<>>
      BY <1>2 DEF Restart
    <2> QED BY <2>1 DEF WorkerInv, InCharge, NotYet, StoppedIsIdle, Reported, Active
  <1> QED BY <1>1, <1>2, CoordinatorWorker, WorkerWorker, ServeWorker DEF Next

LEMMA WorkerInvariant == Spec => []WorkerInv
  <1>1. Init => WorkerInv
    BY DEF Init, WorkerInv, InCharge, NotYet, StoppedIsIdle, Reported, Active
  <1>2. TypeOK /\ TypeOK' /\ CancelInv /\ WorkerInv /\ ResumeOnlyWhenIdle /\ [Next]_vars
          => WorkerInv'
    BY WorkerInvStep
  <1> QED BY <1>1, <1>2, TypeCorrect, CancelInvariant, ResumesOnlyWhenIdle, PTL DEF Spec

\* One turn is in charge: the active turn has a live thread or the settle that thread
\* sent, so it always ends and is never settled by a thread that is still at work, and no
\* other turn has one, whatever panics, cancels, clears, attaches and restarts there are
\* (start_active and settle of state.rs, the worker's catch_unwind of chat/turn.rs).
THEOREM OneTurnInCharge == Spec => []TurnInCharge
  <1>1. WorkerInv => TurnInCharge
    BY DEF WorkerInv, InCharge, TurnInCharge, Reported, At
  <1> QED BY <1>1, WorkerInvariant, PTL

-----------------------------------------------------------------------------
(* The compaction hint *)

\* A hint in the channel is of the active turn, which started, and was sent before that
\* turn's end.
HintsInOrder ==
  \A i \in DOMAIN chan : At(i, "CompactionStatus") =>
    /\ chan[i].turn \in Active /\ starting # chan[i].turn
    /\ \A j \in DOMAIN chan : At(j, "Settle") /\ chan[j].turn = chan[i].turn => i < j

\* As long as no process died: a restart of the backend alone takes the turn, and leaves
\* the client the hint.
NoCrash == spent["crash"] = 0

HintInv == HintsInOrder /\ (NoCrash => HintOnlyWhileActive)

-----------------------------------------------------------------------------
(* The channel *)

\* Whatever a handler takes, the hints that remain stay in order.
LEMMA ReturnKeepsHints ==
  ASSUME TypeOK, HintsInOrder, Active \subseteq Active',
         starting' \in {starting, None} \/ starting' \notin Active,
         NEW rest, rest = chan \/ (chan # <<>> /\ rest = Tail(chan)), Return(rest)
  PROVE  HintsInOrder'
  <1>1. chan \in Seq(Command)
    BY DEF TypeOK
  <1>2. PICK k \in Nat : \A i \in DOMAIN chan' :
          i \in Int /\ i + k \in DOMAIN chan /\ chan'[i] = chan[i + k]
    BY <1>1, ReturnShifts
  <1>3. None \notin Active
    BY ConversationAssumption DEF Active
  <1>4. SUFFICES ASSUME NEW i \in DOMAIN chan', At(i, "CompactionStatus")'
                 PROVE  /\ chan'[i].turn \in Active' /\ starting' # chan'[i].turn
                        /\ \A j \in DOMAIN chan' :
                             At(j, "Settle")' /\ chan'[j].turn = chan'[i].turn => i < j
    BY DEF HintsInOrder
  <1>5. i + k \in DOMAIN chan /\ At(i + k, "CompactionStatus") /\ chan'[i] = chan[i + k]
    BY <1>2, <1>4 DEF At
  <1>6. chan'[i].turn \in Active /\ starting # chan'[i].turn
    BY <1>5 DEF HintsInOrder
  <1>7. ASSUME NEW j \in DOMAIN chan', At(j, "Settle")', chan'[j].turn = chan'[i].turn
        PROVE  i < j
    <2>1. j + k \in DOMAIN chan /\ At(j + k, "Settle") /\ chan'[j] = chan[j + k]
      BY <1>2, <1>7 DEF At
    <2>2. i + k < j + k
      BY <1>5, <1>7, <2>1 DEF HintsInOrder
    <2> QED BY <1>2, <2>2
  <1> QED BY <1>3, <1>6, <1>7

\* When there are none, there are none after.
LEMMA ReturnNoHints ==
  ASSUME TypeOK, \A i \in DOMAIN chan : ~At(i, "CompactionStatus"),
         NEW rest, rest = chan \/ (chan # <<>> /\ rest = Tail(chan)), Return(rest)
  PROVE  HintsInOrder'
  <1>1. chan \in Seq(Command)
    BY DEF TypeOK
  <1>2. PICK k \in Nat : \A i \in DOMAIN chan' :
          i \in Int /\ i + k \in DOMAIN chan /\ chan'[i] = chan[i + k]
    BY <1>1, ReturnShifts
  <1> QED BY <1>2 DEF HintsInOrder, At

\* Only a live worker sends a hint, and only one that is at work its end.
LEMMA SendKeepsHints ==
  ASSUME TypeOK, HintsInOrder, UNCHANGED <<phase, starting>>, NEW c, Send(c),
         c.op = "CompactionStatus" => /\ c.turn \in Active /\ starting # c.turn
                                      /\ ~Reported(c.turn)
  PROVE  HintsInOrder'
  <1>1. Active' = Active
    BY DEF Active
  <1>2. CASE chan' = chan
    BY <1>1, <1>2 DEF HintsInOrder, At
  <1>3. CASE chan' = Append(chan, c)
    <2>1. /\ Len(chan) \in Nat /\ DOMAIN chan = 1 .. Len(chan)
          /\ DOMAIN chan' = 1 .. (Len(chan) + 1)
          /\ \A i \in DOMAIN chan : i \in DOMAIN chan' /\ chan'[i] = chan[i]
          /\ chan'[Len(chan) + 1] = c
      BY <1>3 DEF TypeOK
    <2>2. \A i \in DOMAIN chan' : i \in DOMAIN chan \/ i = Len(chan) + 1
      BY <2>1
    <2>3. SUFFICES ASSUME NEW i \in DOMAIN chan', At(i, "CompactionStatus")'
                   PROVE  /\ chan'[i].turn \in Active /\ starting # chan'[i].turn
                          /\ \A j \in DOMAIN chan' :
                               At(j, "Settle")' /\ chan'[j].turn = chan'[i].turn => i < j
      BY <1>1 DEF HintsInOrder
    <2>4. CASE i \in DOMAIN chan
      <3>1. At(i, "CompactionStatus") /\ chan'[i] = chan[i]
        BY <2>1, <2>3, <2>4 DEF At
      <3>2. ASSUME NEW j \in DOMAIN chan', At(j, "Settle")', chan'[j].turn = chan'[i].turn
            PROVE  i < j
        <4>1. CASE j = Len(chan) + 1
          BY <2>1, <2>4, <4>1
        <4>2. CASE j \in DOMAIN chan
          BY <2>1, <2>4, <3>1, <3>2, <4>2 DEF HintsInOrder, At
        <4> QED BY <2>2, <4>1, <4>2
      <3> QED BY <2>4, <3>1, <3>2 DEF HintsInOrder
    <2>5. CASE i = Len(chan) + 1
      <3>1. c.op = "CompactionStatus" /\ chan'[i] = c
        BY <2>1, <2>3, <2>5 DEF At
      <3>2. ASSUME NEW j \in DOMAIN chan', At(j, "Settle")', chan'[j].turn = chan'[i].turn
            PROVE  FALSE
        <4>1. CASE j = Len(chan) + 1
          BY <2>1, <3>1, <3>2, <4>1 DEF At
        <4>2. CASE j \in DOMAIN chan
          BY <2>1, <3>1, <3>2, <4>2 DEF Reported, At
        <4> QED BY <2>2, <4>1, <4>2
      <3> QED BY <3>1, <3>2
    <2> QED BY <2>2, <2>4, <2>5
  <1> QED BY <1>2, <1>3 DEF Send

-----------------------------------------------------------------------------
(* The steps *)

LEMMA SpendsNoCrash ==
  ASSUME TypeOK, NEW what, what # "crash", NEW n, Spend(what, n)
  PROVE  NoCrash' <=> NoCrash
  BY DEF Spend, TypeOK, Counted, NoCrash

LEMMA QuietHandlersHint ==
  ASSUME TypeOK, TypeOK', HintInv,
         \/ EnqueueIgnored \/ SettleStale \/ Delta \/ CompactedReported \/ CompactionStatus
         \/ (\E lost : SetSessionSummary(lost)) \/ Cancel \/ QueryStatus \/ Shutdown
         \/ (\E lost : Stop(lost)) \/ (\E logged : Clear(logged))
  PROVE  HintInv'
  <1>1. UNCHANGED starting /\ chan # <<>> /\ Return(Tail(chan))
    BY DEF EnqueueIgnored, SettleStale, Delta, CompactedReported, CompactionStatus,
       SetSessionSummary, Cancel, QueryStatus, Shutdown, Stop, Clear, loop, Receive
  <1>2. Active' = Active
    <2>1. UNCHANGED phase
            \/ phase' = [t \in Turn |-> IF t \in Pending THEN "absent" ELSE phase[t]]
            \/ phase' = [t \in Turn |-> IF t \in Active THEN phase[t] ELSE "absent"]
      BY DEF EnqueueIgnored, SettleStale, Delta, CompactedReported, CompactionStatus,
         SetSessionSummary, Cancel, QueryStatus, Shutdown, Stop, Clear, transcript, KeptByClear
    <2> QED BY <2>1 DEF Active, Pending
  <1>3. NoCrash' <=> NoCrash
    <2>1. spent' = spent \/ \E n : Spend("fault", n)
      BY DEF EnqueueIgnored, SettleStale, Delta, CompactedReported, CompactionStatus,
         SetSessionSummary, Cancel, QueryStatus, Shutdown, Stop, Clear, OnClear, Failing
    <2> QED BY <2>1, SpendsNoCrash DEF NoCrash
  <1>4. spinner' => spinner \/ Active # {}
    <2>1. CASE CompactionStatus
      <3>1. 1 \in DOMAIN chan /\ At(1, "CompactionStatus")
        BY <2>1 DEF CompactionStatus, Receive, TypeOK, At
      <3> QED BY <3>1 DEF HintInv, HintsInOrder
    <2>2. CASE ~CompactionStatus
      BY <2>2 DEF EnqueueIgnored, SettleStale, Delta, CompactedReported,
         SetSessionSummary, Cancel, QueryStatus, Shutdown, Stop, Clear, view
    <2> QED BY <2>1, <2>2
  <1>5. HintsInOrder'
    BY <1>1, <1>2, ReturnKeepsHints DEF HintInv
  <1> QED BY <1>2, <1>3, <1>4, <1>5 DEF HintInv, HintOnlyWhileActive

\* The client takes a turn's end for the end of its hint; a status that was sent before is
\* received before.
LEMMA SettleActiveHint ==
  ASSUME TypeOK, TypeOK', CancelInv, HintInv,
         NEW t \in Active, NEW k, NEW lost, SettleActive(t, k, lost),
         NEW rest, rest = chan \/ (chan # <<>> /\ rest = Tail(chan)), Return(rest),
         IF rest = chan THEN starting = t ELSE At(1, "Settle") /\ chan[1].turn = t
  PROVE  HintInv'
  <1>1. ~spinner'
    BY DEF SettleActive, HintAfterSettle
  <1>2. ASSUME NEW i \in DOMAIN chan, At(i, "CompactionStatus") PROVE FALSE
    <2>1. /\ chan[i].turn = t /\ starting # t
          /\ \A j \in DOMAIN chan : At(j, "Settle") /\ chan[j].turn = t => i < j
      BY <1>2 DEF HintInv, HintsInOrder, CancelInv, OneActive
    <2>2. 1 \in DOMAIN chan /\ i >= 1 /\ i \in Int
      BY DEF TypeOK
    <2> QED BY <2>1, <2>2
  <1>3. HintsInOrder'
    BY <1>2, ReturnNoHints
  <1> QED BY <1>1, <1>3 DEF HintInv, HintOnlyWhileActive

LEMMA SettleHint ==
  ASSUME TypeOK, TypeOK', CancelInv, HintInv, NEW lost, Settle(lost)
  PROVE  HintInv'
  <1>1. /\ chan # <<>> /\ chan # Tail(chan) /\ Return(Tail(chan))
        /\ Head(chan) = chan[1] /\ At(1, "Settle")
    BY DEF Settle, Receive, TypeOK, At
  <1> QED BY <1>1, SettleActiveHint DEF Settle

LEMMA StartActiveHint ==
  ASSUME TypeOK, TypeOK', CancelInv, HintInv, NEW t \in Turn, StartActive(t)
  PROVE  HintInv'
  <1>1. t \in Active
    BY ConversationAssumption DEF StartActive, StartWorker, Unconfigured, CancelInv, AboutActive
  <1>2. CASE StartWorker(t)
    <2>1. /\ Active' = Active /\ starting' = None /\ spinner' = spinner /\ spent' = spent
          /\ Return(chan)
      BY <1>2 DEF StartWorker, transcript, view, Active
    <2>2. HintsInOrder'
      BY <2>1, ReturnKeepsHints DEF HintInv
    <2> QED BY <2>1, <2>2 DEF HintInv, HintOnlyWhileActive, NoCrash
  <1>3. CASE \E lost : Unconfigured(t, lost)
    <2>1. PICK lost : Unconfigured(t, lost)
      BY <1>3
    <2>2. starting = t /\ SettleActive(t, "needsConfiguration", lost) /\ Return(chan)
      BY <2>1 DEF Unconfigured
    <2> QED BY <1>1, <2>2, SettleActiveHint
  <1> QED BY <1>2, <1>3 DEF StartActive

LEMMA EnqueueHint ==
  ASSUME TypeOK, TypeOK', CancelInv, HintInv, NEW fault \in EnqueueFault, Enqueue(fault)
  PROVE  HintInv'
  <1> DEFINE t == Head(chan).turn
  <1>1. /\ chan # <<>> /\ 1 \in DOMAIN chan /\ Head(chan) = chan[1] /\ Head(chan) \in Command
        /\ At(1, "Enqueue") /\ Return(Tail(chan))
    BY ReceiveType DEF Enqueue, Receive, TypeOK, At
  <1>2. t \in Turn /\ t \notin Active
    BY <1>1, CommandFields DEF CancelInv, EnqueuedOnce, Fresh, At, Unsettled
  <1>3. Active \subseteq Active' /\ starting' \in {t, None}
    BY <1>2 DEF Enqueue, Active, TypeOK, TranscriptType
  <1>4. spinner' => spinner
    BY DEF Enqueue, HintAfterSettle
  <1>5. NoCrash' <=> NoCrash
    BY SpendsNoCrash DEF Enqueue
  <1>6. HintsInOrder'
    BY <1>1, <1>2, <1>3, ReturnKeepsHints DEF HintInv
  <1> QED BY <1>3, <1>4, <1>5, <1>6 DEF HintInv, HintOnlyWhileActive

\* A session is attached when nothing is active, so there is no hint.
LEMMA ResumeSessionHint ==
  ASSUME TypeOK, TypeOK', HintInv, ResumeOnlyWhenIdle, ResumeSession
  PROVE  HintInv'
  <1>1. Active = {} /\ chan # <<>> /\ Return(Tail(chan)) /\ UNCHANGED <<spinner, spent>>
    BY DEF ResumeSession, Receive, ResumeOnlyWhenIdle, view, Unsettled
  <1>2. \A i \in DOMAIN chan : ~At(i, "CompactionStatus")
    BY <1>1 DEF HintInv, HintsInOrder
  <1>3. HintsInOrder'
    BY <1>1, <1>2, ReturnNoHints
  <1> QED BY <1>1, <1>3 DEF HintInv, HintOnlyWhileActive, NoCrash

LEMMA CoordinatorHint ==
  ASSUME TypeOK, TypeOK', CancelInv, HintInv, ResumeOnlyWhenIdle, Coordinator
  PROVE  HintInv'
  BY QuietHandlersHint, SettleHint, StartActiveHint, EnqueueHint, ResumeSessionHint
  DEF Coordinator

\* The other threads only send.
LEMMA SenderHint ==
  ASSUME TypeOK, HintInv, UNCHANGED <<phase, starting, spinner>>, NoCrash' <=> NoCrash,
         \/ chan' = chan
         \/ \E c : /\ c.op = "CompactionStatus" => /\ c.turn \in Active /\ starting # c.turn
                                                   /\ ~Reported(c.turn)
                   /\ Send(c)
  PROVE  HintInv'
  <1>1. Active' = Active
    BY DEF Active
  <1>2. CASE chan' = chan
    BY <1>1, <1>2 DEF HintInv, HintsInOrder, HintOnlyWhileActive, At
  <1>3. CASE chan' # chan
    <2>1. HintsInOrder'
      BY <1>3, SendKeepsHints DEF HintInv
    <2> QED BY <1>1, <2>1 DEF HintInv, HintOnlyWhileActive
  <1> QED BY <1>2, <1>3

LEMMA WorkerHint ==
  ASSUME TypeOK, WorkerInv, HintInv, NEW t \in Turn, Worker(t)
  PROVE  HintInv'
  <1>1. UNCHANGED <<phase, starting, spinner>>
    BY DEF Worker, transcript, loop, view
  <1>2. NoCrash' <=> NoCrash
    <2>1. spent' = spent \/ \E what \in {"panic", "fold", "delta"} : Spend(what, 1)
      BY DEF Worker, CallProvider, StartFolding, StopFolding, ReportCompaction, Stream,
         Complete, NoticeCancel, Fail, End, EndThread
    <2> QED BY <2>1, SpendsNoCrash DEF NoCrash
  <1>3. CASE StartFolding(t) \/ StopFolding(t)
    <2>1. worker[t] \in Live
      BY <1>3 DEF StartFolding, StopFolding, Live
    <2>2. t \in Active /\ starting # t /\ ~Reported(t)
      BY <2>1 DEF WorkerInv, InCharge, Active, Live
    <2>3. \E c : c.op = "CompactionStatus" /\ c.turn = t /\ Send(c)
      BY <1>3 DEF StartFolding, StopFolding
    <2> QED BY <1>1, <1>2, <2>2, <2>3, SenderHint
  <1>4. CASE ~(StartFolding(t) \/ StopFolding(t))
    <2>1. chan' = chan \/ \E c : c.op # "CompactionStatus" /\ Send(c)
      BY <1>4 DEF Worker, CallProvider, ReportCompaction, Stream, Complete, NoticeCancel, Fail,
         End, EndThread
    <2> QED BY <1>1, <1>2, <2>1, SenderHint
  <1> QED BY <1>3, <1>4

LEMMA ServeHint ==
  ASSUME TypeOK, HintInv, Serve \/ ShutdownAndJoin \/ \E j \in titling : TitleThread(j)
  PROVE  HintInv'
  <1>1. UNCHANGED <<phase, starting, spinner>>
    BY DEF Serve, Submit, RequestCancel, RequestStop, RequestClear, RequestResume, RefuseResume,
       SendResume, ConfirmResume, TimeOut, EndOfInput, ShutdownAndJoin, TitleThread,
       transcript, loop, view
  <1>2. NoCrash' <=> NoCrash
    <2>1. spent' = spent \/ \E what \in {"request", "timeout"} : Spend(what, 1)
      BY DEF Serve, Submit, Ask, RequestCancel, RequestStop, RequestClear, RequestResume,
         RefuseResume, SendResume, ConfirmResume, TimeOut, EndOfInput, ShutdownAndJoin,
         TitleThread
    <2> QED BY <2>1, SpendsNoCrash DEF NoCrash
  <1>3. chan' = chan \/ \E c : c.op # "CompactionStatus" /\ Send(c)
    BY DEF Serve, Submit, RequestCancel, RequestStop, RequestClear, RequestResume, RefuseResume,
       SendResume, ConfirmResume, TimeOut, EndOfInput, ShutdownAndJoin, RaiseFlag,
       SendShutdown, Join, TitleThread
  <1> QED BY <1>1, <1>2, <1>3, SenderHint

LEMMA HintInvStep ==
  ASSUME TypeOK, TypeOK', CancelInv, WorkerInv, HintInv, ResumeOnlyWhenIdle, [Next]_vars
  PROVE  HintInv'
  <1>1. CASE UNCHANGED vars
    BY <1>1, SenderHint DEF vars, transcript, loop, view, NoCrash
  <1>2. CASE Restart
    <2>1. chan' = <<>> /\ Spend("crash", 1)
      BY <1>2 DEF Restart
    <2>2. ~NoCrash'
      BY <2>1 DEF Spend, NoCrash, TypeOK, Counted
    <2> QED BY <2>1, <2>2 DEF HintInv, HintsInOrder
  <1> QED BY <1>1, <1>2, CoordinatorHint, WorkerHint, ServeHint DEF Next

\* The compaction hint ends with the turn, although a compaction that is cancelled never
\* says that it stopped: a status still in the channel when the turn's end is handled would
\* turn it on again, but the worker sent it before, and only while the coordinator waits
\* for that worker (run_compaction of chat/compaction.rs, settle of state.rs).  Only a
\* restart of the backend under a client that stays leaves the hint with no turn.
THEOREM HintEndsWithTurn == Spec => [](spent["crash"] = 0 => HintOnlyWhileActive)
  <1>1. Init => HintInv
    BY DEF Init, HintInv, HintsInOrder, HintOnlyWhileActive
  <1>2. TypeOK /\ TypeOK' /\ CancelInv /\ WorkerInv /\ HintInv /\ ResumeOnlyWhenIdle
          /\ [Next]_vars => HintInv'
    BY HintInvStep
  <1>3. HintInv => (spent["crash"] = 0 => HintOnlyWhileActive)
    BY DEF HintInv, NoCrash
  <1> QED BY <1>1, <1>2, <1>3, TypeCorrect, CancelInvariant, WorkerInvariant,
             ResumesOnlyWhenIdle, PTL DEF Spec

-----------------------------------------------------------------------------
(* The queue the client sees: the backend implements TurnQueue *)

-----------------------------------------------------------------------------
(* The refinement mapping, by name *)

Stage == [t \in Turn |-> IF phase[t] = "pending" THEN "waiting"
                         ELSE IF phase[t] = "active" THEN "running"
                         ELSE IF told[t] \in {"unsent", "sent"} THEN "new" ELSE "over"]

Ahead == [t \in Turn |-> IF t \in Unsettled
                         THEN {u \in Unsettled : seq[u] < seq[t]} ELSE {}]

Condemned == {t \in Active : cancelling = t}

LEMMA MappedStages ==
  /\ Queue!Waiting = Pending /\ Queue!Running = Active
  /\ \A t \in Turn : Stage[t] = "new" <=> t \notin Unsettled /\ told[t] \in {"unsent", "sent"}
  BY DEF Queue!Waiting, Queue!Running, Pending, Active, Unsettled, Stage

-----------------------------------------------------------------------------
(* The active turn was accepted before those that wait *)

ActiveFirst == \A t \in Active, u \in Pending : seq[t] < seq[u]

\* What most steps do: no turn begins to wait or to run.
LEMMA ActiveFirstStays ==
  ASSUME ActiveFirst, Active' \subseteq Active, Pending' \subseteq Pending,
         Pending' = {} \/ seq' = seq
  PROVE  ActiveFirst'
  BY DEF ActiveFirst

LEMMA SettleActiveFirst ==
  ASSUME TypeOK, CancelInv, ActiveFirst, NEW t \in Active, NEW k, NEW lost,
         SettleActive(t, k, lost)
  PROVE  ActiveFirst'
  <1> DEFINE next == IF IsShuttingDown THEN {} ELSE FirstPending
  <1>1. /\ seq' = seq
        /\ phase' = [u \in Turn |-> IF u = t THEN "settled"
                                    ELSE IF u \in next THEN "active" ELSE phase[u]]
    BY DEF SettleActive
  <1>2. Active = {t} /\ t \notin Pending /\ next \subseteq Pending
    BY DEF CancelInv, OneActive, Active, Pending, FirstPending
  <1>3. \A u \in next, v \in Pending : seq[u] <= seq[v]
    BY DEF FirstPending
  <1>4. \A u, v \in Pending : seq[u] = seq[v] => u = v
    BY DEF CancelInv, QueueOrder, Unsettled
  <1>5. \A u \in Pending : seq[u] \in Int
    BY DEF TypeOK, TranscriptType, SeqNo, Pending
  <1> HIDE DEF next
  <1>6. Active' = next /\ Pending' = Pending \ next
    BY <1>1, <1>2 DEF Active, Pending
  <1>7. ASSUME NEW u \in next, NEW v \in Pending \ next PROVE seq[u] < seq[v]
    BY <1>2, <1>3, <1>4, <1>5
  <1> QED BY <1>1, <1>6, <1>7 DEF ActiveFirst

\* What an enqueue does to the queue.
LEMMA EnqueueEffect ==
  ASSUME TypeOK, CancelInv, NoIdleQueue, NEW fault \in EnqueueFault, Enqueue(fault)
  PROVE  \E t \in Turn :
           /\ t \notin Unsettled /\ told[t] = "sent" /\ verdict[t] = "none"
           /\ seq' = [seq EXCEPT ![t] = nextSeq]
           /\ cancelling' = cancelling
           /\ Active = {} => Pending = {}
           /\ \/ /\ phase' = [phase EXCEPT ![t] = IF Active = {} THEN "active" ELSE "pending"]
                 /\ told' = [told EXCEPT ![t] = IF Active = {} THEN "running" ELSE "queued"]
                 /\ verdict' = verdict
              \/ /\ phase' = phase
                 /\ told' = [told EXCEPT ![t] = "over"]
                 /\ verdict' = [verdict EXCEPT ![t] = "error"]
  <1>1. /\ 1 \in DOMAIN chan /\ Head(chan) = chan[1] /\ Head(chan) \in Command
        /\ At(1, "Enqueue")
    BY ReceiveType DEF Enqueue, Receive, TypeOK, At
  <1>2. PICK t \in Turn : /\ t = Head(chan).turn /\ t \notin Unsettled /\ told[t] = "sent"
                          /\ verdict[t] = "none"
    BY <1>1, CommandFields DEF CancelInv, EnqueuedOnce, Fresh, At
  <1>3. Active = {} => Pending = {}
    BY DEF Enqueue, NoIdleQueue
  <1>4. [verdict EXCEPT ![t] = "none"] = verdict
    BY <1>2 DEF TypeOK, ViewType
  <1> QED BY <1>2, <1>3, <1>4 DEF Enqueue, StartsAtOnce, Tell

LEMMA EnqueueFirst ==
  ASSUME TypeOK, CancelInv, NoIdleQueue, ActiveFirst,
         NEW fault \in EnqueueFault, Enqueue(fault)
  PROVE  ActiveFirst'
  <1>1. PICK t \in Turn :
           /\ t \notin Unsettled /\ seq' = [seq EXCEPT ![t] = nextSeq]
           /\ Active = {} => Pending = {}
           /\ \/ phase' = [phase EXCEPT ![t] = IF Active = {} THEN "active" ELSE "pending"]
              \/ phase' = phase
    BY EnqueueEffect
  <1>2. \A u \in Turn : u # t => seq'[u] = seq[u] /\ phase'[u] = phase[u]
    BY <1>1 DEF TypeOK, TranscriptType
  <1>3. seq'[t] = nextSeq /\ \A u \in Active : seq[u] < nextSeq
    BY <1>1 DEF TypeOK, TranscriptType, CancelInv, QueueOrder, Unsettled
  <1>4. CASE phase' = phase
    BY <1>1, <1>2, <1>4 DEF ActiveFirst, Active, Pending, Unsettled
  <1>5. CASE Active = {} /\ phase' = [phase EXCEPT ![t] = "active"]
    <2>1. Pending' = {}
      BY <1>1, <1>5 DEF Pending, TypeOK, TranscriptType
    <2> QED BY <2>1 DEF ActiveFirst
  <1>6. CASE Active # {} /\ phase' = [phase EXCEPT ![t] = "pending"]
    <2>1. Active' = Active /\ Pending' = Pending \cup {t} /\ t \notin Active /\ t \notin Pending
      BY <1>1, <1>6 DEF Active, Pending, Unsettled, TypeOK, TranscriptType
    <2> QED BY <1>2, <1>3, <2>1 DEF ActiveFirst, Active, Pending
  <1> QED BY <1>1, <1>4, <1>5, <1>6

LEMMA ActiveFirstStep ==
  ASSUME TypeOK, CancelInv, NoIdleQueue, ActiveFirst, [Next]_vars
  PROVE  ActiveFirst'
  <1>1. ASSUME UNCHANGED <<phase, seq>> PROVE ActiveFirst'
    BY <1>1, ActiveFirstStays DEF Active, Pending
  <1>2. UNCHANGED vars \/ (\E t \in Turn : Worker(t)) \/ (\E j \in titling : TitleThread(j))
          \/ Serve \/ ShutdownAndJoin => UNCHANGED <<phase, seq>>
    BY DEF vars, Worker, TitleThread, Serve, ShutdownAndJoin, transcript
  <1>3. EnqueueIgnored \/ SettleStale \/ Delta \/ CompactedReported \/ CompactionStatus
          \/ Cancel \/ QueryStatus \/ (\E t \in Turn : StartWorker(t))
          \/ (\E lost : SetSessionSummary(lost))
            => UNCHANGED <<phase, seq>>
    BY DEF EnqueueIgnored, SettleStale, Delta, CompactedReported, CompactionStatus, Cancel,
       QueryStatus, StartWorker, SetSessionSummary, transcript
  <1>4. ASSUME NEW lost, Settle(lost) PROVE ActiveFirst'
    BY <1>4, SettleActiveFirst DEF Settle
  <1>5. ASSUME NEW t \in Turn, NEW lost, Unconfigured(t, lost) PROVE ActiveFirst'
    <2>1. t \in Active
      BY <1>5, ConversationAssumption DEF Unconfigured, CancelInv, AboutActive
    <2> QED BY <1>5, <2>1, SettleActiveFirst DEF Unconfigured
  <1>6. ASSUME \/ \E lost : Stop(lost)
               \/ \E logged : Clear(logged)
               \/ Shutdown \/ ResumeSession \/ Restart
        PROVE  ActiveFirst'
    <2>1. Pending' = {}
      BY <1>6 DEF Stop, Clear, KeptByClear, Shutdown, ResumeSession, Restart, Pending, Active
    <2> QED BY <2>1 DEF ActiveFirst
  <1> QED
    BY <1>1, <1>2, <1>3, <1>4, <1>5, <1>6, EnqueueFirst DEF Next, Coordinator, StartActive

LEMMA ActiveFirstInvariant == Spec => []ActiveFirst
  <1>1. Init => ActiveFirst
    BY DEF Init, ActiveFirst, Active
  <1>2. TypeOK /\ CancelInv /\ NoIdleQueue /\ ActiveFirst /\ [Next]_vars => ActiveFirst'
    BY ActiveFirstStep
  <1> QED BY <1>1, <1>2, TypeCorrect, CancelInvariant, QueueNeverIdle, PTL DEF Spec

-----------------------------------------------------------------------------
(* Steps that leave the queue as it is, or drop what waits *)

\* A turn that is not in the queue is as new as it was, and none ends.
NewStaysNew ==
  /\ verdict' = verdict
  /\ \A t \in Turn \ Unsettled :
       told'[t] \in {"unsent", "sent"} <=> told[t] \in {"unsent", "sent"}

\* The active turn may be told to stop.
MayCondemn == cancelling' = cancelling \/ cancelling' \in Active

LEMMA CondemnedIs ==
  ASSUME CancelInv, Active' = Active, MayCondemn
  PROVE  Condemned' = Condemned \/ Condemned' = Active
  BY DEF Condemned, MayCondemn, CancelInv, OneActive

LEMMA QueueStays ==
  ASSUME CancelInv, Active' = Active, Pending' = Pending, Unsettled = {} \/ seq' = seq,
         NewStaysNew, MayCondemn
  PROVE  [Queue!Next]_(Queue!vars)
  <1>1. Stage' = Stage
    <2>1. \A t \in Turn : /\ phase'[t] = "pending" <=> phase[t] = "pending"
                          /\ phase'[t] = "active" <=> phase[t] = "active"
      BY DEF Active, Pending
    <2>2. ASSUME NEW t \in Turn PROVE Stage'[t] = Stage[t]
      BY <2>1 DEF Stage, NewStaysNew, Unsettled, Active, Pending
    <2> QED BY <2>2 DEF Stage
  <1>2. Ahead' = Ahead
    BY DEF Ahead, Unsettled
  <1>3. CASE Condemned' = Condemned
    <2>1. UNCHANGED Queue!vars
      BY <1>1, <1>2, <1>3 DEF NewStaysNew, Queue!vars, Stage, Ahead, Condemned
    <2> QED BY <2>1
  <1>4. CASE Condemned' = Active
    <2>1. Queue!Condemn
      BY <1>1, <1>2, <1>4, MappedStages DEF Queue!Condemn, NewStaysNew, Stage, Ahead, Condemned
    <2> QED BY <2>1 DEF Queue!Next
  <1> QED BY <1>3, <1>4, CondemnedIs

\* Stop, clear and shutdown: what waits is dropped, the active turn stays.
LEMMA QueueDrops ==
  ASSUME CancelInv, ActiveFirst, TypeOK, Active' = Active, Pending' = {}, seq' = seq,
         NewStaysNew, MayCondemn,
         \A t \in Pending : told'[t] \notin {"unsent", "sent"}
  PROVE  Queue!Drop
  <1>1. Unsettled' = Active /\ Unsettled = Active \cup Pending /\ Active \subseteq Turn
    BY DEF Unsettled, Active, Pending
  <1>2. Stage' = [t \in Turn |-> IF t \in Pending THEN "over" ELSE Stage[t]]
    <2>1. \A t \in Turn : /\ phase'[t] # "pending"
                          /\ phase'[t] = "active" <=> phase[t] = "active"
      BY DEF Active, Pending
    <2>2. ASSUME NEW t \in Turn PROVE Stage'[t] = IF t \in Pending THEN "over" ELSE Stage[t]
      BY <2>1 DEF Stage, NewStaysNew, Unsettled, Active, Pending
    <2> QED BY <2>2 DEF Stage
  <1>3. \A t \in Active : Ahead[t] = {} /\ Ahead'[t] = {}
    <2>1. \A t \in Turn : seq[t] \in Int
      BY DEF TypeOK, TranscriptType, SeqNo
    <2>2. \A t \in Active, u \in Unsettled : ~(seq[u] < seq[t])
      BY <1>1, <2>1 DEF CancelInv, OneActive, ActiveFirst, Active, Pending
    <2> QED BY <1>1, <2>2 DEF Ahead
  <1>4. Ahead' = [t \in Turn |-> IF t \in Pending THEN {} ELSE Ahead[t]]
    <2>1. ASSUME NEW t \in Turn PROVE Ahead'[t] = IF t \in Pending THEN {} ELSE Ahead[t]
      BY <1>1, <1>3 DEF Ahead, Pending, Active
    <2> QED BY <2>1 DEF Ahead
  <1>5. Condemned' \in {Condemned, Active}
    BY CondemnedIs
  <1> QED BY <1>2, <1>4, <1>5, MappedStages DEF Queue!Drop, NewStaysNew, Stage, Ahead, Condemned

-----------------------------------------------------------------------------
(* The handlers *)

\* A handler that is no enqueue, no settle and no attachment.
LEMMA QuietRefines ==
  ASSUME TypeOK, CancelInv, ActiveFirst,
         \/ EnqueueIgnored \/ SettleStale \/ Delta \/ CompactedReported \/ CompactionStatus
         \/ (\E lost : SetSessionSummary(lost)) \/ Cancel \/ QueryStatus
         \/ \E t \in Turn : StartWorker(t)
  PROVE  [Queue!Next]_(Queue!vars)
  <1>1. /\ UNCHANGED <<phase, seq, verdict>> /\ (cancelling' = cancelling \/ Cancel)
        /\ told' = told \/ Delta
    BY DEF EnqueueIgnored, SettleStale, Delta, CompactedReported, CompactionStatus,
       SetSessionSummary, Cancel, QueryStatus, StartWorker, transcript, loop, view
  <1>2. MayCondemn
    BY <1>1 DEF MayCondemn, Cancel
  <1>3. \A t \in Turn \ Unsettled : told'[t] = told[t]
    BY <1>1 DEF Delta, Unsettled, TypeOK, ViewType
  <1> QED BY <1>1, <1>2, <1>3, QueueStays DEF NewStaysNew, Active, Pending

LEMMA DropRefines ==
  ASSUME TypeOK, CancelInv, ActiveFirst,
         (\E lost : Stop(lost)) \/ (\E logged : Clear(logged)) \/ Shutdown
  PROVE  [Queue!Next]_(Queue!vars)
  <1>1. /\ UNCHANGED <<seq, verdict>>
        /\ \A t \in Turn : phase'[t] = "active" <=> phase[t] = "active"
        /\ \A t \in Turn : phase'[t] # "pending"
        /\ told' = told \/ told' = [t \in Turn |-> IF t \in Pending THEN "removed" ELSE told[t]]
    BY DEF Stop, Clear, KeptByClear, Shutdown, view, Pending, Active
  <1>2. MayCondemn
    BY DEF Stop, Clear, Shutdown, MayCondemn
  <1>3. Active' = Active /\ Pending' = {}
    BY <1>1 DEF Active, Pending
  <1>4. NewStaysNew
    BY <1>1 DEF NewStaysNew, Unsettled
  <1>5. \A t \in Pending : told'[t] \notin {"unsent", "sent"}
    BY <1>1 DEF CancelInv, UnsettledIsOpen, Unsettled, Pending
  <1>6. Queue!Drop
    BY <1>1, <1>2, <1>3, <1>4, <1>5, QueueDrops
  <1> QED BY <1>6 DEF Queue!Next

\* Accepted behind every unsettled turn, or refused.
LEMMA EnqueueRefines ==
  ASSUME TypeOK, CancelInv, NoIdleQueue, NEW fault \in EnqueueFault, Enqueue(fault)
  PROVE  [Queue!Next]_(Queue!vars)
  <1>1. PICK t \in Turn :
           /\ t \notin Unsettled /\ told[t] = "sent" /\ verdict[t] = "none"
           /\ seq' = [seq EXCEPT ![t] = nextSeq]
           /\ cancelling' = cancelling
           /\ Active = {} => Pending = {}
           /\ \/ /\ phase' = [phase EXCEPT ![t] = IF Active = {} THEN "active" ELSE "pending"]
                 /\ told' = [told EXCEPT ![t] = IF Active = {} THEN "running" ELSE "queued"]
                 /\ verdict' = verdict
              \/ /\ phase' = phase
                 /\ told' = [told EXCEPT ![t] = "over"]
                 /\ verdict' = [verdict EXCEPT ![t] = "error"]
    BY EnqueueEffect
  <1>2. \A u \in Turn : u # t => /\ seq'[u] = seq[u] /\ phase'[u] = phase[u]
                                 /\ told'[u] = told[u]
    BY <1>1 DEF TypeOK, TranscriptType, ViewType
  <1>3. Stage[t] = "new" /\ phase[t] # "active" /\ phase[t] # "pending"
    BY <1>1, MappedStages DEF Unsettled, Active, Pending
  <1>4. \A u \in Turn : u # t => Stage'[u] = Stage[u]
    BY <1>2 DEF Stage
  <1>5. Unsettled \subseteq Turn /\ cancelling # t /\ cancelling \in Active \cup {None}
    BY <1>1, ConversationAssumption DEF Unsettled, Active, Pending, CancelInv, AboutActive
  <1>6. CASE phase' = phase
    <2>1. told'[t] = "over" /\ verdict' = [verdict EXCEPT ![t] = "error"]
      BY <1>1, <1>3, <1>6 DEF TypeOK, TranscriptType, ViewType
    <2>2. Stage' = [Stage EXCEPT ![t] = "over"]
      BY <1>3, <1>4, <1>6, <2>1 DEF Stage
    <2>3. Unsettled' = Unsettled /\ Active' = Active
      BY <1>6 DEF Unsettled, Active, Pending
    <2>4. Ahead' = Ahead /\ Condemned' = Condemned
      BY <1>1, <1>2, <1>5, <2>3 DEF Ahead, Condemned
    <2>5. Queue!Refuse(t)
      BY <1>3, <2>1, <2>2, <2>4 DEF Queue!Refuse, Stage, Ahead, Condemned
    <2> QED BY <2>5 DEF Queue!Next
  <1>7. CASE /\ phase' = [phase EXCEPT ![t] = IF Active = {} THEN "active" ELSE "pending"]
             /\ verdict' = verdict
    <2>1. Unsettled' = Unsettled \cup {t} /\ (Active = {} <=> Unsettled = {})
      BY <1>1, <1>7 DEF Unsettled, Active, Pending, TypeOK, TranscriptType
    <2>2. phase'[t] = IF Unsettled = {} THEN "active" ELSE "pending"
      BY <1>7, <2>1 DEF TypeOK, TranscriptType
    <2>3. Stage' = [Stage EXCEPT ![t] = IF Unsettled = {} THEN "running" ELSE "waiting"]
      BY <1>4, <2>2 DEF Stage
    <2>4. Ahead' = [Ahead EXCEPT ![t] = Unsettled]
      <3>1. seq'[t] = nextSeq /\ \A u \in Unsettled : seq[u] < nextSeq /\ seq[u] \in Int
        BY <1>1, <1>5 DEF TypeOK, TranscriptType, SeqNo, CancelInv, QueueOrder
      <3>2. nextSeq \in Int
        BY DEF TypeOK, TranscriptType
      <3>3. Ahead'[t] = Unsettled
        BY <1>1, <1>2, <1>5, <2>1, <3>1, <3>2 DEF Ahead
      <3>4. ASSUME NEW u \in Turn, u # t PROVE Ahead'[u] = Ahead[u]
        <4>1. CASE u \notin Unsettled
          BY <2>1, <3>4, <4>1 DEF Ahead
        <4>2. CASE u \in Unsettled
          <5>1. \A v \in Unsettled : seq'[v] = seq[v] /\ v # t
            BY <1>1, <1>2, <1>5
          <5>2. ~(seq'[t] < seq'[u])
            BY <3>1, <3>2, <4>2, <5>1
          <5>3. {v \in Unsettled' : seq'[v] < seq'[u]} = {v \in Unsettled : seq[v] < seq[u]}
            BY <2>1, <4>2, <5>1, <5>2
          <5> QED BY <2>1, <4>2, <5>3 DEF Ahead
        <4> QED BY <4>1, <4>2
      <3> QED BY <3>3, <3>4 DEF Ahead
    <2>5. Condemned' = Condemned
      <3>1. Active \subseteq Active' /\ Active' \subseteq Active \cup {t}
        BY <1>1, <1>2, <1>3 DEF Active
      <3> QED BY <1>1, <1>5, <3>1 DEF Condemned
    <2>6. Queue!Waiting \cup Queue!Running = Unsettled
      BY MappedStages DEF Unsettled
    <2>7. Queue!Accept(t)
      BY <1>3, <1>7, <2>3, <2>4, <2>5, <2>6 DEF Queue!Accept, Stage, Ahead, Condemned
    <2> QED BY <2>7 DEF Queue!Next
  <1> QED BY <1>1, <1>6, <1>7

\* The active turn ends, and the first that waits, the one right behind it, is next.
LEMMA SettleActiveRefines ==
  ASSUME TypeOK, CancelInv, ActiveFirst, NEW t \in Active, NEW k \in Kind, NEW lost,
         SettleActive(t, k, lost)
  PROVE  [Queue!Next]_(Queue!vars)
  <1> DEFINE next == IF IsShuttingDown THEN {} ELSE FirstPending
             kind == SettledAs(t, k)
  <1>1. /\ seq' = seq /\ verdict' = [verdict EXCEPT ![t] = kind]
        /\ cancelling' = IF cancelling = t THEN None ELSE cancelling
        /\ told' = [u \in Turn |-> IF u = t THEN "over"
                                   ELSE IF u \in next THEN "running" ELSE told[u]]
        /\ phase' = [u \in Turn |-> IF u = t THEN "settled"
                                    ELSE IF u \in next THEN "active" ELSE phase[u]]
    BY DEF SettleActive
  <1>2. /\ Active = {t} /\ t \in Turn /\ t \notin Pending /\ next \subseteq Pending
        /\ Pending \subseteq Turn
    BY DEF CancelInv, OneActive, Active, Pending, FirstPending
  <1>3. kind \in Queue!Outcome /\ (t \in Condemned => kind = "cancelled")
    BY DEF SettledAs, Kind, Queue!Outcome, Condemned
  <1>4. next = {u \in Pending : ~IsShuttingDown /\ Ahead[u] = {t}}
    <2>1. \A u \in Unsettled : seq[u] \in Int
      BY <1>2 DEF TypeOK, TranscriptType, SeqNo, Unsettled
    <2>2. \A u \in Pending : t \in Ahead[u] /\ t # u
      BY <1>2 DEF Ahead, Unsettled, ActiveFirst
    <2>3. \A u \in Pending : Ahead[u] \ {t} = {v \in Pending : seq[v] < seq[u]}
      BY <1>2 DEF Ahead, Unsettled
    <2>4. \A u \in Pending : u \in FirstPending <=> {v \in Pending : seq[v] < seq[u]} = {}
      BY <2>1 DEF FirstPending, Unsettled
    <2>5. \A u \in Pending : u \in FirstPending <=> Ahead[u] = {t}
      <3> SUFFICES ASSUME NEW u \in Pending
                   PROVE  Ahead[u] \ {t} = {} <=> Ahead[u] = {t}
        BY <2>3, <2>4
      <3> QED BY <2>2
    <2> QED BY <1>2, <2>5
  <1> HIDE DEF next, kind
  <1>5. Active' = next /\ Pending' = Pending \ next /\ Unsettled' = Pending
    BY <1>1, <1>2 DEF Unsettled, Active, Pending
  <1>6. Stage' = [u \in Turn |-> IF u = t THEN "over"
                                 ELSE IF u \in next THEN "running" ELSE Stage[u]]
    <2>1. ASSUME NEW u \in Turn
          PROVE  Stage'[u] = IF u = t THEN "over"
                             ELSE IF u \in next THEN "running" ELSE Stage[u]
      BY <1>1, <1>2 DEF Stage
    <2> QED BY <2>1 DEF Stage
  <1>7. Ahead' = [u \in Turn |-> IF u = t THEN {} ELSE Ahead[u] \ {t}]
    <2>1. ASSUME NEW u \in Turn
          PROVE  Ahead'[u] = IF u = t THEN {} ELSE Ahead[u] \ {t}
      <3>1. CASE u \in Pending
        <4>1. Ahead'[u] = {v \in Pending : seq[v] < seq[u]}
          BY <1>1, <1>5, <3>1 DEF Ahead
        <4>2. Ahead[u] = {v \in Pending \cup {t} : seq[v] < seq[u]}
          BY <1>2, <3>1 DEF Ahead, Unsettled
        <4> QED BY <1>2, <3>1, <4>1, <4>2
      <3>2. CASE u \notin Pending
        BY <1>2, <1>5, <3>2 DEF Ahead, Unsettled
      <3> QED BY <3>1, <3>2
    <2> QED BY <2>1 DEF Ahead
  <1>8. Condemned' = Condemned \ {t}
    <2>1. cancelling' = None /\ None \notin Turn
      BY <1>1, <1>2, ConversationAssumption DEF CancelInv, AboutActive
    <2> QED BY <1>2, <1>5, <2>1 DEF Condemned
  <1>9. Queue!Finish(t)
    <2> DEFINE follows(on) == {u \in Queue!Waiting : on /\ Ahead[u] = {t}}
    <2>1. PICK goesOn \in BOOLEAN : goesOn <=> ~IsShuttingDown
      <3>1. CASE IsShuttingDown
        BY <3>1
      <3>2. CASE ~IsShuttingDown
        BY <3>2
      <3> QED BY <3>1, <3>2
    <2>2. follows(goesOn) = next
      <3>1. \A u : u \in follows(goesOn) <=> u \in next
        BY <1>4, <2>1, MappedStages
      <3> QED BY <3>1
    <2>3. Stage[t] = "running"
      BY <1>2 DEF Stage, Active
    <2>4. /\ t \in Condemned => kind = "cancelled"
          /\ verdict' = [verdict EXCEPT ![t] = kind]
          /\ Stage' = [u \in Turn |-> IF u = t THEN "over"
                                      ELSE IF u \in follows(goesOn) THEN "running"
                                      ELSE Stage[u]]
      BY <1>1, <1>3, <1>6, <2>2
    <2> QED BY <1>3, <1>7, <1>8, <2>1, <2>3, <2>4, ZenonT(60) DEF Queue!Finish, Stage, Ahead, Condemned
  <1> QED BY <1>2, <1>9 DEF Queue!Next

\* Attaching a session changes no turn the client is waiting for.
LEMMA ResumeSessionRefines ==
  ASSUME TypeOK, CancelInv, ResumeOnlyWhenIdle, ResumeSession
  PROVE  [Queue!Next]_(Queue!vars)
  <1>1. Unsettled = {} /\ UNCHANGED <<told, verdict, cancelling>>
    BY DEF ResumeSession, Receive, ResumeOnlyWhenIdle, view
  <1>2. Active' = {} /\ Pending' = {}
    BY DEF ResumeSession, Active, Pending
  <1>3. Active = {} /\ Pending = {}
    BY <1>1 DEF Unsettled
  <1> QED BY <1>1, <1>2, <1>3, QueueStays DEF NewStaysNew, MayCondemn

LEMMA CoordinatorRefines ==
  ASSUME TypeOK, CancelInv, NoIdleQueue, ResumeOnlyWhenIdle, ActiveFirst, Coordinator
  PROVE  [Queue!Next]_(Queue!vars)
  <1>1. ASSUME NEW lost, Settle(lost) PROVE [Queue!Next]_(Queue!vars)
    <2>1. Head(chan).turn \in Active /\ Head(chan).kind \in Kind
      BY <1>1, ReceiveType, CommandFields DEF Settle, TypeOK
    <2> QED BY <1>1, <2>1, SettleActiveRefines DEF Settle
  <1>2. ASSUME NEW t \in Turn, NEW lost, Unconfigured(t, lost)
        PROVE  [Queue!Next]_(Queue!vars)
    <2>1. t \in Active /\ "needsConfiguration" \in Kind
      BY <1>2, ConversationAssumption DEF Unconfigured, CancelInv, AboutActive, Kind
    <2> QED BY <1>2, <2>1, SettleActiveRefines DEF Unconfigured
  <1> QED
    BY <1>1, <1>2, QuietRefines, DropRefines, EnqueueRefines, ResumeSessionRefines
    DEF Coordinator, StartActive

-----------------------------------------------------------------------------
(* The other threads, the client and the crash *)

LEMMA ThreadRefines ==
  ASSUME TypeOK, CancelInv,
         \/ UNCHANGED vars
         \/ (\E t \in Turn : Worker(t)) \/ (\E j \in titling : TitleThread(j))
         \/ Serve \/ ShutdownAndJoin
  PROVE  [Queue!Next]_(Queue!vars)
  <1>1. UNCHANGED <<phase, seq, cancelling, verdict>>
    BY DEF vars, Worker, TitleThread, Serve, ShutdownAndJoin, Submit, RequestCancel,
       RequestStop, RequestClear, RequestResume, RefuseResume, SendResume, ConfirmResume,
       TimeOut, EndOfInput, transcript, loop, view
  <1>2. UNCHANGED told \/ \E t \in Turn : told[t] = "unsent" /\ told' = [told EXCEPT ![t] = "sent"]
    BY DEF vars, Worker, TitleThread, Serve, ShutdownAndJoin, Submit, RequestCancel,
       RequestStop, RequestClear, RequestResume, RefuseResume, SendResume, ConfirmResume,
       TimeOut, EndOfInput, view
  <1>3. NewStaysNew
    BY <1>1, <1>2 DEF NewStaysNew, TypeOK, ViewType
  <1> QED BY <1>1, <1>3, QueueStays DEF MayCondemn, Active, Pending

\* A restart ends every turn that was accepted, without an outcome.
LEMMA RestartRefines ==
  ASSUME TypeOK, CancelInv, Restart
  PROVE  [Queue!Next]_(Queue!vars)
  <1>1. /\ phase' = [t \in Turn |-> "absent"] /\ UNCHANGED <<told, verdict>>
    BY DEF Restart
  <1>2. Unsettled' = {} /\ Active' = {}
    BY <1>1 DEF Unsettled, Active, Pending
  <1>3. Stage' = [t \in Turn |-> IF Stage[t] = "new" THEN "new" ELSE "over"]
    <2>1. ASSUME NEW t \in Turn PROVE Stage'[t] = IF Stage[t] = "new" THEN "new" ELSE "over"
      <3>1. phase[t] \in {"pending", "active"} => told[t] \notin {"unsent", "sent"}
        BY DEF CancelInv, UnsettledIsOpen, Unsettled, Active, Pending
      <3> QED BY <1>1, <3>1 DEF Stage
    <2> QED BY <2>1 DEF Stage
  <1>4. Ahead' = [t \in Turn |-> {}] /\ Condemned' = {}
    BY <1>2 DEF Ahead, Condemned
  <1>5. Queue!Die
    BY <1>1, <1>3, <1>4 DEF Queue!Die, Stage, Ahead, Condemned
  <1> QED BY <1>5 DEF Queue!Next

\* The backend keeps the promise of TurnQueue: whatever the channel, the workers, the
\* request loop, failing writes and restarts do, each step is one of accepting, refusing,
\* finishing, dropping or condemning a turn of that queue, or none (state.rs, turn.rs).
THEOREM BackendIsTurnQueue == Spec => ImplementsTurnQueue
  <1>1. Init => Queue!Init
    <2> SUFFICES ASSUME Init PROVE Queue!Init
      OBVIOUS
    <2>1. Unsettled = {} /\ Active = {} /\ Pending = {}
      BY DEF Init, Unsettled, Active, Pending
    <2>2. Stage = [t \in Turn |-> "new"] /\ Ahead = [t \in Turn |-> {}] /\ Condemned = {}
      BY <2>1 DEF Init, Stage, Ahead, Condemned
    <2> QED BY <2>1, <2>2 DEF Init, Queue!Init, Stage, Ahead, Condemned
  <1>2. TypeOK /\ CancelInv /\ NoIdleQueue /\ ResumeOnlyWhenIdle /\ ActiveFirst /\ [Next]_vars
          => [Queue!Next]_(Queue!vars)
    BY CoordinatorRefines, ThreadRefines, RestartRefines DEF Next
  <1> QED
    BY <1>1, <1>2, TypeCorrect, CancelInvariant, QueueNeverIdle, ResumesOnlyWhenIdle,
       ActiveFirstInvariant, PTL
    DEF Spec, ImplementsTurnQueue, Queue!Spec

=============================================================================
