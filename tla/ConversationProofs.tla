------------------------- MODULE ConversationProofs -------------------------
(***************************************************************************)
(* Theorems about the conversation backend, for any number of turns and    *)
(* any bounds: type correctness; that the coordinator never swaps the      *)
(* transcript under an unsettled turn (ResumeOnlyWhenIdle); and that a     *)
(* turn whose token was cancelled never ends otherwise than cancelled,     *)
(* neither for the client nor in any session log (CancelSticks), which     *)
(* rests on there being one active turn at a time and on the second.       *)
(***************************************************************************)
EXTENDS ConversationProperties, FiniteSetTheorems, TLAPS

USE DEF SeqNo

-----------------------------------------------------------------------------
(* Lemmas on the operators the handlers are built from *)

\* The fields a command has, by its op.
LEMMA CommandFields ==
  ASSUME NEW c \in Command
  PROVE  /\ c.op = "Enqueue" => c.turn \in Turn /\ c.config \in BOOLEAN
         /\ c.op \in {"Delta", "Cancel"} => c.turn \in Turn
         /\ c.op = "Settle" => c.turn \in Turn /\ c.kind \in Kind
         /\ c.op = "Compacted" => c.turn \in Turn /\ c.state \in Summary
         /\ c.op = "CompactionStatus" => c.turn \in Turn /\ c.active \in BOOLEAN
         /\ c.op = "QueryStatus" => c.id \in Nat
         /\ c.op = "ResumeSession" => /\ c.id \in Nat /\ c.session \in Turn
                                      /\ c.title \in Title /\ c.turns \in Restored
         /\ c.op = "SetSessionSummary" => c.session \in Turn /\ c.first \in Turn
  BY DEF Command

\* What a handler receives is a command, and so is the rest of the channel.
LEMMA ReceiveType ==
  ASSUME chan \in Seq(Command), NEW op, Receive(op)
  PROVE  /\ running
         /\ Head(chan) \in Command /\ Head(chan).op = op
         /\ Tail(chan) \in Seq(Command)
  BY DEF Receive

LEMMA SendType ==
  ASSUME chan \in Seq(Command), NEW c \in Command, Send(c)
  PROVE  chan' \in Seq(Command)
  BY DEF Send

LEMMA ReturnType ==
  ASSUME NEW rest \in Seq(Command), Return(rest)
  PROVE  chan' \in Seq(Command) /\ running' \in BOOLEAN
  BY DEF Return, LoopStops

\* The bounds are natural numbers, and so is what is spent of them.
LEMMA SpendType ==
  ASSUME spent \in [Counted -> Nat], NEW what \in Counted, NEW n \in Nat, Spend(what, n)
  PROVE  spent' \in [Counted -> Nat]
  BY DEF Spend

LEMMA FailingType ==
  ASSUME spent \in [Counted -> Nat], NEW ops, IsFiniteSet(ops), NEW lost, Failing(ops, lost)
  PROVE  spent' \in [Counted -> Nat] /\ lost \subseteq ops
  <1>1. lost \subseteq ops /\ Spend("fault", Cardinality(lost))
    BY DEF Failing
  <1>2. Cardinality(lost) \in Nat
    BY <1>1, FS_Subset, FS_CardinalityType
  <1> QED BY <1>1, <1>2, SpendType DEF Counted

\* The writes of a handler are finitely many.
LEMMA WritesFinite ==
  ASSUME NEW a, NEW b, NEW c
  PROVE  IsFiniteSet({a, b}) /\ IsFiniteSet({a, b, c})
  <1>1. IsFiniteSet({a})
    BY FS_Singleton
  <1>2. IsFiniteSet({a} \cup {b})
    BY <1>1, FS_AddElement
  <1>3. IsFiniteSet(({a} \cup {b}) \cup {c})
    BY <1>2, FS_AddElement
  <1>4. {a, b} = {a} \cup {b} /\ {a, b, c} = ({a} \cup {b}) \cup {c}
    OBVIOUS
  <1> QED BY <1>2, <1>3, <1>4

\* Each event extends a session log to a session log.
LEMMA LogType ==
  ASSUME NEW l \in Log
  PROVE  /\ Started(l) \in Log
         /\ \A t \in Turn, n \in SeqNo : TurnEnqueued(l, t, n) \in Log
         /\ \A S \in SUBSET Turn, k \in Kind : TurnSettled(l, S, k) \in Log
         /\ \A c \in Summary : Compacted(l, c) \in Log
         /\ \A t \in Turn : SummaryGenerated(l, t) \in Log
  BY DEF Log, Started, TurnEnqueued, TurnSettled, Compacted, SummaryGenerated

LEMMA RestoreType == ASSUME NEW l \in Log PROVE Restore(l) \in Restored
  BY DEF Log, Restore, Restored, Kind

LEMMA FoldingType ==
  ASSUME NEW j \in Job, NEW plan \in Summary
  PROVE  [j EXCEPT !.folding = plan] \in Job
  BY DEF Job

\* The constants the handlers reset variables to.
LEMMA ValueTypes ==
  /\ NoSummary \in Summary /\ EmptyLog \in Log /\ NoJob \in Job
  /\ NoPending \in [turn : Turn \cup {None}, state : Summary]
  /\ [t \in Turn |-> NoJob] \in [Turn -> Job] /\ [s \in Turn |-> EmptyLog] \in [Turn -> Log]
  BY DEF NoSummary, Summary, EmptyLog, Log, NoJob, Job, NoPending

-----------------------------------------------------------------------------
(* Type correctness: one lemma per action *)

LEMMA InitType == Init => TypeOK
  <1> SUFFICES ASSUME Init PROVE TypeOK
    OBVIOUS
  <1>1. chan \in Seq(Command) /\ spent \in [Counted -> Nat]
    BY DEF Init
  <1>2. TranscriptType /\ LoopType /\ ClosingType /\ AttachedType
    BY ValueTypes DEF Init, TranscriptType, LoopType, ClosingType, AttachedType, Phase, Title
  <1>3. DiskType /\ WorkersType
    BY ValueTypes DEF Init, DiskType, WorkersType, Title
  <1>4. FrontendType /\ ViewType /\ titling = {} /\ abandoned = {}
    BY DEF Init, FrontendType, ViewType
  <1> QED BY <1>1, <1>2, <1>3, <1>4 DEF TypeOK

LEMMA EnqueueIgnoredType == TypeOK /\ EnqueueIgnored => TypeOK'
  <1> SUFFICES ASSUME TypeOK, EnqueueIgnored PROVE TypeOK'
    OBVIOUS
  <1>1. chan' \in Seq(Command) /\ running' \in BOOLEAN
    BY ReceiveType, ReturnType DEF TypeOK, EnqueueIgnored
  <1> QED
    BY <1>1 DEF EnqueueIgnored, TypeOK, TranscriptType, LoopType, ClosingType, AttachedType,
       DiskType, WorkersType, FrontendType, ViewType, transcript, loop, attached, disk,
       workers, frontend, view

LEMMA EnqueueType ==
  ASSUME TypeOK, NEW fault \in EnqueueFault, Enqueue(fault)
  PROVE  TypeOK'
  <1> DEFINE t == Head(chan).turn
  <1>1. t \in Turn /\ Tail(chan) \in Seq(Command)
    BY ReceiveType, CommandFields DEF TypeOK, Enqueue
  <1>2. chan' \in Seq(Command) /\ running' \in BOOLEAN
    BY <1>1, ReturnType DEF Enqueue
  <1>3. spent' \in [Counted -> Nat]
    BY SpendType DEF TypeOK, Enqueue, Counted
  <1>4. AttachedType' /\ DiskType'
    <2>1. /\ session' \in Turn \cup {None} /\ sessionTitle' \in Title
          /\ turnSession' \in [Turn -> Turn \cup {None}]
      BY <1>1 DEF Enqueue, OnEnqueue, TypeOK, AttachedType, Title
    <2>2. log' \in [Turn -> Log]
      BY <1>1, LogType DEF Enqueue, OnEnqueue, TypeOK, AttachedType, DiskType, TranscriptType
    <2>3. row' \in [Turn -> Title]
      BY <1>1, <2>1 DEF Enqueue, OnEnqueue, TypeOK, AttachedType, DiskType
    <2> QED BY <2>1, <2>2, <2>3 DEF AttachedType, DiskType
  <1>5. TranscriptType'
    BY <1>1 DEF Enqueue, TypeOK, TranscriptType, Phase, NextSeq
  <1>6. LoopType' /\ ClosingType'
    BY <1>1, <1>2 DEF Enqueue, TypeOK, LoopType, ClosingType
  <1>7. ViewType'
    BY <1>1 DEF Enqueue, TypeOK, ViewType, Tell, Kind, HintAfterSettle
  <1>8. /\ WorkersType' /\ FrontendType'
        /\ titling' \subseteq [session : Turn, first : Turn] /\ abandoned' \subseteq Turn
    BY DEF Enqueue, TypeOK, WorkersType, FrontendType, workers, frontend
  <1> QED
    BY <1>2, <1>3, <1>4, <1>5, <1>6, <1>7, <1>8 DEF TypeOK

\* The settle of the active turn, by a worker's report or for want of a config.
LEMMA SettleActiveType ==
  ASSUME TypeOK, NEW t \in Turn, NEW k \in Kind, NEW lost, SettleActive(t, k, lost)
  PROVE  /\ TranscriptType' /\ AttachedType' /\ DiskType' /\ FrontendType' /\ ViewType'
         /\ activeCancel' \in Turn \cup {None} /\ cancelling' \in Turn \cup {None}
         /\ starting' \in Turn \cup {None} /\ compaction' \in Summary
         /\ pendingCompaction' \in [turn : Turn \cup {None}, state : Summary]
         /\ activeConfig' \in BOOLEAN /\ summaryRequested' \in BOOLEAN
         /\ shuttingDown' \in BOOLEAN /\ shutdownRequested' \in BOOLEAN
         /\ titling' \subseteq [session : Turn, first : Turn]
         /\ abandoned' \subseteq Turn /\ spent' \in [Counted -> Nat]
  <1> DEFINE kind   == SettledAs(t, k)
             adopts == pendingCompaction.turn = t /\ kind = "completed"
             next   == IF IsShuttingDown THEN {} ELSE FirstPending
  <1>1. kind \in Kind
    BY DEF SettledAs, Kind
  <1>2. next \subseteq Turn
    BY DEF FirstPending, Pending
  <1>3. spent' \in [Counted -> Nat]
    BY WritesFinite, FailingType DEF SettleActive, TypeOK
  <1>4. TranscriptType'
    BY <1>1, <1>2 DEF SettleActive, TypeOK, TranscriptType, Phase
  <1>5. AttachedType'
    BY DEF SettleActive, OnSettle, TypeOK, AttachedType
  <1>6. DiskType'
    <2>1. OnSettle(t, kind, adopts, lost)
      BY DEF SettleActive
    <2>2. log' \in [Turn -> Log]
      <3>1. pendingCompaction.state \in Summary
        BY DEF TypeOK, LoopType
      <3> QED BY <1>1, <2>1, <3>1, LogType DEF OnSettle, TypeOK, AttachedType, DiskType
    <2>3. row' \in [Turn -> Title]
      BY <2>1 DEF OnSettle, TypeOK, AttachedType, DiskType
    <2> QED BY <2>2, <2>3 DEF DiskType
  <1>7. titling' \subseteq [session : Turn, first : Turn] /\ summaryRequested' \in BOOLEAN
    <2>1. MaybeRequestSummary(t, kind)
      BY DEF SettleActive
    <2> QED BY <2>1 DEF MaybeRequestSummary, CompletedHistory, TypeOK, LoopType, AttachedType
  <1>8. ViewType'
    BY <1>1, <1>2 DEF SettleActive, TypeOK, ViewType, HintAfterSettle
  <1>9. /\ activeCancel' \in Turn \cup {None} /\ cancelling' \in Turn \cup {None}
        /\ starting' \in Turn \cup {None} /\ compaction' \in Summary
        /\ pendingCompaction' \in [turn : Turn \cup {None}, state : Summary]
    BY <1>2, ValueTypes DEF SettleActive, TypeOK, LoopType
  <1>10. /\ activeConfig' \in BOOLEAN /\ FrontendType' /\ abandoned' \subseteq Turn
         /\ shuttingDown' \in BOOLEAN /\ shutdownRequested' \in BOOLEAN
    BY DEF SettleActive, TypeOK, LoopType, ClosingType, FrontendType, frontend
  <1> QED BY <1>3, <1>4, <1>5, <1>6, <1>7, <1>8, <1>9, <1>10

LEMMA SettleType ==
  ASSUME TypeOK, NEW lost, Settle(lost)
  PROVE  TypeOK'
  <1>1. /\ Head(chan).turn \in Turn /\ Head(chan).kind \in Kind
        /\ Tail(chan) \in Seq(Command)
    BY ReceiveType, CommandFields DEF TypeOK, Settle
  <1>2. chan' \in Seq(Command) /\ running' \in BOOLEAN
    BY <1>1, ReturnType DEF Settle
  <1>3. configs' \subseteq Turn /\ WorkersType'
    BY DEF Settle, TypeOK, LoopType, WorkersType, workers
  <1> QED
    BY <1>1, <1>2, <1>3, SettleActiveType DEF Settle, TypeOK, LoopType, ClosingType

LEMMA SettleStaleType == TypeOK /\ SettleStale => TypeOK'
  <1> SUFFICES ASSUME TypeOK, SettleStale PROVE TypeOK'
    OBVIOUS
  <1>1. chan' \in Seq(Command) /\ running' \in BOOLEAN
    BY ReceiveType, ReturnType DEF TypeOK, SettleStale
  <1> QED
    BY <1>1 DEF SettleStale, TypeOK, TranscriptType, LoopType, ClosingType, AttachedType,
       DiskType, WorkersType, FrontendType, ViewType, transcript, loop, attached, disk,
       workers, frontend, view

LEMMA StartActiveType ==
  ASSUME TypeOK, NEW t \in Turn, StartActive(t)
  PROVE  TypeOK'
  <1>1. CASE StartWorker(t)
    <2>1. chan' \in Seq(Command) /\ running' \in BOOLEAN
      BY <1>1, ReturnType DEF StartWorker, TypeOK
    <2>2. WorkersType'
      BY <1>1, ValueTypes
      DEF StartWorker, TypeOK, WorkersType, LoopType, Live, Job, CompletedHistory
    <2> QED
      BY <1>1, <2>1, <2>2 DEF StartWorker, TypeOK, TranscriptType, LoopType, ClosingType,
         AttachedType, DiskType, FrontendType, ViewType, transcript, attached, disk,
         frontend, view
  <1>2. CASE \E lost \in SUBSET {"compacted", "settled", "touch"} : Unconfigured(t, lost)
    <2> PICK lost \in SUBSET {"compacted", "settled", "touch"} : Unconfigured(t, lost)
      BY <1>2
    <2>1. chan' \in Seq(Command) /\ running' \in BOOLEAN
      BY ReturnType DEF Unconfigured, TypeOK
    <2>2. configs' \subseteq Turn /\ WorkersType'
      BY DEF Unconfigured, TypeOK, LoopType, WorkersType, workers
    <2> QED
      BY <2>1, <2>2, SettleActiveType DEF Unconfigured, TypeOK, LoopType, ClosingType, Kind
  <1> QED BY <1>1, <1>2 DEF StartActive

\* A handler that leaves all but the channel, the view and the compaction buffer alone.
LEMMA ReportType ==
  ASSUME TypeOK, Delta \/ CompactedReported \/ CompactionStatus
  PROVE  TypeOK'
  <1>1. chan' \in Seq(Command) /\ running' \in BOOLEAN
    BY ReceiveType, ReturnType DEF TypeOK, Delta, CompactedReported, CompactionStatus
  <1>2. CASE Delta
    <2>1. ViewType'
      BY <1>2 DEF Delta, TypeOK, ViewType
    <2> QED
      BY <1>1, <1>2, <2>1 DEF Delta, TypeOK, TranscriptType, LoopType, ClosingType,
         AttachedType, DiskType, WorkersType, FrontendType, transcript, loop, attached,
         disk, workers, frontend
  <1>3. CASE CompactedReported
    <2>1. pendingCompaction' \in [turn : Turn \cup {None}, state : Summary]
      BY <1>3, ReceiveType, CommandFields DEF CompactedReported, TypeOK
    <2> QED
      BY <1>1, <1>3, <2>1 DEF CompactedReported, TypeOK, TranscriptType, LoopType,
         ClosingType, AttachedType, DiskType, WorkersType, FrontendType, ViewType,
         transcript, attached, disk, workers, frontend, view
  <1>4. CASE CompactionStatus
    <2>1. spinner' \in BOOLEAN
      BY <1>4, ReceiveType, CommandFields DEF CompactionStatus, TypeOK
    <2> QED
      BY <1>1, <1>4, <2>1 DEF CompactionStatus, TypeOK, TranscriptType, LoopType,
         ClosingType, AttachedType, DiskType, WorkersType, FrontendType, ViewType,
         transcript, loop, attached, disk, workers, frontend
  <1> QED BY <1>2, <1>3, <1>4

LEMMA SetSessionSummaryType ==
  ASSUME TypeOK, NEW lost, SetSessionSummary(lost)
  PROVE  TypeOK'
  <1>1. /\ Head(chan).session \in Turn /\ Head(chan).first \in Turn
        /\ Tail(chan) \in Seq(Command)
    BY ReceiveType, CommandFields DEF TypeOK, SetSessionSummary
  <1>2. chan' \in Seq(Command) /\ running' \in BOOLEAN
    BY <1>1, ReturnType DEF SetSessionSummary
  <1>3. spent' \in [Counted -> Nat]
    BY WritesFinite, FailingType DEF SetSessionSummary, TypeOK
  <1>4. log' \in [Turn -> Log] /\ row' \in [Turn -> Title] /\ sessionTitle' \in Title
    <2>1. log \in [Turn -> Log] /\ row \in [Turn -> Title] /\ sessionTitle \in Title
      BY DEF TypeOK, DiskType, AttachedType
    <2>2. session = Head(chan).session =>
            session \in Turn /\ SummaryGenerated(log[session], Head(chan).first) \in Log
      BY <1>1, <2>1, LogType
    <2> QED BY <2>1, <2>2 DEF SetSessionSummary, Adopts, Title
  <1> QED
    BY <1>2, <1>3, <1>4 DEF SetSessionSummary, TypeOK, TranscriptType, LoopType,
       ClosingType, AttachedType, DiskType, WorkersType, FrontendType, ViewType,
       transcript, loop, workers, frontend, view

LEMMA CancelType == TypeOK /\ Cancel => TypeOK'
  <1> SUFFICES ASSUME TypeOK, Cancel PROVE TypeOK'
    OBVIOUS
  <1>1. Head(chan).turn \in Turn /\ chan' \in Seq(Command) /\ running' \in BOOLEAN
    BY ReceiveType, CommandFields, ReturnType DEF TypeOK, Cancel
  <1>2. token' \subseteq Turn /\ cancelling' \in Turn \cup {None}
    BY <1>1 DEF Cancel, CancelTokenAtHand, TypeOK, LoopType, WorkersType
  <1> QED
    BY <1>1, <1>2 DEF Cancel, TypeOK, TranscriptType, LoopType, ClosingType, AttachedType,
       DiskType, WorkersType, FrontendType, ViewType, transcript, attached, disk,
       frontend, view

LEMMA StopType ==
  ASSUME TypeOK, NEW lost, Stop(lost)
  PROVE  TypeOK'
  <1>1. chan' \in Seq(Command) /\ running' \in BOOLEAN
    BY ReceiveType, ReturnType DEF TypeOK, Stop
  <1>2. spent' \in [Counted -> Nat]
    <2>1. IsFiniteSet(Pending \cup {"touch"})
      BY FS_Subset, FS_Singleton, FS_Union, ConversationAssumption DEF Pending
    <2> QED BY <2>1, FailingType DEF Stop, TypeOK
  <1>3. log' \in [Turn -> Log]
    BY LogType DEF Stop, TypeOK, DiskType, Pending, Kind
  <1>4. row' \in [Turn -> Title]
    BY DEF Stop, TypeOK, DiskType, AttachedType
  <1>5. token' \subseteq Turn /\ cancelling' \in Turn \cup {None} /\ configs' \subseteq Turn
    BY DEF Stop, CancelTokenAtHand, TypeOK, LoopType, WorkersType, Active
  <1>6. /\ phase' \in [Turn -> Phase] /\ turnSession' \in [Turn -> Turn \cup {None}]
        /\ ViewType'
    BY DEF Stop, TypeOK, TranscriptType, AttachedType, ViewType, Phase
  <1> QED
    BY <1>1, <1>2, <1>3, <1>4, <1>5, <1>6 DEF Stop, TypeOK, TranscriptType, LoopType,
       ClosingType, AttachedType, DiskType, WorkersType, FrontendType, frontend

LEMMA ClearType ==
  ASSUME TypeOK, NEW logged, Clear(logged)
  PROVE  TypeOK'
  <1>1. chan' \in Seq(Command) /\ running' \in BOOLEAN
    BY ReceiveType, ReturnType DEF TypeOK, Clear
  <1>2. token' \subseteq Turn /\ cancelling' \in Turn \cup {None}
    BY DEF Clear, CancelTokenAtHand, TypeOK, LoopType, WorkersType, Active
  <1>3. AttachedType' /\ DiskType' /\ spent' \in [Counted -> Nat]
    <2>1. OnClear(logged) /\ logged \subseteq Turn
      BY DEF Clear, OnClear, Unsettled, Pending, Active
    <2>2. CASE session = None
      BY <2>1, <2>2 DEF OnClear, TypeOK, AttachedType, DiskType, attached, disk
    <2>3. CASE session # None
      <3>1. spent' \in [Counted -> Nat]
        BY <2>1, <2>3, SpendType DEF OnClear, TypeOK, Counted
      <3>2. DiskType'
        <4>1. session \in Turn /\ log \in [Turn -> Log]
          BY <2>3 DEF TypeOK, AttachedType, DiskType
        <4>2. TurnSettled(log[session], logged, "cancelled") \in Log
          BY <2>1, <4>1, LogType DEF Kind
        <4> QED BY <2>1, <2>3, <4>1, <4>2 DEF OnClear, TypeOK, DiskType
      <3> QED BY <2>1, <2>3, <3>1, <3>2 DEF OnClear, TypeOK, AttachedType, Title
    <2> QED BY <2>2, <2>3
  <1>4. TranscriptType'
    BY DEF Clear, TypeOK, TranscriptType, Phase
  <1>5. compaction' \in Summary
        /\ pendingCompaction' \in [turn : Turn \cup {None}, state : Summary]
    BY ValueTypes DEF Clear
  <1> QED
    BY <1>1, <1>2, <1>3, <1>4, <1>5, ZenonT(60) DEF Clear, TypeOK, LoopType, ClosingType, WorkersType,
       FrontendType, ViewType, frontend, view

LEMMA QueryStatusType == TypeOK /\ QueryStatus => TypeOK'
  <1> SUFFICES ASSUME TypeOK, QueryStatus PROVE TypeOK'
    OBVIOUS
  <1>1. chan' \in Seq(Command) /\ running' \in BOOLEAN
    BY ReceiveType, ReturnType DEF TypeOK, QueryStatus
  <1>2. FrontendType'
    BY DEF QueryStatus, Reply, TypeOK, FrontendType
  <1> QED
    BY <1>1, <1>2 DEF QueryStatus, TypeOK, TranscriptType, LoopType, ClosingType,
       AttachedType, DiskType, WorkersType, ViewType, transcript, loop, attached, disk,
       workers, view

LEMMA ResumeSessionType == TypeOK /\ ResumeSession => TypeOK'
  <1> SUFFICES ASSUME TypeOK, ResumeSession PROVE TypeOK'
    OBVIOUS
  <1> DEFINE c == Head(chan)
  <1>1. /\ c.session \in Turn /\ c.title \in Title /\ c.turns \in Restored
        /\ Tail(chan) \in Seq(Command)
    BY ReceiveType, CommandFields DEF TypeOK, ResumeSession
  <1>2. chan' \in Seq(Command) /\ running' \in BOOLEAN
    BY <1>1, ReturnType DEF ResumeSession
  <1>3. TranscriptType'
    <2>1. /\ c.turns.seq \in [Turn -> SeqNo]
          /\ c.turns.result \in [Turn -> Kind \cup {"none"}]
      BY <1>1 DEF Restored
    <2>2. nextSeq' \in Nat
      BY <2>1 DEF ResumeSession, SeqAfter
    <2> QED BY <2>1, <2>2 DEF ResumeSession, TranscriptType, Phase
  <1>4. AttachedType'
    BY <1>1 DEF ResumeSession, AttachedType
  <1>5. LoopType'
    BY <1>1, ValueTypes DEF ResumeSession, TypeOK, LoopType, Restored
  <1>6. FrontendType'
    BY DEF ResumeSession, Reply, TypeOK, FrontendType
  <1> QED
    BY <1>2, <1>3, <1>4, <1>5, <1>6 DEF ResumeSession, TypeOK, ClosingType, DiskType,
       WorkersType, ViewType, disk, workers, view

LEMMA ShutdownType == TypeOK /\ Shutdown => TypeOK'
  <1> SUFFICES ASSUME TypeOK, Shutdown PROVE TypeOK'
    OBVIOUS
  <1>1. chan' \in Seq(Command) /\ running' \in BOOLEAN
    BY ReceiveType, ReturnType DEF TypeOK, Shutdown
  <1>2. phase' \in [Turn -> Phase]
    BY DEF Shutdown, TypeOK, TranscriptType, Phase
  <1> QED
    BY <1>1, <1>2 DEF Shutdown, TypeOK, TranscriptType, LoopType, ClosingType,
       AttachedType, DiskType, WorkersType, FrontendType, ViewType, attached, disk,
       workers, frontend, view

LEMMA CoordinatorType == TypeOK /\ Coordinator => TypeOK'
  BY EnqueueIgnoredType, EnqueueType, SettleType, SettleStaleType, StartActiveType,
     ReportType, SetSessionSummaryType, CancelType, StopType, ClearType, QueryStatusType,
     ResumeSessionType, ShutdownType
  DEF Coordinator

\* What a worker changes: the channel, its own entry of worker and job, the bounds.
LEMMA WorkerStepType ==
  ASSUME TypeOK, NEW t \in Turn, Worker(t)
  PROVE  /\ chan' \in Seq(Command) /\ spent' \in [Counted -> Nat]
         /\ worker' \in [Turn -> Live \cup {"ending", "off"}] /\ job' \in [Turn -> Job]
  <1> USE DEF TypeOK, WorkersType, Live
  <1> DEFINE Goal == /\ chan' \in Seq(Command) /\ spent' \in [Counted -> Nat]
                     /\ worker' \in [Turn -> Live \cup {"ending", "off"}]
                     /\ job' \in [Turn -> Job]
  <1>1. ASSUME NEW kind \in Kind, End(t, kind) PROVE Goal
    <2>1. [op |-> "Settle", turn |-> t, kind |-> kind] \in Command
      BY DEF Command
    <2> QED BY <1>1, <2>1, SendType, ValueTypes DEF End
  <1>2. CASE CallProvider(t)
    BY <1>2 DEF CallProvider
  <1>3. CASE StartFolding(t)
    <2>1. [op |-> "CompactionStatus", turn |-> t, active |-> TRUE] \in Command
      BY DEF Command
    <2>2. chan' \in Seq(Command) /\ spent' \in [Counted -> Nat]
      BY <1>3, <2>1, SendType, SpendType DEF StartFolding, Counted
    <2>3. job' \in [Turn -> Job]
      <3> DEFINE plan(cut) == [folded  |-> job[t].base.folded
                                 \cup {u \in job[t].history : seq[u] <= seq[cut]},
                               through |-> seq[cut]]
      <3> PICK cut \in job[t].history : job' = [job EXCEPT ![t].folding = plan(cut)]
        BY <1>3 DEF StartFolding
      <3>1. job[t].history \subseteq Turn /\ job[t].base.folded \subseteq Turn
        BY DEF Job, Summary
      <3>2. seq[cut] \in SeqNo
        BY <3>1 DEF TranscriptType
      <3>3. plan(cut) \in Summary
        BY <3>1, <3>2 DEF Summary
      <3> HIDE DEF plan
      <3>4. [job[t] EXCEPT !.folding = plan(cut)] \in Job
        BY <3>3, FoldingType
      <3> QED BY <3>4
    <2> QED BY <1>3, <2>2, <2>3 DEF StartFolding
  <1>4. CASE StopFolding(t)
    <2>1. [op |-> "CompactionStatus", turn |-> t, active |-> FALSE] \in Command
      BY DEF Command
    <2> QED BY <1>4, <2>1, SendType DEF StopFolding
  <1>5. CASE ReportCompaction(t)
    <2>1. [op |-> "Compacted", turn |-> t, state |-> job[t].folding] \in Command
      BY DEF Command, Job
    <2> QED BY <1>5, <2>1, SendType DEF ReportCompaction
  <1>6. CASE Stream(t)
    <2>1. [op |-> "Delta", turn |-> t] \in Command
      BY DEF Command
    <2> QED BY <1>6, <2>1, SendType, SpendType DEF Stream, Counted
  <1>7. CASE Complete(t) \/ NoticeCancel(t) \/ Fail(t)
    BY <1>1, <1>7 DEF Complete, NoticeCancel, Fail, Kind
  <1>8. CASE EndThread(t)
    <2>1. [op |-> "Settle", turn |-> t, kind |-> "error"] \in Command
      BY DEF Command, Kind
    <2> QED BY <1>8, <2>1, SendType, SpendType DEF EndThread, Counted
  <1> QED
    BY <1>2, <1>3, <1>4, <1>5, <1>6, <1>7, <1>8 DEF Worker

LEMMA WorkerType ==
  ASSUME TypeOK, NEW t \in Turn, Worker(t)
  PROVE  TypeOK'
  BY WorkerStepType DEF Worker, TypeOK, TranscriptType, LoopType, ClosingType, AttachedType,
     DiskType, WorkersType, FrontendType, ViewType, transcript, loop, closing, attached,
     disk, frontend, view

LEMMA TitleThreadType ==
  ASSUME TypeOK, NEW j \in titling, TitleThread(j)
  PROVE  TypeOK'
  <1>1. chan' \in Seq(Command)
    <2>1. [op |-> "SetSessionSummary", session |-> j.session, first |-> j.first] \in Command
      BY DEF TypeOK, Command
    <2> QED BY <2>1, SendType DEF TitleThread, TypeOK
  <1> QED
    BY <1>1 DEF TitleThread, TypeOK, TranscriptType, LoopType, ClosingType, AttachedType,
       DiskType, WorkersType, FrontendType, ViewType, transcript, loop, closing, attached,
       disk, workers, frontend, view

LEMMA ClientUnchanged ==
  /\ ViewType /\ UNCHANGED view => ViewType'
  /\ FrontendType /\ UNCHANGED frontend => FrontendType'
  BY DEF ViewType, view, FrontendType, frontend

LEMMA AnswerType ==
  ASSUME FrontendType, Answer
  PROVE  FrontendType'
  <1>1. rpc' \in [id : Nat, session : Turn \cup {None},
                  reply : {"none", "idle", "busy", "attached"}]
    BY DEF FrontendType, Answer
  <1> QED BY <1>1 DEF FrontendType, Answer

\* What the request loop changes, serving a request.
LEMMA ServeStepType ==
  ASSUME TypeOK, Serve
  PROVE  /\ chan' \in Seq(Command) /\ spent' \in [Counted -> Nat]
         /\ FrontendType' /\ ViewType' /\ abandoned' \subseteq Turn
  <1> DEFINE Goal == /\ chan' \in Seq(Command) /\ spent' \in [Counted -> Nat]
                     /\ FrontendType' /\ ViewType' /\ abandoned' \subseteq Turn
  <1>1. ASSUME NEW t \in Turn, NEW config \in BOOLEAN, Submit(t, config) PROVE Goal
    <2>1. [op |-> "Enqueue", turn |-> t, config |-> config] \in Command
      BY DEF Command
    <2> QED
      BY <1>1, <2>1, SendType DEF Submit, TypeOK, FrontendType, ViewType, frontend
  <1>2. ASSUME NEW t \in Turn, RequestCancel(t) PROVE Goal
    <2>1. [op |-> "Cancel", turn |-> t] \in Command
      BY DEF Command
    <2> QED
      BY <1>2, <2>1, SendType, SpendType DEF RequestCancel, Ask, Counted, TypeOK,
         FrontendType, ViewType, frontend, view
  <1>3. CASE RequestStop \/ RequestClear
    <2>1. [op |-> "Stop"] \in Command /\ [op |-> "Clear"] \in Command
      BY DEF Command
    <2> QED
      <3>1. chan' \in Seq(Command) /\ spent' \in [Counted -> Nat]
        BY <1>3, <2>1, SendType, SpendType
        DEF RequestStop, RequestClear, Ask, Counted, TypeOK
      <3>2. abandoned' \subseteq Turn
        BY <1>3 DEF RequestStop, RequestClear, TypeOK
      <3> QED
        BY <1>3, <3>1, <3>2, ClientUnchanged DEF RequestStop, RequestClear, TypeOK
  <1>4. ASSUME NEW s \in Turn, RequestResume(s) PROVE Goal
    <2>1. [op |-> "QueryStatus", id |-> rpc.id + 1] \in Command
      BY DEF TypeOK, FrontendType, Command
    <2> QED
      <3>1. chan' \in Seq(Command) /\ spent' \in [Counted -> Nat]
        BY <1>4, <2>1, SendType, SpendType DEF RequestResume, Ask, Counted, TypeOK
      <3>2. FrontendType'
        BY <1>4, ConversationAssumption DEF RequestResume, TypeOK, FrontendType
      <3> QED BY <1>4, <3>1, <3>2 DEF RequestResume, TypeOK, ViewType, view
  <1>5. CASE RefuseResume \/ ConfirmResume
    BY <1>5, AnswerType, ClientUnchanged DEF RefuseResume, ConfirmResume, TypeOK
  <1>6. CASE SendResume
    <2>1. [op |-> "ResumeSession", id |-> rpc.id, session |-> rpc.session,
           title |-> row[rpc.session], turns |-> Restore(log[rpc.session])] \in Command
      <3>1. rpc.id \in Nat /\ rpc.session \in Turn
        BY <1>6 DEF SendResume, TypeOK, FrontendType
      <3>2. row[rpc.session] \in Title /\ Restore(log[rpc.session]) \in Restored
        BY <3>1, RestoreType DEF TypeOK, DiskType
      <3> QED BY <3>1, <3>2 DEF Command
    <2> QED
      <3>1. chan' \in Seq(Command)
        BY <1>6, <2>1, SendType DEF SendResume, TypeOK
      <3>2. FrontendType'
        BY <1>6 DEF SendResume, TypeOK, FrontendType
      <3> QED BY <1>6, <3>1, <3>2, ClientUnchanged DEF SendResume, TypeOK
  <1>7. CASE TimeOut
    BY <1>7, AnswerType, ClientUnchanged, SpendType DEF TimeOut, Counted, TypeOK
  <1>8. ASSUME NEW polite \in BOOLEAN, EndOfInput(polite) PROVE Goal
    <2>1. [op |-> "Shutdown"] \in Command
      BY DEF Command
    <2> QED
      BY <1>8, <2>1, SendType DEF EndOfInput, TypeOK, FrontendType, ViewType, view
  <1> QED
    BY <1>1, <1>2, <1>3, <1>4, <1>5, <1>6, <1>7, <1>8 DEF Serve

LEMMA ServeType == TypeOK /\ Serve => TypeOK'
  BY ServeStepType DEF Serve, TypeOK, TranscriptType, LoopType, ClosingType, AttachedType,
     DiskType, WorkersType, transcript, loop, closing, attached, disk, workers

LEMMA ShutdownAndJoinType == TypeOK /\ ShutdownAndJoin => TypeOK'
  <1> SUFFICES ASSUME TypeOK, ShutdownAndJoin PROVE TypeOK'
    OBVIOUS
  <1>1. chan' \in Seq(Command)
    <2>1. [op |-> "Shutdown"] \in Command
      BY DEF Command
    <2> QED BY <2>1, SendType DEF ShutdownAndJoin, RaiseFlag, SendShutdown, Join, TypeOK
  <1>2. shutdownRequested' \in BOOLEAN /\ FrontendType'
    BY DEF ShutdownAndJoin, RaiseFlag, SendShutdown, Join, TypeOK, ClosingType, FrontendType
  <1> QED
    BY <1>1, <1>2 DEF ShutdownAndJoin, TypeOK, TranscriptType, LoopType, ClosingType,
       AttachedType, DiskType, WorkersType, ViewType, transcript, loop, attached, disk,
       workers, view

LEMMA RestartType == TypeOK /\ Restart => TypeOK'
  <1> SUFFICES ASSUME TypeOK, Restart PROVE TypeOK'
    OBVIOUS
  <1>1. chan' \in Seq(Command) /\ spent' \in [Counted -> Nat]
    BY SpendType DEF Restart, Counted, TypeOK
  <1>2. TranscriptType' /\ ClosingType' /\ AttachedType'
    BY DEF Restart, TranscriptType, ClosingType, AttachedType, Phase, Title
  <1>3. LoopType'
    BY ValueTypes DEF Restart, LoopType
  <1>4. DiskType' /\ WorkersType'
    BY ValueTypes DEF Restart, TypeOK, DiskType, WorkersType, disk
  <1>5. FrontendType' /\ ViewType'
    BY DEF Restart, TypeOK, FrontendType, ViewType
  <1> QED BY <1>1, <1>2, <1>3, <1>4, <1>5 DEF Restart, TypeOK

LEMMA StutterType == TypeOK /\ UNCHANGED vars => TypeOK'
  BY DEF vars, TypeOK, TranscriptType, LoopType, ClosingType, AttachedType, DiskType,
     WorkersType, FrontendType, ViewType, transcript, loop, closing, attached, disk,
     workers, frontend, view

\* Every variable keeps its type, whatever the coordinator, the workers, the request loop
\* and a restart do (the handlers of state.rs and the request loop of backend/mod.rs):
\* in particular no cancellation token is used when none is at hand, no write goes to a
\* session that is not attached, and no sequence number runs below zero.
THEOREM TypeCorrect == Spec => []TypeOK
  <1>1. TypeOK /\ [Next]_vars => TypeOK'
    BY CoordinatorType, WorkerType, TitleThreadType, ServeType, ShutdownAndJoinType,
       RestartType, StutterType
    DEF Next
  <1> QED BY InitType, <1>1, PTL DEF Spec

-----------------------------------------------------------------------------
(* A session is attached only while no turn is active or pending *)

At(i, op) == chan[i].op = op

\* Status queries carry the ids of requests made so far.
QueryIds == \A i \in DOMAIN chan : At(i, "QueryStatus") => chan[i].id <= rpc.id

\* While the request loop waits for a status, nothing is submitted behind its query.
QueryIsLast ==
  main = "querying" =>
    \A i, j \in DOMAIN chan :
      At(i, "QueryStatus") /\ chan[i].id = rpc.id /\ At(j, "Enqueue") => j < i

\* So an idle answer stays true until the request loop acts on it.
IdleStaysTrue ==
  main = "querying" /\ rpc.reply = "idle" =>
    Unsettled = {} /\ \A i \in DOMAIN chan : ~At(i, "Enqueue")

\* And a session on its way to be attached overtakes no turn.
AttachBeforeEnqueue ==
  \A i \in DOMAIN chan :
    At(i, "ResumeSession") =>
      Unsettled = {} /\ \A j \in DOMAIN chan : At(j, "Enqueue") => i < j

ResumeInv == QueryIds /\ QueryIsLast /\ IdleStaysTrue /\ AttachBeforeEnqueue

\* What most steps do: the channel loses commands at its front or gains one that is none
\* of the three, no turn becomes unsettled, and the request loop is not answered "idle".
Calm ==
  /\ Unsettled' \subseteq Unsettled
  /\ rpc'.id = rpc.id
  /\ main' = "querying" => /\ main = "querying"
                           /\ rpc'.reply = "idle" => rpc.reply = "idle"

LEMMA CalmReceive ==
  ASSUME ResumeInv, Calm, NEW k \in Nat,
         \A i \in DOMAIN chan' : i \in Int /\ i + k \in DOMAIN chan /\ chan'[i] = chan[i + k]
  PROVE  ResumeInv'
  <1>1. QueryIds'
    BY DEF ResumeInv, QueryIds, Calm, At
  <1>2. QueryIsLast'
    BY DEF ResumeInv, QueryIsLast, Calm, At
  <1>3. IdleStaysTrue'
    BY DEF ResumeInv, IdleStaysTrue, Calm, At
  <1>4. AttachBeforeEnqueue'
    BY DEF ResumeInv, AttachBeforeEnqueue, Calm, At
  <1> QED BY <1>1, <1>2, <1>3, <1>4 DEF ResumeInv

LEMMA CalmSend ==
  ASSUME ResumeInv, Calm, chan \in Seq(Command), NEW c,
         c.op \notin {"Enqueue", "QueryStatus", "ResumeSession"},
         Send(c)
  PROVE  ResumeInv'
  <1>1. CASE chan' = chan
    <2>1. \A i \in DOMAIN chan' : i \in Int /\ i + 0 \in DOMAIN chan /\ chan'[i] = chan[i + 0]
      BY <1>1
    <2> QED BY <2>1, CalmReceive
  <1>2. CASE chan' = Append(chan, c)
    <2>1. \A i \in DOMAIN chan' : (i \in DOMAIN chan /\ chan'[i] = chan[i]) \/ chan'[i] = c
      BY <1>2
    <2>2. DOMAIN chan \subseteq DOMAIN chan'
      BY <1>2
    <2>3. QueryIds'
      BY <2>1 DEF ResumeInv, QueryIds, Calm, At
    <2>4. QueryIsLast'
      BY <2>1 DEF ResumeInv, QueryIsLast, Calm, At
    <2>5. IdleStaysTrue'
      BY <2>1 DEF ResumeInv, IdleStaysTrue, Calm, At
    <2>6. AttachBeforeEnqueue'
      BY <2>1 DEF ResumeInv, AttachBeforeEnqueue, Calm, At
    <2> QED BY <2>3, <2>4, <2>5, <2>6 DEF ResumeInv
  <1> QED BY <1>1, <1>2 DEF Send

\* A handler takes the head, or leaves the channel as it is, or empties it.
LEMMA ReturnShifts ==
  ASSUME chan \in Seq(Command), NEW rest,
         rest = chan \/ (chan # <<>> /\ rest = Tail(chan)), Return(rest)
  PROVE  \E k \in Nat : \A i \in DOMAIN chan' :
           i \in Int /\ i + k \in DOMAIN chan /\ chan'[i] = chan[i + k]
  <1>1. CASE chan' = <<>>
    BY <1>1
  <1>2. CASE chan' = chan
    <2>1. \A i \in DOMAIN chan' : i \in Int /\ i + 0 \in DOMAIN chan /\ chan'[i] = chan[i + 0]
      BY <1>2
    <2> QED BY <2>1
  <1>3. CASE chan # <<>> /\ chan' = Tail(chan)
    <2>1. \A i \in DOMAIN chan' : i \in Int /\ i + 1 \in DOMAIN chan /\ chan'[i] = chan[i + 1]
      BY <1>3
    <2> QED BY <2>1
  <1> QED BY <1>1, <1>2, <1>3 DEF Return

\* A handler that lets no turn become unsettled and leaves the request loop alone.
LEMMA CalmHandler ==
  ASSUME TypeOK, ResumeInv, Unsettled' \subseteq Unsettled, UNCHANGED <<main, rpc>>,
         NEW rest, rest = chan \/ (chan # <<>> /\ rest = Tail(chan)), Return(rest)
  PROVE  ResumeInv'
  <1>1. Calm
    BY DEF Calm
  <1>2. PICK k \in Nat : \A i \in DOMAIN chan' :
                           i \in Int /\ i + k \in DOMAIN chan /\ chan'[i] = chan[i + k]
    BY ReturnShifts DEF TypeOK
  <1> QED BY <1>1, <1>2, CalmReceive

LEMMA SettleKeepsSettled ==
  ASSUME TypeOK, NEW t, NEW k, NEW lost, SettleActive(t, k, lost)
  PROVE  Unsettled' \subseteq Unsettled /\ UNCHANGED <<main, rpc>>
  BY DEF SettleActive, frontend, TypeOK, TranscriptType, Unsettled, Pending, Active, FirstPending

\* The handlers that neither enqueue nor answer.
LEMMA HandlerResume ==
  ASSUME TypeOK, ResumeInv, Coordinator,
         ~ \E fault \in EnqueueFault : Enqueue(fault),
         ~ QueryStatus, ~ ResumeSession
  PROVE  ResumeInv'
  <1> DEFINE Quiet == /\ Unsettled' \subseteq Unsettled /\ UNCHANGED <<main, rpc>>
                      /\ Return(chan) \/ (chan # <<>> /\ Return(Tail(chan)))
  <1>1. EnqueueIgnored \/ SettleStale \/ Delta \/ CompactedReported \/ CompactionStatus
          => Quiet
    BY DEF EnqueueIgnored, SettleStale, Delta, CompactedReported, CompactionStatus, Receive,
       transcript, frontend, Unsettled, Pending, Active
  <1>2. ASSUME NEW lost, Settle(lost) PROVE Quiet
    <2>1. SettleActive(Head(chan).turn, Head(chan).kind, lost)
      BY <1>2 DEF Settle
    <2> QED
      BY <1>2, <2>1, SettleKeepsSettled DEF Settle, Receive
  <1>3. ASSUME NEW t \in Turn, StartActive(t) PROVE Quiet
    <2>1. CASE StartWorker(t)
      <3>1. UNCHANGED <<phase, main, rpc>> /\ Return(chan)
        BY <2>1 DEF StartWorker, transcript, frontend
      <3> QED BY <3>1 DEF Unsettled, Pending, Active
    <2>2. ASSUME NEW lost, Unconfigured(t, lost) PROVE Quiet
      BY <2>2, SettleKeepsSettled DEF Unconfigured
    <2> QED BY <1>3, <2>1, <2>2 DEF StartActive
  <1>4. ASSUME NEW lost, SetSessionSummary(lost) PROVE Quiet
    BY <1>4 DEF SetSessionSummary, Receive, transcript, frontend, Unsettled, Pending, Active
  <1>5. Cancel => Quiet
    BY DEF Cancel, Receive, transcript, frontend, Unsettled, Pending, Active
  <1>6. ASSUME NEW lost, Stop(lost) PROVE Quiet
    BY <1>6 DEF Stop, Receive, frontend, Unsettled, Pending, Active
  <1>7. ASSUME NEW logged, Clear(logged) PROVE Quiet
    BY <1>7 DEF Clear, KeptByClear, Receive, frontend, Unsettled, Pending, Active
  <1>8. Shutdown => Quiet
    BY DEF Shutdown, Receive, frontend, Unsettled, Pending, Active
  <1>9. Quiet
    BY <1>1, <1>2, <1>3, <1>4, <1>5, <1>6, <1>7, <1>8 DEF Coordinator
  <1> QED BY <1>9, CalmHandler

\* A turn is enqueued: it was ahead of every session to attach, so there is none.
LEMMA EnqueueResume ==
  ASSUME TypeOK, ResumeInv, NEW fault \in EnqueueFault, Enqueue(fault)
  PROVE  ResumeInv'
  <1>1. /\ chan # <<>> /\ Head(chan).op = "Enqueue" /\ chan[1].op = "Enqueue"
        /\ 1 \in DOMAIN chan /\ UNCHANGED <<main, rpc>> /\ Return(Tail(chan))
    BY DEF Enqueue, Receive, TypeOK, frontend
  <1>2. \A i \in DOMAIN chan : ~At(i, "ResumeSession")
    BY <1>1 DEF ResumeInv, AttachBeforeEnqueue, At, TypeOK
  <1>3. ~(main = "querying" /\ rpc.reply = "idle")
    BY <1>1 DEF ResumeInv, IdleStaysTrue, At
  <1>4. PICK k \in Nat : \A i \in DOMAIN chan' :
                           i \in Int /\ i + k \in DOMAIN chan /\ chan'[i] = chan[i + k]
    BY <1>1, ReturnShifts DEF TypeOK
  <1>5. QueryIds' /\ QueryIsLast'
    BY <1>1, <1>4 DEF ResumeInv, QueryIds, QueryIsLast, At
  <1>6. IdleStaysTrue' /\ AttachBeforeEnqueue'
    BY <1>1, <1>2, <1>3, <1>4 DEF IdleStaysTrue, AttachBeforeEnqueue, At
  <1> QED BY <1>5, <1>6 DEF ResumeInv

\* The status is read: an idle answer to the current request finds nothing enqueued.
LEMMA QueryStatusResume ==
  ASSUME TypeOK, ResumeInv, QueryStatus
  PROVE  ResumeInv'
  <1>1. /\ chan # <<>> /\ chan[1].op = "QueryStatus" /\ Head(chan) = chan[1]
        /\ 1 \in DOMAIN chan /\ UNCHANGED <<main, phase>> /\ Return(Tail(chan))
    BY DEF QueryStatus, Receive, TypeOK, transcript
  <1>2. Unsettled' = Unsettled
    BY <1>1 DEF Unsettled, Pending, Active
  <1>3. rpc \in [id : Nat, session : Turn \cup {None},
                 reply : {"none", "idle", "busy", "attached"}]
    BY DEF TypeOK, FrontendType
  <1>4. rpc'.id = rpc.id
    BY <1>3 DEF QueryStatus, Reply
  <1>5. PICK k \in Nat : \A i \in DOMAIN chan' :
                           i \in Int /\ i + k \in DOMAIN chan /\ chan'[i] = chan[i + k]
    BY <1>1, ReturnShifts DEF TypeOK
  <1>6. CASE rpc' = rpc
    BY <1>1, <1>2, <1>5, <1>6, CalmReceive DEF Calm
  <1>7. CASE rpc' # rpc
    <2>1. main = "querying" /\ chan[1].id = rpc.id
      BY <1>1, <1>7 DEF QueryStatus, Reply
    <2>2. rpc'.reply = "idle" => Unsettled = {}
      BY <1>3, <2>1, <1>7 DEF QueryStatus, Reply
    <2>3. \A i \in DOMAIN chan : ~At(i, "Enqueue")
      BY <1>1, <2>1 DEF ResumeInv, QueryIsLast, At, TypeOK
    <2>4. IdleStaysTrue'
      BY <1>2, <1>5, <2>2, <2>3 DEF IdleStaysTrue, At
    <2>5. QueryIds' /\ QueryIsLast' /\ AttachBeforeEnqueue'
      BY <1>1, <1>2, <1>4, <1>5
      DEF ResumeInv, QueryIds, QueryIsLast, AttachBeforeEnqueue, At
    <2> QED BY <2>4, <2>5 DEF ResumeInv
  <1> QED BY <1>6, <1>7

\* A session is attached: the transcript holds settled turns only.
LEMMA ResumeSessionResume ==
  ASSUME TypeOK, ResumeInv, ResumeSession
  PROVE  ResumeInv'
  <1>1. chan # <<>> /\ Return(Tail(chan)) /\ UNCHANGED main
    BY DEF ResumeSession, Receive
  <1>2. Unsettled' = {}
    BY DEF ResumeSession, Unsettled, Pending, Active
  <1>3. rpc \in [id : Nat, session : Turn \cup {None},
                 reply : {"none", "idle", "busy", "attached"}]
    BY DEF TypeOK, FrontendType
  <1>4. Calm
    BY <1>1, <1>2, <1>3 DEF ResumeSession, Reply, Calm
  <1>5. PICK k \in Nat : \A i \in DOMAIN chan' :
                           i \in Int /\ i + k \in DOMAIN chan /\ chan'[i] = chan[i + k]
    BY <1>1, ReturnShifts DEF TypeOK
  <1> QED BY <1>4, <1>5, CalmReceive

\* Workers and title threads send other commands.
LEMMA ThreadResume ==
  ASSUME TypeOK, ResumeInv,
         (\E t \in Turn : Worker(t)) \/ (\E j \in titling : TitleThread(j))
  PROVE  ResumeInv'
  <1>1. Calm
    BY DEF Calm, Worker, TitleThread, transcript, frontend, Unsettled, Pending, Active
  <1>2. chan' = chan \/ \E c : /\ c.op \notin {"Enqueue", "QueryStatus", "ResumeSession"}
                               /\ Send(c)
    BY DEF Worker, CallProvider, StartFolding, StopFolding, ReportCompaction, Stream,
       Complete, NoticeCancel, Fail, End, EndThread, TitleThread
  <1>3. CASE chan' = chan
    <2>1. \A i \in DOMAIN chan' : i \in Int /\ i + 0 \in DOMAIN chan /\ chan'[i] = chan[i + 0]
      BY <1>3 DEF TypeOK
    <2> QED BY <1>1, <2>1, CalmReceive
  <1>4. CASE \E c : c.op \notin {"Enqueue", "QueryStatus", "ResumeSession"} /\ Send(c)
    BY <1>1, <1>4, CalmSend DEF TypeOK
  <1> QED BY <1>2, <1>3, <1>4

\* A submit, which the request loop handles only between two resumes.
LEMMA SubmitResume ==
  ASSUME TypeOK, ResumeInv, Unsettled' = Unsettled, UNCHANGED <<main, rpc>>,
         NEW t \in Turn, NEW config \in BOOLEAN, Submit(t, config)
  PROVE  ResumeInv'
  <1> DEFINE c == [op |-> "Enqueue", turn |-> t, config |-> config]
  <1>1. main' = "serving" /\ c.op = "Enqueue" /\ (chan' = chan \/ chan' = Append(chan, c))
    BY DEF Submit, Send
  <1>2. \A i \in DOMAIN chan' :
          \/ i \in DOMAIN chan /\ chan'[i] = chan[i]
          \/ i = Len(chan) + 1 /\ chan'[i] = c
    BY <1>1 DEF TypeOK
  <1>3. \A i \in DOMAIN chan : i \in Int /\ i < Len(chan) + 1
    BY DEF TypeOK
  <1> HIDE DEF c
  <1>4. QueryIds' /\ QueryIsLast' /\ IdleStaysTrue'
    BY <1>1, <1>2 DEF ResumeInv, QueryIds, QueryIsLast, IdleStaysTrue, At
  <1>5. AttachBeforeEnqueue'
    BY <1>1, <1>2, <1>3 DEF ResumeInv, AttachBeforeEnqueue, At
  <1> QED BY <1>4, <1>5 DEF ResumeInv

\* A resume: its query has an id no other query has, and is the last command.
LEMMA RequestResumeResume ==
  ASSUME TypeOK, ResumeInv, Unsettled' = Unsettled, NEW s \in Turn, RequestResume(s)
  PROVE  ResumeInv'
  <1> DEFINE c == [op |-> "QueryStatus", id |-> rpc.id + 1]
  <1>1. /\ c.op = "QueryStatus" /\ c.id = rpc.id + 1
        /\ chan' = chan \/ chan' = Append(chan, c)
        /\ rpc'.id = rpc.id + 1 /\ rpc'.reply = "none" /\ rpc.id \in Nat
    BY DEF RequestResume, Send, TypeOK, FrontendType
  <1>2. \A i \in DOMAIN chan' :
          \/ i \in DOMAIN chan /\ chan'[i] = chan[i]
          \/ i = Len(chan) + 1 /\ chan'[i] = c
    BY <1>1 DEF TypeOK
  <1>3. \A i \in DOMAIN chan : i \in Int /\ i < Len(chan) + 1
    BY DEF TypeOK
  <1>4. \A i \in DOMAIN chan : chan[i].op = "QueryStatus" => chan[i].id \in Nat
    BY CommandFields DEF TypeOK
  <1> HIDE DEF c
  <1>5. QueryIds'
    BY <1>1, <1>2, <1>4 DEF ResumeInv, QueryIds, At
  <1>6. QueryIsLast'
    BY <1>1, <1>2, <1>3, <1>4 DEF ResumeInv, QueryIds, QueryIsLast, At
  <1>7. IdleStaysTrue'
    BY <1>1 DEF IdleStaysTrue
  <1>8. AttachBeforeEnqueue'
    BY <1>1, <1>2, <1>3 DEF ResumeInv, AttachBeforeEnqueue, At
  <1> QED BY <1>5, <1>6, <1>7, <1>8 DEF ResumeInv

\* The answer was idle, and still is what the coordinator would say.
LEMMA SendResumeResume ==
  ASSUME TypeOK, ResumeInv, Unsettled' = Unsettled, SendResume
  PROVE  ResumeInv'
  <1> DEFINE c == [op |-> "ResumeSession", id |-> rpc.id, session |-> rpc.session,
                   title |-> row[rpc.session], turns |-> Restore(log[rpc.session])]
  <1>1. /\ c.op = "ResumeSession" /\ (chan' = chan \/ chan' = Append(chan, c))
        /\ main' = "attaching" /\ rpc'.id = rpc.id
    BY DEF SendResume, Send, TypeOK, FrontendType
  <1>2. \A i \in DOMAIN chan' : (i \in DOMAIN chan /\ chan'[i] = chan[i]) \/ chan'[i] = c
    BY <1>1 DEF TypeOK
  <1>3. Unsettled = {} /\ \A i \in DOMAIN chan : ~At(i, "Enqueue")
    BY DEF SendResume, ResumeInv, IdleStaysTrue
  <1> HIDE DEF c
  <1>4. QueryIds' /\ QueryIsLast' /\ IdleStaysTrue'
    BY <1>1, <1>2 DEF ResumeInv, QueryIds, QueryIsLast, IdleStaysTrue, At
  <1>5. AttachBeforeEnqueue'
    BY <1>1, <1>2, <1>3 DEF AttachBeforeEnqueue, At
  <1> QED BY <1>4, <1>5 DEF ResumeInv

LEMMA ServeResume ==
  ASSUME TypeOK, ResumeInv, Serve
  PROVE  ResumeInv'
  <1>1. Unsettled' = Unsettled
    BY DEF Serve, transcript, Unsettled, Pending, Active
  <1>2. ASSUME NEW c, c.op \notin {"Enqueue", "QueryStatus", "ResumeSession"}, Send(c),
               UNCHANGED <<main, rpc>> \/ (main' # "querying" /\ UNCHANGED rpc)
        PROVE  ResumeInv'
    BY <1>1, <1>2, CalmSend DEF Calm, TypeOK
  <1>3. ASSUME NEW t \in Turn, NEW config \in BOOLEAN, Submit(t, config) PROVE ResumeInv'
    BY <1>1, <1>3, SubmitResume DEF Submit, frontend
  <1>4. ASSUME NEW t \in Turn, RequestCancel(t) PROVE ResumeInv'
    BY <1>2, <1>4 DEF RequestCancel, frontend
  <1>5. CASE RequestStop \/ RequestClear
    BY <1>2, <1>5 DEF RequestStop, RequestClear, frontend
  <1>6. ASSUME NEW s \in Turn, RequestResume(s) PROVE ResumeInv'
    BY <1>1, <1>6, RequestResumeResume
  <1>7. CASE SendResume
    BY <1>1, <1>7, SendResumeResume
  <1>8. ASSUME chan' = chan, main' # "querying", rpc'.id = rpc.id PROVE ResumeInv'
    <2>1. \A i \in DOMAIN chan' : i \in Int /\ i + 0 \in DOMAIN chan /\ chan'[i] = chan[i + 0]
      BY <1>8 DEF TypeOK
    <2> QED BY <1>1, <1>8, <2>1, CalmReceive DEF Calm
  <1>9. CASE RefuseResume \/ ConfirmResume \/ TimeOut
    <2>1. chan' = chan /\ main' # "querying" /\ rpc'.id = rpc.id
      BY <1>9 DEF RefuseResume, ConfirmResume, TimeOut, Answer, TypeOK, FrontendType
    <2> QED BY <1>8, <2>1
  <1>10. ASSUME NEW polite \in BOOLEAN, EndOfInput(polite) PROVE ResumeInv'
    BY <1>2, <1>8, <1>10 DEF EndOfInput
  <1> QED
    BY <1>3, <1>4, <1>5, <1>6, <1>7, <1>9, <1>10 DEF Serve

LEMMA ShutdownAndJoinResume ==
  ASSUME TypeOK, ResumeInv, ShutdownAndJoin
  PROVE  ResumeInv'
  <1>1. Calm
    BY DEF Calm, ShutdownAndJoin, RaiseFlag, SendShutdown, Join, transcript, Unsettled,
       Pending, Active
  <1>2. CASE chan' = chan
    <2>1. \A i \in DOMAIN chan' : i \in Int /\ i + 0 \in DOMAIN chan /\ chan'[i] = chan[i + 0]
      BY <1>2 DEF TypeOK
    <2> QED BY <1>1, <2>1, CalmReceive
  <1>3. CASE Send([op |-> "Shutdown"])
    BY <1>1, <1>3, CalmSend DEF TypeOK
  <1> QED BY <1>2, <1>3 DEF ShutdownAndJoin, RaiseFlag, SendShutdown, Join

LEMMA RestartResume ==
  ASSUME Restart
  PROVE  ResumeInv'
  BY DEF Restart, ResumeInv, QueryIds, QueryIsLast, IdleStaysTrue, AttachBeforeEnqueue

LEMMA ResumeInvStep ==
  ASSUME TypeOK, ResumeInv, [Next]_vars
  PROVE  ResumeInv'
  <1>1. CASE Coordinator
    BY <1>1, HandlerResume, EnqueueResume, QueryStatusResume, ResumeSessionResume
  <1>2. CASE UNCHANGED vars
    BY <1>2 DEF vars, transcript, frontend, ResumeInv, QueryIds, QueryIsLast,
       IdleStaysTrue, AttachBeforeEnqueue, At, Unsettled, Pending, Active
  <1> QED
    BY <1>1, <1>2, ThreadResume, ServeResume, ShutdownAndJoinResume, RestartResume DEF Next

\* The two invariants hold together.
LEMMA TypeAndResume == Spec => [](TypeOK /\ ResumeInv)
  <1>1. Init => ResumeInv
    BY DEF Init, ResumeInv, QueryIds, QueryIsLast, IdleStaysTrue, AttachBeforeEnqueue
  <1>2. TypeOK /\ ResumeInv /\ [Next]_vars => ResumeInv'
    BY ResumeInvStep
  <1> QED BY <1>1, <1>2, TypeCorrect, PTL DEF Spec

LEMMA ResumeInvSuffices == TypeOK /\ ResumeInv => ResumeOnlyWhenIdle
  <1> SUFFICES ASSUME TypeOK, ResumeInv, chan # <<>>, Head(chan).op = "ResumeSession"
               PROVE  Unsettled = {}
    BY DEF ResumeOnlyWhenIdle
  <1>1. 1 \in DOMAIN chan /\ At(1, "ResumeSession")
    BY DEF TypeOK, At
  <1> QED BY <1>1 DEF ResumeInv, AttachBeforeEnqueue

\* No session is attached over a turn that is active or pending, although the request loop
\* asks for the status, reads the log and sends the attachment in three steps, gives up
\* after 250 ms and leaves its commands in the channel (resume_session, sessions.rs).
THEOREM ResumesOnlyWhenIdle == Spec => []ResumeOnlyWhenIdle
  BY TypeAndResume, ResumeInvSuffices, PTL

-----------------------------------------------------------------------------
(* The inductive invariant of cancellation *)

\* Nothing was heard of turn t yet.
Fresh(t) ==
  /\ t \notin token /\ t \notin Unsettled
  /\ verdict[t] = "none"
  /\ \A s \in Turn : log[s].result[t] = "none"

OneActive == \A t, u \in Active : t = u

\* Unsettled turns have numbers of their own, below the next one.
QueueOrder ==
  /\ \A t \in Unsettled : seq[t] < nextSeq
  /\ \A t, u \in Unsettled : seq[t] = seq[u] => t = u

\* The coordinator's references are to the active turn.
AboutActive ==
  /\ cancelling # None => cancelling \in Active
  /\ activeCancel # None => activeCancel \in Active
  /\ starting # None => starting \in Active

\* A turn is enqueued once, and is fresh until then.
EnqueuedOnce ==
  /\ \A t \in Turn : told[t] = "unsent" => Fresh(t)
  /\ \A i \in DOMAIN chan :
       At(i, "Enqueue") => told[chan[i].turn] = "sent" /\ Fresh(chan[i].turn)
  /\ \A i, j \in DOMAIN chan :
       At(i, "Enqueue") /\ At(j, "Enqueue") /\ chan[i].turn = chan[j].turn => i = j

\* An unsettled turn has no result yet, unless it is being cancelled and a clear has
\* already logged that; and a signalled turn is being cancelled.
UnsettledIsOpen ==
  \A t \in Unsettled :
    /\ told[t] \notin {"unsent", "sent"} /\ verdict[t] = "none"
    /\ t \in token => cancelling = t
    /\ \A s \in Turn : \/ log[s].result[t] = "none"
                       \/ log[s].result[t] = "cancelled" /\ cancelling = t

CancelInv ==
  OneActive /\ QueueOrder /\ AboutActive /\ EnqueuedOnce /\ UnsettledIsOpen /\ CancelSticks

-----------------------------------------------------------------------------
(* Steps that leave the turns alone *)

\* What EnqueuedOnce needs of a step: what is fresh stays fresh.
FreshStays ==
  \A t \in Turn : /\ told'[t] = "unsent" => told[t] = "unsent"
                  /\ Fresh(t) /\ told[t] \in {"unsent", "sent"}
                       => Fresh(t)' /\ told'[t] = told[t]

LEMMA EnqueuedOnceReceive ==
  ASSUME EnqueuedOnce, FreshStays, NEW k \in Nat, chan \in Seq(Command),
         \A i \in DOMAIN chan' : i \in Int /\ i + k \in DOMAIN chan /\ chan'[i] = chan[i + k]
  PROVE  EnqueuedOnce'
  <1>1. \A i \in DOMAIN chan : chan[i] \in Command
    OBVIOUS
  <1>2. \A i \in DOMAIN chan : At(i, "Enqueue") => chan[i].turn \in Turn
    BY <1>1, CommandFields DEF At
  <1>3. \A t \in Turn : told'[t] = "unsent" => Fresh(t)'
    BY DEF EnqueuedOnce, FreshStays
  <1>4. \A i \in DOMAIN chan' :
          At(i, "Enqueue")' => told'[chan'[i].turn] = "sent" /\ Fresh(chan[i].turn)'
    BY <1>2 DEF EnqueuedOnce, FreshStays, At
  <1>5. \A i, j \in DOMAIN chan' :
          At(i, "Enqueue")' /\ At(j, "Enqueue")' /\ chan'[i].turn = chan'[j].turn => i = j
    BY DEF EnqueuedOnce, At
  <1> QED BY <1>3, <1>4, <1>5 DEF EnqueuedOnce

LEMMA EnqueuedOnceSend ==
  ASSUME EnqueuedOnce, FreshStays, chan \in Seq(Command), NEW c, c.op # "Enqueue", Send(c)
  PROVE  EnqueuedOnce'
  <1>1. CASE chan' = chan
    <2>1. \A i \in DOMAIN chan' : i \in Int /\ i + 0 \in DOMAIN chan /\ chan'[i] = chan[i + 0]
      BY <1>1
    <2> QED BY <2>1, EnqueuedOnceReceive
  <1>2. CASE chan' = Append(chan, c)
    <2>1. \A i \in DOMAIN chan' :
            (i \in DOMAIN chan /\ chan[i] \in Command /\ chan'[i] = chan[i]) \/ chan'[i] = c
      BY <1>2
    <2>2. \A i \in DOMAIN chan' :
            At(i, "Enqueue")' => /\ At(i, "Enqueue") /\ i \in DOMAIN chan
                                 /\ chan'[i] = chan[i] /\ chan[i].turn \in Turn
      BY <2>1, CommandFields DEF At
    <2>3. \A t \in Turn : told'[t] = "unsent" => Fresh(t)'
      BY DEF EnqueuedOnce, FreshStays
    <2>4. \A i \in DOMAIN chan' :
            At(i, "Enqueue")' => told'[chan'[i].turn] = "sent" /\ Fresh(chan[i].turn)'
      BY <2>2 DEF EnqueuedOnce, FreshStays
    <2>5. \A i, j \in DOMAIN chan' :
            At(i, "Enqueue")' /\ At(j, "Enqueue")' /\ chan'[i].turn = chan'[j].turn => i = j
      BY <2>2 DEF EnqueuedOnce
    <2> QED BY <2>3, <2>4, <2>5 DEF EnqueuedOnce
  <1> QED BY <1>1, <1>2 DEF Send

\* The invariant but for the channel.
Core == OneActive /\ QueueOrder /\ AboutActive /\ UnsettledIsOpen /\ CancelSticks

\* No turn starts, and one ends only as cancelled: what most steps come to.
NoStart ==
  /\ Active' = Active /\ Unsettled' \subseteq Unsettled
  /\ Unsettled' = {} \/ UNCHANGED <<seq, nextSeq>>
  /\ UNCHANGED <<activeCancel, starting, verdict>>
  /\ \/ UNCHANGED <<cancelling, token>>
     \/ cancelling' \in Active /\ CancelTokenAtHand
  /\ \A s, t \in Turn : \/ log'[s].result[t] = log[s].result[t]
                        \/ /\ t \in Unsettled /\ log'[s].result[t] = "cancelled"
                           /\ t \in Unsettled' => cancelling' = t
  /\ \A t \in Turn : \/ told'[t] = told[t]
                     \/ t \in Unsettled /\ told'[t] \notin {"unsent", "sent"}

LEMMA NoStartCore ==
  ASSUME TypeOK, Core, NoStart
  PROVE  Core' /\ FreshStays
  <1>1. Active \subseteq Unsettled /\ Unsettled \subseteq Turn /\ token \subseteq Turn
    BY DEF Unsettled, Pending, Active, TypeOK, WorkersType
  <1>2. None \notin Turn
    BY ConversationAssumption
  <1>3. \A t \in token' : t \in token \/ (t \in Active /\ cancelling' = t)
    BY <1>1, <1>2 DEF NoStart, CancelTokenAtHand, Core, AboutActive, OneActive
  <1>4. \A t \in Unsettled : cancelling = t => cancelling' = t
    BY <1>1, <1>2 DEF NoStart, Core, AboutActive, OneActive
  <1>5. OneActive' /\ QueueOrder'
    BY DEF NoStart, Core, OneActive, QueueOrder
  <1>6. AboutActive'
    BY DEF NoStart, Core, AboutActive
  <1>7. UnsettledIsOpen'
    <2> SUFFICES ASSUME NEW t \in Unsettled'
                 PROVE  /\ told'[t] \notin {"unsent", "sent"} /\ verdict'[t] = "none"
                        /\ t \in token' => cancelling' = t
                        /\ \A s \in Turn :
                             \/ log'[s].result[t] = "none"
                             \/ log'[s].result[t] = "cancelled" /\ cancelling' = t
      BY DEF UnsettledIsOpen
    <2>1. t \in Unsettled /\ t \in Turn
      BY <1>1 DEF NoStart
    <2>2. told'[t] \notin {"unsent", "sent"} /\ verdict'[t] = "none"
      BY <2>1 DEF NoStart, Core, UnsettledIsOpen
    <2>3. t \in token' => cancelling' = t
      BY <1>3, <1>4, <2>1 DEF Core, UnsettledIsOpen
    <2>4. \A s \in Turn : \/ log'[s].result[t] = "none"
                          \/ log'[s].result[t] = "cancelled" /\ cancelling' = t
      BY <1>4, <2>1 DEF NoStart, Core, UnsettledIsOpen
    <2> QED BY <2>2, <2>3, <2>4
  <1>8. CancelSticks'
    <2>1. \A t \in token' : /\ t \in Turn /\ verdict[t] \in {"none", "cancelled"}
                            /\ \A s \in Turn : log[s].result[t] \in {"none", "cancelled"}
      BY <1>1, <1>3 DEF Core, UnsettledIsOpen, CancelSticks
    <2> QED BY <2>1 DEF NoStart, CancelSticks
  <1>9. FreshStays
    BY <1>1, <1>3 DEF FreshStays, Fresh, NoStart
  <1> QED BY <1>5, <1>6, <1>7, <1>8, <1>9 DEF Core

LEMMA HandlerKeeps ==
  ASSUME TypeOK, EnqueuedOnce, Core', FreshStays,
         NEW rest, rest = chan \/ (chan # <<>> /\ rest = Tail(chan)), Return(rest)
  PROVE  CancelInv'
  <1>1. PICK k \in Nat : \A i \in DOMAIN chan' :
                           i \in Int /\ i + k \in DOMAIN chan /\ chan'[i] = chan[i + k]
    BY ReturnShifts DEF TypeOK
  <1>2. EnqueuedOnce'
    BY <1>1, EnqueuedOnceReceive DEF TypeOK
  <1> QED BY <1>2 DEF CancelInv, Core

LEMMA NoStartHandler ==
  ASSUME TypeOK, CancelInv, NoStart, chan # <<>>, Return(Tail(chan))
  PROVE  CancelInv'
  <1>1. Core' /\ FreshStays /\ EnqueuedOnce
    BY NoStartCore DEF CancelInv, Core
  <1> QED BY <1>1, HandlerKeeps

LEMMA NoStartSend ==
  ASSUME TypeOK, CancelInv, NoStart, NEW c, c.op # "Enqueue", Send(c)
  PROVE  CancelInv'
  <1>1. Core' /\ FreshStays
    BY NoStartCore DEF CancelInv, Core
  <1>2. EnqueuedOnce'
    BY <1>1, EnqueuedOnceSend DEF CancelInv, TypeOK
  <1> QED BY <1>1, <1>2 DEF CancelInv, Core

LEMMA NoStartElsewhere ==
  ASSUME TypeOK, CancelInv, NoStart, chan' = chan
  PROVE  CancelInv'
  <1>1. \A i \in DOMAIN chan' : i \in Int /\ i + 0 \in DOMAIN chan /\ chan'[i] = chan[i + 0]
    BY DEF TypeOK
  <1>2. Core' /\ FreshStays
    BY NoStartCore DEF CancelInv, Core
  <1>3. EnqueuedOnce'
    BY <1>1, <1>2, EnqueuedOnceReceive DEF CancelInv, TypeOK
  <1> QED BY <1>2, <1>3 DEF CancelInv, Core

-----------------------------------------------------------------------------
(* The settle of the active turn *)

\* A settling turn's result is the only one the logs get.
LEMMA SettleLog ==
  ASSUME TypeOK, NEW t \in Turn, NEW kind \in Kind, NEW adopts \in BOOLEAN, NEW lost,
         OnSettle(t, kind, adopts, lost)
  PROVE  \A s, u \in Turn : \/ log'[s].result[u] = log[s].result[u]
                            \/ u = t /\ log'[s].result[u] = kind
  <1> DEFINE folds  == adopts /\ session # None /\ "compacted" \notin lost
             folded == IF folds
                       THEN [log EXCEPT ![session] = Compacted(@, pendingCompaction.state)]
                       ELSE log
             home   == turnSession[t]
  <1>1. log \in [Turn -> Log] /\ home \in Turn \cup {None}
    BY DEF TypeOK, DiskType, AttachedType
  <1>2. \A s, u \in Turn : folded[s].result[u] = log[s].result[u]
    BY <1>1 DEF Compacted, Log
  <1>3. \A s \in Turn : folded[s] \in Log
    BY <1>1, LogType DEF TypeOK, LoopType
  <1>4. log' = folded \/ log' = [folded EXCEPT ![home] = TurnSettled(@, {t}, kind)]
    BY DEF OnSettle
  <1>5. \A l \in Log, u \in Turn :
          \/ TurnSettled(l, {t}, kind).result[u] = l.result[u]
          \/ u = t /\ TurnSettled(l, {t}, kind).result[u] = kind
    BY DEF TurnSettled, Log
  <1>6. DOMAIN folded = Turn
    BY <1>1
  <1> HIDE DEF folded, home
  <1>7. \A s \in Turn : log'[s] = folded[s] \/ log'[s] = TurnSettled(folded[s], {t}, kind)
    BY <1>4, <1>6
  <1>8. ASSUME NEW s \in Turn, NEW u \in Turn
        PROVE  log'[s].result[u] = log[s].result[u] \/ (u = t /\ log'[s].result[u] = kind)
    <2>1. CASE log'[s] = folded[s]
      BY <1>2, <2>1
    <2>2. CASE log'[s] = TurnSettled(folded[s], {t}, kind)
      <3> DEFINE ended == TurnSettled(folded[s], {t}, kind)
      <3>1. ended.result[u] = folded[s].result[u] \/ (u = t /\ ended.result[u] = kind)
        BY <1>3, <1>5
      <3>2. log'[s] = ended
        BY <2>2
      <3> QED BY <1>2, <3>1, <3>2
    <2> QED BY <1>7, <2>1, <2>2
  <1> QED BY <1>8

LEMMA SettleActiveCore ==
  ASSUME TypeOK, Core, NEW t \in Active, NEW k \in Kind, NEW lost,
         SettleActive(t, k, lost), token' = token
  PROVE  Core' /\ FreshStays
  <1> DEFINE kind == SettledAs(t, k)
             next == IF IsShuttingDown THEN {} ELSE FirstPending
  <1>1. Active = {t} /\ t \in Unsettled /\ t \in Turn /\ t \notin Pending
    BY DEF Core, OneActive, Unsettled, Pending, Active
  <1>2. None \notin Turn /\ token \subseteq Turn /\ kind \in Kind
    BY ConversationAssumption DEF TypeOK, WorkersType, SettledAs, Kind
  <1>3. /\ next \subseteq Pending /\ Pending \subseteq Unsettled /\ Unsettled \subseteq Turn
        /\ \A u, v \in next : u = v
    <2>1. \A u \in Turn : seq[u] \in Int
      BY DEF TypeOK, TranscriptType, SeqNo
    <2>2. \A u, v \in FirstPending : seq[u] = seq[v]
      BY <2>1 DEF FirstPending, Pending
    <2> QED BY <2>2 DEF FirstPending, Core, QueueOrder, Unsettled, Pending, Active
  <1>4. /\ UNCHANGED <<seq, nextSeq>> /\ activeCancel' = None
        /\ cancelling' = (IF cancelling = t THEN None ELSE cancelling)
        /\ starting' = None \/ starting' \in next
        /\ verdict' = [verdict EXCEPT ![t] = kind]
        /\ told' = [u \in Turn |-> IF u = t THEN "over"
                                   ELSE IF u \in next THEN "running" ELSE told[u]]
        /\ phase' = [u \in Turn |-> IF u = t THEN "settled"
                                    ELSE IF u \in next THEN "active" ELSE phase[u]]
    BY DEF SettleActive
  <1>5. \A s, u \in Turn : \/ log'[s].result[u] = log[s].result[u]
                           \/ u = t /\ log'[s].result[u] = kind
    <2> DEFINE adopts == pendingCompaction.turn = t /\ kind = "completed"
    <2>1. OnSettle(t, kind, adopts, lost) /\ adopts \in BOOLEAN
      BY DEF SettleActive
    <2> HIDE DEF adopts, kind
    <2> QED BY <1>1, <1>2, <2>1, SettleLog
  <1> HIDE DEF next
  <1>6. Active' = next /\ Unsettled' = Unsettled \ {t}
    BY <1>1, <1>3, <1>4 DEF Unsettled, Pending, Active
  <1>7. cancelling' = None
    BY <1>1, <1>4 DEF Core, AboutActive
  <1>8. OneActive' /\ QueueOrder' /\ AboutActive'
    BY <1>3, <1>4, <1>6, <1>7 DEF Core, OneActive, QueueOrder, AboutActive
  <1>9. \A u \in Unsettled' : cancelling # u
    BY <1>1, <1>2, <1>3, <1>6 DEF Core, AboutActive
  <1>10. UnsettledIsOpen'
    <2>1. ASSUME NEW u \in Unsettled'
          PROVE  /\ u \in Unsettled /\ u \in Turn /\ u # t /\ told'[u] \notin {"unsent", "sent"}
                 /\ verdict'[u] = "none" /\ u \notin token
      BY <1>3, <1>4, <1>6, <1>9 DEF Core, UnsettledIsOpen, TypeOK, ViewType
    <2>2. ASSUME NEW u \in Unsettled', NEW s \in Turn PROVE log'[s].result[u] = "none"
      BY <1>5, <1>9, <2>1 DEF Core, UnsettledIsOpen
    <2> QED BY <2>1, <2>2 DEF UnsettledIsOpen
  <1>11. CancelSticks'
    <2>1. t \in token => kind = "cancelled"
      BY <1>1 DEF Core, UnsettledIsOpen, SettledAs
    <2>2. \A u \in token : verdict'[u] \in {"none", "cancelled"}
      BY <1>2, <1>4, <2>1 DEF Core, CancelSticks, TypeOK, ViewType
    <2> HIDE DEF kind
    <2>3. \A u \in token, s \in Turn : log'[s].result[u] \in {"none", "cancelled"}
      BY <1>2, <1>5, <2>1 DEF Core, CancelSticks
    <2> QED BY <2>2, <2>3 DEF CancelSticks
  <1>12. FreshStays
    <2>1. \A u \in Turn : told'[u] = "unsent" => told[u] = "unsent"
      BY <1>4
    <2>2. ASSUME NEW u \in Turn, Fresh(u) PROVE Fresh(u)' /\ told'[u] = told[u]
      <3>1. u # t /\ u \notin next /\ u \notin Unsettled'
        BY <1>1, <1>3, <1>6, <2>2 DEF Fresh
      <3>2. told'[u] = told[u] /\ verdict'[u] = "none"
        BY <1>4, <2>2, <3>1 DEF Fresh, TypeOK, ViewType
      <3>3. \A s \in Turn : log'[s].result[u] = "none"
        BY <1>5, <2>2, <3>1 DEF Fresh
      <3> QED BY <2>2, <3>1, <3>2, <3>3 DEF Fresh
    <2> QED BY <2>1, <2>2 DEF FreshStays
  <1> QED BY <1>8, <1>10, <1>11, <1>12 DEF Core

LEMMA SettleCancel ==
  ASSUME TypeOK, CancelInv, NEW lost, Settle(lost)
  PROVE  CancelInv'
  <1>1. Head(chan) \in Command /\ Head(chan).op = "Settle"
    BY ReceiveType DEF Settle, TypeOK
  <1>2. Head(chan).turn \in Active /\ Head(chan).kind \in Kind
    BY <1>1, CommandFields DEF Settle
  <1>3. token' = token /\ chan # <<>> /\ Return(Tail(chan))
    BY DEF Settle, workers, Receive
  <1>4. Core' /\ FreshStays
    BY <1>2, <1>3, SettleActiveCore DEF Settle, CancelInv, Core
  <1> QED BY <1>3, <1>4, HandlerKeeps DEF CancelInv

\* A turn without a configuration settles when it starts.
LEMMA UnconfiguredCancel ==
  ASSUME TypeOK, CancelInv, NEW t \in Turn, NEW lost, Unconfigured(t, lost)
  PROVE  CancelInv'
  <1>1. t \in Active /\ "needsConfiguration" \in Kind
    BY ConversationAssumption DEF Unconfigured, CancelInv, AboutActive, Kind
  <1>2. token' = token /\ Return(chan)
    BY DEF Unconfigured, workers
  <1>3. SettleActive(t, "needsConfiguration", lost)
    BY DEF Unconfigured
  <1>4. Core' /\ FreshStays
    BY <1>1, <1>2, <1>3, SettleActiveCore DEF CancelInv, Core
  <1> QED BY <1>2, <1>4, HandlerKeeps DEF CancelInv

-----------------------------------------------------------------------------
(* The other handlers *)

\* A turn enters the transcript, or not if a write fails.
LEMMA EnqueueCancel ==
  ASSUME TypeOK, CancelInv, NEW fault \in EnqueueFault, Enqueue(fault)
  PROVE  CancelInv'
  <1> DEFINE t == Head(chan).turn
  <1>1. /\ chan # <<>> /\ Head(chan) \in Command /\ Head(chan).op = "Enqueue"
        /\ starting = None /\ Return(Tail(chan))
    BY ReceiveType DEF Enqueue, Receive, TypeOK
  <1>2. 1 \in DOMAIN chan /\ Head(chan) = chan[1] /\ t \in Turn
    BY <1>1, CommandFields DEF TypeOK
  <1>3. told[t] = "sent" /\ Fresh(t)
    BY <1>1, <1>2 DEF CancelInv, EnqueuedOnce, At
  <1>4. /\ UNCHANGED <<activeCancel, cancelling, token>>
        /\ seq' = [seq EXCEPT ![t] = nextSeq] /\ nextSeq' = nextSeq + 1
        /\ verdict' = [verdict EXCEPT ![t] = IF fault = "none" THEN "none" ELSE "error"]
        /\ told'[t] \in {"running", "queued", "over"}
        /\ \A u \in Turn : u # t => told'[u] = told[u]
    BY <1>2 DEF Enqueue, Tell, NextSeq, workers, TypeOK, ViewType
  <1>5. Unsettled \subseteq Turn /\ t \notin Unsettled /\ t \notin token
    BY <1>3 DEF Fresh, Unsettled, Pending, Active
  <1>6. \/ fault = "none" /\ Active = {} /\ Active' = {t} /\ starting' = t
                          /\ Unsettled' = Unsettled \cup {t}
        \/ starting' = None /\ Active' = Active /\ Unsettled' = Unsettled
        \/ /\ starting' = None /\ Active' = Active /\ fault = "none"
           /\ Unsettled' = Unsettled \cup {t}
    BY <1>2, <1>5 DEF Enqueue, StartsAtOnce, Unsettled, Pending, Active, TypeOK, TranscriptType
  <1>7. \A s, u \in Turn : \/ log'[s].result[u] = log[s].result[u]
                           \/ u = t /\ log'[s].result[u] = "none"
    BY <1>2 DEF Enqueue, OnEnqueue, Started, TurnEnqueued, TypeOK, DiskType, AttachedType, Log
  <1>8. \A s \in Turn : log'[s].result[t] = "none"
    BY <1>2, <1>3, <1>7 DEF Fresh
  <1> HIDE DEF t
  <1>9. Unsettled' \subseteq Unsettled \cup {t} /\ Active \subseteq Active'
    BY <1>6
  <1>10. OneActive' /\ AboutActive'
    BY <1>4, <1>6 DEF CancelInv, OneActive, AboutActive
  <1>11. QueueOrder'
    <2>1. \A u \in Unsettled : seq'[u] = seq[u] /\ seq[u] < nextSeq /\ seq[u] \in Int
      BY <1>4, <1>5 DEF CancelInv, QueueOrder, TypeOK, TranscriptType, SeqNo
    <2>2. seq'[t] = nextSeq /\ nextSeq' = nextSeq + 1 /\ nextSeq \in Int
      BY <1>2, <1>4 DEF TypeOK, TranscriptType
    <2> QED BY <1>9, <2>1, <2>2 DEF CancelInv, QueueOrder
  <1>12. UnsettledIsOpen'
    <2>1. ASSUME NEW u \in Unsettled
          PROVE  /\ told'[u] \notin {"unsent", "sent"} /\ verdict'[u] = "none"
                 /\ u \in token' => cancelling' = u
                 /\ \A s \in Turn : \/ log'[s].result[u] = "none"
                                    \/ log'[s].result[u] = "cancelled" /\ cancelling' = u
      <3>1. u # t /\ u \in Turn
        BY <1>5
      <3>2. \A s \in Turn : log'[s].result[u] = log[s].result[u]
        BY <1>7, <3>1
      <3> QED BY <1>4, <3>1, <3>2 DEF CancelInv, UnsettledIsOpen, TypeOK, ViewType
    <2>2. fault = "none" => told'[t] \notin {"unsent", "sent"} /\ verdict'[t] = "none"
      BY <1>2, <1>4 DEF TypeOK, ViewType
    <2>3. t \notin token'
      BY <1>4, <1>5
    <2> QED BY <1>6, <1>8, <2>1, <2>2, <2>3 DEF UnsettledIsOpen
  <1>13. CancelSticks'
    <2>1. \A u \in token : u # t /\ u \in Turn
      BY <1>5 DEF TypeOK, WorkersType
    <2>2. \A u \in token : verdict'[u] = verdict[u]
      BY <1>4, <2>1 DEF TypeOK, ViewType
    <2> QED BY <1>4, <1>7, <2>1, <2>2 DEF CancelInv, CancelSticks
  <1>14. \A u \in Turn : u # t /\ Fresh(u) => Fresh(u)'
    BY <1>4, <1>7, <1>9 DEF Fresh, TypeOK, ViewType
  <1>15. EnqueuedOnce'
    <2>1. \A i \in DOMAIN chan' :
            i \in Int /\ i + 1 \in DOMAIN chan /\ chan'[i] = chan[i + 1] /\ i + 1 # 1
      BY <1>1 DEF Return, TypeOK
    <2>2. \A i \in DOMAIN chan' :
            At(i, "Enqueue")' => /\ At(i + 1, "Enqueue") /\ chan'[i].turn = chan[i + 1].turn
                                 /\ chan'[i].turn # t /\ chan'[i].turn \in Turn
      <3>1. \A i \in DOMAIN chan : chan[i] \in Command
        BY DEF TypeOK
      <3>2. At(1, "Enqueue") /\ chan[1].turn = t
        BY <1>1, <1>2 DEF At, t
      <3> QED BY <1>2, <2>1, <3>1, <3>2, CommandFields DEF CancelInv, EnqueuedOnce, At
    <2>3. \A u \in Turn : told'[u] = "unsent" => Fresh(u)'
      BY <1>4, <1>14 DEF CancelInv, EnqueuedOnce
    <2>4. \A i \in DOMAIN chan' :
            At(i, "Enqueue")' => told'[chan'[i].turn] = "sent" /\ Fresh(chan[i].turn)'
      <3> SUFFICES ASSUME NEW i \in DOMAIN chan', At(i, "Enqueue")'
                   PROVE  told'[chan'[i].turn] = "sent" /\ Fresh(chan[i].turn)'
        OBVIOUS
      <3>1. PICK u \in Turn : u = chan'[i].turn /\ u = chan[i + 1].turn /\ u # t
        BY <2>2
      <3>2. told[u] = "sent" /\ Fresh(u)
        BY <2>1, <2>2, <3>1 DEF CancelInv, EnqueuedOnce
      <3>3. told'[u] = "sent" /\ Fresh(u)'
        BY <1>4, <1>14, <3>1, <3>2
      <3> QED BY <3>1, <3>3
    <2>5. \A i, j \in DOMAIN chan' :
            At(i, "Enqueue")' /\ At(j, "Enqueue")' /\ chan'[i].turn = chan'[j].turn => i = j
      BY <2>1, <2>2 DEF CancelInv, EnqueuedOnce
    <2> QED BY <2>3, <2>4, <2>5 DEF EnqueuedOnce
  <1> QED BY <1>10, <1>11, <1>12, <1>13, <1>15 DEF CancelInv

LEMMA StartWorkerCancel ==
  ASSUME TypeOK, CancelInv, NEW t \in Turn, StartWorker(t)
  PROVE  CancelInv'
  <1>1. /\ UNCHANGED <<phase, seq, nextSeq, cancelling, token, log, told, verdict>>
        /\ activeCancel' = t /\ starting' = None /\ Return(chan)
    BY DEF StartWorker, transcript, disk, view
  <1>2. t \in Active
    BY ConversationAssumption DEF StartWorker, CancelInv, AboutActive
  <1>3. Unsettled' = Unsettled /\ Active' = Active
    BY <1>1 DEF Unsettled, Pending, Active
  <1>4. OneActive' /\ QueueOrder' /\ AboutActive' /\ UnsettledIsOpen' /\ CancelSticks'
    BY <1>1, <1>2, <1>3
    DEF CancelInv, OneActive, QueueOrder, AboutActive, UnsettledIsOpen, CancelSticks
  <1>5. FreshStays
    BY <1>1, <1>3 DEF FreshStays, Fresh
  <1>6. Core'
    BY <1>4 DEF Core
  <1> QED BY <1>1, <1>5, <1>6, HandlerKeeps DEF CancelInv

LEMMA ReportCancel ==
  ASSUME TypeOK, CancelInv,
         \/ EnqueueIgnored \/ SettleStale \/ CompactedReported \/ CompactionStatus
         \/ QueryStatus \/ Shutdown \/ Delta
  PROVE  CancelInv'
  <1>1. chan # <<>> /\ Return(Tail(chan))
    BY DEF EnqueueIgnored, SettleStale, CompactedReported, CompactionStatus, QueryStatus,
       Shutdown, Delta, Receive
  <1>2. /\ UNCHANGED <<seq, nextSeq, activeCancel, cancelling, starting, token, verdict, log>>
        /\ UNCHANGED phase \/ phase' = [t \in Turn |-> IF t \in Pending THEN "absent" ELSE phase[t]]
    BY DEF EnqueueIgnored, SettleStale, CompactedReported, CompactionStatus, QueryStatus,
       Shutdown, Delta, transcript, loop, workers, view, disk
  <1>3. Active' = Active /\ Unsettled' \subseteq Unsettled
    BY <1>2 DEF Unsettled, Pending, Active
  <1>4. told' = told \/ \E t \in Active : told' = [told EXCEPT ![t] = "speaking"]
    BY DEF EnqueueIgnored, SettleStale, CompactedReported, CompactionStatus, QueryStatus,
       Shutdown, Delta, view
  <1>5. NoStart
    BY <1>2, <1>3, <1>4 DEF NoStart, TypeOK, ViewType, Unsettled
  <1> QED BY <1>1, <1>5, NoStartHandler

LEMMA SetSessionSummaryCancel ==
  ASSUME TypeOK, CancelInv, NEW lost, SetSessionSummary(lost)
  PROVE  CancelInv'
  <1>1. chan # <<>> /\ Return(Tail(chan))
    BY DEF SetSessionSummary, Receive
  <1>2. UNCHANGED <<phase, seq, nextSeq, activeCancel, cancelling, starting, token, verdict,
                    told>>
    BY DEF SetSessionSummary, transcript, loop, workers, view
  <1>3. \A s, t \in Turn : log'[s].result[t] = log[s].result[t]
    BY DEF SetSessionSummary, SummaryGenerated, TypeOK, DiskType, Log
  <1>4. NoStart
    BY <1>2, <1>3 DEF NoStart, Unsettled, Pending, Active
  <1> QED BY <1>1, <1>4, NoStartHandler

LEMMA CancelCancel ==
  ASSUME TypeOK, CancelInv, Cancel
  PROVE  CancelInv'
  <1>1. chan # <<>> /\ Return(Tail(chan))
    BY DEF Cancel, Receive
  <1>2. /\ UNCHANGED <<phase, seq, nextSeq, activeCancel, starting, verdict, told, log>>
        /\ \/ UNCHANGED <<cancelling, token>>
           \/ cancelling' \in Active /\ CancelTokenAtHand
    BY DEF Cancel, transcript, view, disk
  <1>3. NoStart
    BY <1>2 DEF NoStart, Unsettled, Pending, Active
  <1> QED BY <1>1, <1>3, NoStartHandler

\* With no turn active there is no token to cancel.
LEMMA TokenAtHand ==
  ASSUME AboutActive, CancelTokenAtHand,
         (Active = {} /\ cancelling' = cancelling) \/ cancelling' \in Active
  PROVE  UNCHANGED <<cancelling, token>> \/ (cancelling' \in Active /\ CancelTokenAtHand)
  BY DEF AboutActive, CancelTokenAtHand

\* A log gets the results of a set of turns and of no other.
LEMMA TurnSettledResult ==
  ASSUME NEW l \in Log, NEW S, NEW k, NEW t \in Turn
  PROVE  \/ TurnSettled(l, S, k).result[t] = l.result[t]
         \/ t \in S /\ TurnSettled(l, S, k).result[t] = k
  BY DEF TurnSettled, Log

LEMMA StopCancel ==
  ASSUME TypeOK, CancelInv, NEW lost, Stop(lost)
  PROVE  CancelInv'
  <1> DEFINE ended(s) == {t \in Pending \ lost : turnSession[t] = s}
  <1>1. chan # <<>> /\ Return(Tail(chan))
    BY DEF Stop, Receive
  <1>2. /\ UNCHANGED <<seq, nextSeq, activeCancel, starting, verdict>>
        /\ phase' = [t \in Turn |-> IF t \in Pending THEN "absent" ELSE phase[t]]
        /\ told' = [t \in Turn |-> IF t \in Pending THEN "removed" ELSE told[t]]
    BY DEF Stop
  <1>3. UNCHANGED <<cancelling, token>> \/ (cancelling' \in Active /\ CancelTokenAtHand)
    BY TokenAtHand DEF Stop, CancelInv
  <1>4. Active' = Active /\ Unsettled' = Active /\ Unsettled = Pending \cup Active
    BY <1>2 DEF Unsettled, Pending, Active
  <1>5. \A s, t \in Turn : \/ log'[s].result[t] = log[s].result[t]
                           \/ t \in Pending /\ log'[s].result[t] = "cancelled"
    <2>1. \A s \in Turn : log'[s] = TurnSettled(log[s], ended(s), "cancelled") /\ log[s] \in Log
      BY DEF Stop, TypeOK, DiskType
    <2>2. \A s \in Turn : ended(s) \subseteq Pending
      OBVIOUS
    <2> HIDE DEF ended
    <2>3. ASSUME NEW s \in Turn, NEW t \in Turn
          PROVE  \/ log'[s].result[t] = log[s].result[t]
                 \/ t \in Pending /\ log'[s].result[t] = "cancelled"
      BY <2>1, <2>2, TurnSettledResult
    <2> QED BY <2>3
  <1>6. \A t \in Pending : t \notin Active
    BY DEF Pending, Active
  <1>7. \A t \in Turn : told'[t] = told[t] \/ (t \in Unsettled /\ told'[t] = "removed")
    BY <1>2, <1>4
  <1> HIDE DEF ended
  <1>8. NoStart
    BY <1>2, <1>3, <1>4, <1>5, <1>6, <1>7 DEF NoStart
  <1> QED BY <1>1, <1>8, NoStartHandler

LEMMA ClearCancel ==
  ASSUME TypeOK, CancelInv, NEW logged, Clear(logged)
  PROVE  CancelInv'
  <1>1. chan # <<>> /\ Return(Tail(chan)) /\ logged \subseteq Unsettled
    BY DEF Clear, Receive, OnClear
  <1>2. /\ UNCHANGED <<seq, nextSeq, activeCancel, starting, verdict, told>>
        /\ phase' = [t \in Turn |-> IF t \in Active THEN phase[t] ELSE "absent"]
    BY DEF Clear, view, KeptByClear
  <1>3. UNCHANGED <<cancelling, token>> \/ (cancelling' \in Active /\ CancelTokenAtHand)
    BY TokenAtHand DEF Clear, CancelInv
  <1>4. Active' = Active /\ Unsettled' = Active /\ Active \subseteq Unsettled
    BY <1>2 DEF Unsettled, Pending, Active
  <1>5. \A s, t \in Turn : \/ log'[s].result[t] = log[s].result[t]
                           \/ t \in Unsettled /\ log'[s].result[t] = "cancelled"
    <2>1. log \in [Turn -> Log] /\ session \in Turn \cup {None}
      BY DEF TypeOK, DiskType, AttachedType
    <2>2. log' = log \/ log' = [log EXCEPT ![session] = TurnSettled(@, logged, "cancelled")]
      BY DEF Clear, OnClear, disk
    <2>3. \A s \in Turn : log'[s] = log[s] \/ log'[s] = TurnSettled(log[s], logged, "cancelled")
      BY <2>1, <2>2
    <2>4. ASSUME NEW s \in Turn, NEW t \in Turn
          PROVE  \/ log'[s].result[t] = log[s].result[t]
                 \/ t \in Unsettled /\ log'[s].result[t] = "cancelled"
      BY <1>1, <2>1, <2>3, TurnSettledResult
    <2> QED BY <2>4
  <1>6. \A t \in Active : cancelling' = t
    BY DEF Clear, CancelInv, OneActive
  <1>7. NoStart
    BY <1>2, <1>3, <1>4, <1>5, <1>6 DEF NoStart
  <1> QED BY <1>1, <1>7, NoStartHandler

\* Attaching a session takes no turn away, because none is unsettled then.
LEMMA ResumeSessionCancel ==
  ASSUME TypeOK, CancelInv, ResumeOnlyWhenIdle, ResumeSession
  PROVE  CancelInv'
  <1>1. chan # <<>> /\ Return(Tail(chan))
    BY DEF ResumeSession, Receive
  <1>2. Unsettled = {} /\ Active = {}
    BY DEF ResumeSession, Receive, ResumeOnlyWhenIdle, Unsettled
  <1>3. UNCHANGED <<activeCancel, cancelling, starting, token, verdict, told, log>>
    BY DEF ResumeSession, workers, view, disk
  <1>4. Unsettled' = {} /\ Active' = {}
    BY DEF ResumeSession, Unsettled, Pending, Active
  <1>5. NoStart
    BY <1>2, <1>3, <1>4 DEF NoStart
  <1> QED BY <1>1, <1>5, NoStartHandler

LEMMA CoordinatorCancel ==
  ASSUME TypeOK, CancelInv, ResumeOnlyWhenIdle, Coordinator
  PROVE  CancelInv'
  BY SettleCancel, UnconfiguredCancel, EnqueueCancel, StartWorkerCancel, ReportCancel,
     SetSessionSummaryCancel, CancelCancel, StopCancel, ClearCancel, ResumeSessionCancel
  DEF Coordinator, StartActive

-----------------------------------------------------------------------------
(* The other threads *)

LEMMA ThreadCancel ==
  ASSUME TypeOK, CancelInv,
         (\E t \in Turn : Worker(t)) \/ (\E j \in titling : TitleThread(j))
  PROVE  CancelInv'
  <1>1. NoStart
    BY DEF NoStart, Worker, TitleThread, transcript, loop, disk, workers, view, Unsettled,
       Pending, Active
  <1>2. chan' = chan \/ \E c : c.op # "Enqueue" /\ Send(c)
    BY DEF Worker, CallProvider, StartFolding, StopFolding, ReportCompaction, Stream,
       Complete, NoticeCancel, Fail, End, EndThread, TitleThread
  <1> QED BY <1>1, <1>2, NoStartSend, NoStartElsewhere

\* The one submit of a turn.
LEMMA SubmitCancel ==
  ASSUME TypeOK, CancelInv, UNCHANGED <<transcript, loop, log, token>>,
         NEW t \in Turn, NEW config \in BOOLEAN, Submit(t, config)
  PROVE  CancelInv'
  <1> DEFINE c == [op |-> "Enqueue", turn |-> t, config |-> config]
  <1>1. /\ c.op = "Enqueue" /\ c.turn = t /\ (chan' = chan \/ chan' = Append(chan, c))
        /\ told[t] = "unsent" /\ told' = [told EXCEPT ![t] = "sent"] /\ UNCHANGED verdict
    BY DEF Submit, Send
  <1>2. UNCHANGED <<phase, seq, nextSeq, activeCancel, cancelling, starting, log, token>>
    BY DEF transcript, loop
  <1>3. Unsettled' = Unsettled /\ Active' = Active /\ Unsettled \subseteq Turn
    BY <1>2 DEF Unsettled, Pending, Active
  <1>4. Fresh(t) /\ t \notin Unsettled
    BY <1>1 DEF CancelInv, EnqueuedOnce, Fresh
  <1>5. OneActive' /\ QueueOrder' /\ AboutActive' /\ CancelSticks'
    BY <1>1, <1>2, <1>3 DEF CancelInv, OneActive, QueueOrder, AboutActive, CancelSticks
  <1>6. UnsettledIsOpen'
    BY <1>1, <1>2, <1>3, <1>4 DEF CancelInv, UnsettledIsOpen, TypeOK, ViewType
  <1>7. \A u \in Turn : Fresh(u) => Fresh(u)'
    BY <1>1, <1>2, <1>3 DEF Fresh
  <1>8. EnqueuedOnce'
    <2>1. \A i \in DOMAIN chan' :
            \/ i \in DOMAIN chan /\ chan'[i] = chan[i]
            \/ i = Len(chan) + 1 /\ chan'[i] = c
      BY <1>1 DEF TypeOK
    <2>2. \A i \in DOMAIN chan : At(i, "Enqueue") => chan[i].turn \in Turn /\ chan[i].turn # t
      BY <1>1, CommandFields DEF CancelInv, EnqueuedOnce, At, TypeOK
    <2> HIDE DEF c
    <2>3. \A u \in Turn : told'[u] = "unsent" => Fresh(u)'
      BY <1>1, <1>7 DEF CancelInv, EnqueuedOnce, TypeOK, ViewType
    <2>4. \A i \in DOMAIN chan' :
            At(i, "Enqueue")' => told'[chan'[i].turn] = "sent" /\ Fresh(chan[i].turn)'
      <3> SUFFICES ASSUME NEW i \in DOMAIN chan', At(i, "Enqueue")'
                   PROVE  told'[chan'[i].turn] = "sent" /\ Fresh(chan[i].turn)'
        OBVIOUS
      <3>1. CASE chan'[i] = c
        BY <1>1, <1>4, <1>7, <3>1 DEF TypeOK, ViewType
      <3>2. CASE i \in DOMAIN chan /\ chan'[i] = chan[i]
        BY <1>1, <1>7, <2>2, <3>2 DEF CancelInv, EnqueuedOnce, At, TypeOK, ViewType
      <3> QED BY <2>1, <3>1, <3>2
    <2>5. \A i, j \in DOMAIN chan' :
            At(i, "Enqueue")' /\ At(j, "Enqueue")' /\ chan'[i].turn = chan'[j].turn => i = j
      BY <1>1, <2>1, <2>2 DEF CancelInv, EnqueuedOnce, At
    <2> QED BY <2>3, <2>4, <2>5 DEF EnqueuedOnce
  <1> QED BY <1>5, <1>6, <1>8 DEF CancelInv

LEMMA ServeCancel ==
  ASSUME TypeOK, CancelInv, Serve
  PROVE  CancelInv'
  <1>1. UNCHANGED <<transcript, loop, log, token>>
    BY DEF Serve, disk, workers
  <1>2. ASSUME UNCHANGED <<told, verdict>>, chan' = chan \/ \E c : c.op # "Enqueue" /\ Send(c)
        PROVE  CancelInv'
    <2>1. NoStart
      BY <1>1, <1>2 DEF NoStart, transcript, loop, Unsettled, Pending, Active
    <2> QED BY <1>2, <2>1, NoStartSend, NoStartElsewhere
  <1>3. ASSUME NEW t \in Turn, NEW config \in BOOLEAN, Submit(t, config) PROVE CancelInv'
    BY <1>1, <1>3, SubmitCancel
  <1>4. ASSUME \/ \E t \in Turn : RequestCancel(t)
               \/ RequestStop \/ RequestClear \/ \E s \in Turn : RequestResume(s)
               \/ RefuseResume \/ SendResume \/ ConfirmResume \/ TimeOut
               \/ \E polite \in BOOLEAN : EndOfInput(polite)
        PROVE  CancelInv'
    <2>1. UNCHANGED <<told, verdict>> /\ (chan' = chan \/ \E c : c.op # "Enqueue" /\ Send(c))
      BY <1>4 DEF RequestCancel, RequestStop, RequestClear, RequestResume, RefuseResume,
         SendResume, ConfirmResume, TimeOut, EndOfInput, view
    <2> QED BY <1>2, <2>1
  <1> QED BY <1>3, <1>4 DEF Serve

LEMMA ShutdownAndJoinCancel ==
  ASSUME TypeOK, CancelInv, ShutdownAndJoin
  PROVE  CancelInv'
  <1>1. NoStart
    BY DEF NoStart, ShutdownAndJoin, transcript, loop, disk, workers, view, Unsettled,
       Pending, Active
  <1>2. chan' = chan \/ \E c : c.op # "Enqueue" /\ Send(c)
    BY DEF ShutdownAndJoin, RaiseFlag, SendShutdown, Join
  <1> QED BY <1>1, <1>2, NoStartSend, NoStartElsewhere

\* A restart forgets the queue; what was cancelled stays so.
LEMMA RestartCancel ==
  ASSUME TypeOK, CancelInv, Restart
  PROVE  CancelInv'
  <1>1. /\ UNCHANGED <<token, told, verdict, log>> /\ chan' = <<>>
        /\ cancelling' = None /\ activeCancel' = None /\ starting' = None
    BY DEF Restart, disk
  <1>2. Unsettled' = {} /\ Active' = {}
    BY DEF Restart, Unsettled, Pending, Active
  <1>3. Core'
    BY <1>1, <1>2 DEF CancelInv, Core, OneActive, QueueOrder, AboutActive, UnsettledIsOpen,
       CancelSticks
  <1>4. FreshStays
    BY <1>1, <1>2 DEF FreshStays, Fresh
  <1>5. \A i \in DOMAIN chan' : i \in Int /\ i + 0 \in DOMAIN chan /\ chan'[i] = chan[i + 0]
    BY <1>1
  <1>6. EnqueuedOnce'
    BY <1>4, <1>5, EnqueuedOnceReceive DEF CancelInv, TypeOK
  <1> QED BY <1>3, <1>6 DEF Core, CancelInv

-----------------------------------------------------------------------------
LEMMA CancelInvStep ==
  ASSUME TypeOK, CancelInv, ResumeOnlyWhenIdle, [Next]_vars
  PROVE  CancelInv'
  <1>1. CASE UNCHANGED vars
    <2>1. NoStart /\ chan' = chan
      BY <1>1 DEF NoStart, vars, transcript, loop, disk, workers, view, Unsettled, Pending,
         Active
    <2> QED BY <2>1, NoStartElsewhere
  <1> QED
    BY <1>1, CoordinatorCancel, ThreadCancel, ServeCancel, ShutdownAndJoinCancel,
       RestartCancel DEF Next

\* The queue always has one active turn, unsettled turns in order and references to the
\* active turn alone (Transcript and LoopState of state.rs): what the theorems about
\* cancellation, the queue and clearing rest on.
THEOREM CancelInvariant == Spec => []CancelInv
  <1>1. Init => CancelInv
    BY DEF Init, CancelInv, OneActive, QueueOrder, AboutActive, EnqueuedOnce, Fresh,
       UnsettledIsOpen, CancelSticks, Unsettled, Pending, Active, EmptyLog
  <1>2. TypeOK /\ CancelInv /\ ResumeOnlyWhenIdle /\ [Next]_vars => CancelInv'
    BY CancelInvStep
  <1> QED BY <1>1, <1>2, TypeCorrect, ResumesOnlyWhenIdle, PTL DEF Spec

\* A cancellation is final: the turn whose token was signalled settles as cancelled for
\* the client and in every log, although the worker may have sent another result before
\* it noticed, a late panic settles a turn twice, and stop, clear, cancel and a resume
\* race with the settle (the cancelling check of settle, state.rs).
THEOREM CancelIsFinal == Spec => []CancelSticks
  <1>1. CancelInv => CancelSticks
    BY DEF CancelInv
  <1> QED BY <1>1, CancelInvariant, PTL

=============================================================================
