----------------------------- MODULE BackendLink -----------------------------
(***************************************************************************)
(* The terminal and its backend process, across the pipe between them: the *)
(* JSON-RPC client with its time-outs, the process it starts, tears down   *)
(* and replaces, the events that feed the transcript mirror, and a resume  *)
(* that may move the program to another folder and another process.        *)
(*                                                                         *)
(* The backend is TurnQueue, the promise Conversation keeps; what it tells *)
(* the terminal is added here.                                             *)
(***************************************************************************)
EXTENDS TranscriptMirror, FiniteSets

CONSTANTS
  Stored,         \* the resumable session of an earlier run
  Past,           \* its turns, a sequence over Turn
  Elsewhere,      \* whether it belongs to another folder
  Patient,        \* whether the user waits while a resume is under way
  Ends,           \* how a turn nobody cancels may end
  MaxCommands,    \* cancels, stops and clears the user issues
  MaxChunks,      \* chunks of text the backend streams
  MaxFaults,      \* crashes, time-outs and failed launches
  MaxTogether     \* commands, chunks, faults and resumes in one behaviour

ASSUME LinkAssumption ==
  /\ IsFiniteSet(Turn) /\ None \notin Turn
  /\ Past \in Seq(Turn) /\ IsInjective(Past)
  /\ Ends \subseteq Result
  /\ Elsewhere \in BOOLEAN /\ Patient \in BOOLEAN
  /\ {MaxCommands, MaxChunks, MaxFaults, MaxTogether} \subseteq Nat

VARIABLES
  mirror,         \* the transcript mirror
  hint,           \* compactionInProgressAtom
  state,          \* the client's lifecycle state
  session,        \* its connection: "none", "live", or "gone" if torn down or closed
  launching,      \* the transition under way: "no", "start" or "relaunch"
  fallback,       \* the connection a relaunch that fails goes back to
  inFlight,       \* submitted turns without an end yet, in order
  waiting,        \* requests that wait for the process to be ready
  up, down,       \* the two directions of the pipe
  alive,          \* whether the process behind the connection runs
  attached,       \* the session it is attached to, 0 before a first turn
  folding,        \* the running turn that compacts, None if none
  stage, ahead, outcome, condemned,    \* the backend's queue: see TurnQueue
  flow,           \* the resume under way
  newest, submitted, count, cleared, hydrated,    \* history and bounds, and
  received        \* the chunks that arrived since the rows were last replaced

queueVars == <<stage, ahead, outcome, condemned>>
clientVars == <<state, session, launching, fallback>>
historyVars == <<newest, submitted, count, cleared, received, hydrated>>
vars == <<mirror, hint, clientVars, inFlight, waiting, up, down, alive, attached, folding,
          queueVars, flow, historyVars>>

Backend == INSTANCE TurnQueue

Request(kind, t) == [kind |-> kind, turn |-> t]
Ack(t) == [type |-> "ack", turn |-> t]
Stopped == [type |-> "stopped", turn |-> None]
Listed(s, use) == [type |-> "listed", session |-> s, use |-> use, turn |-> None]
Resumed(ok) == [type |-> "resumed", ok |-> ok, turn |-> None]
Compaction(t, on) == [type |-> "compactionStatus", turn |-> t, on |-> on]

FlowPhase == {"closed", "stopping", "listing", "asking", "relaunching", "attaching",
              "labelling", "rollback", "failed"}
Busy == FlowPhase \ {"closed", "failed"}

FlowUse == "flow"
CaptureUse == "capture"

Init ==
  /\ mirror = EmptyMirror /\ hint = FALSE
  /\ state = "Starting" /\ session = "none" /\ launching = "start" /\ fallback = "none"
  /\ inFlight = <<>> /\ waiting = <<>> /\ up = <<>> /\ down = <<>>
  /\ alive = FALSE /\ attached = 0 /\ folding = None
  /\ Backend!Init
  /\ flow = "closed"
  /\ newest = 0 /\ submitted = {}
  /\ count = [command |-> 0, chunk |-> 0, fault |-> 0, flow |-> 0]
  /\ cleared = {} /\ received = Zero /\ hydrated = FALSE

Spend(what, bound) ==
  /\ count[what] < bound
  /\ count.command + count.chunk + count.fault + count.flow < MaxTogether
  /\ count' = [count EXCEPT ![what] = @ + 1]

-----------------------------------------------------------------------------
(* Failing what was sent *)

TransportFailure(m, t) == TranscriptEvent(m, Settled(t, "error"))

FailInFlight_Silently(m) == m

\* Every submitted turn without an end ends with a transport error.
FailInFlight(m) == FoldLeft(TransportFailure, m, inFlight)
HintAfterFailing_Kept == hint
HintAfterFailing == hint /\ inFlight = <<>>

Submits(requests) == Only(requests, {r \in ToSet(requests) : r.kind = "submit"})
SubmitTurns(requests) == {r.turn : r \in {q \in ToSet(requests) : q.kind = "submit"}}
FailSubmits(m, requests) == SettleLocalSubmitFailure(m, SubmitTurns(requests))
DiscardSubmits(m, requests) == DiscardLocalSubmit(m, SubmitTurns(requests))

\* Requests the backend has not answered, or whose answer has not arrived.
Unanswered ==
  LET answers == Only(down, {e \in ToSet(down) : e.type \in {"ack", "stopped", "listed", "resumed"}})
  IN  [i \in DOMAIN answers |->
         Request(IF answers[i].type = "ack" THEN "submit" ELSE answers[i].type, answers[i].turn)]
      \o up

\* A resume step that waits for an answer fails with it; a failure after the process
\* was replaced is rolled back.
FlowAfterFailure ==
  CASE flow \in {"stopping", "listing"} -> "failed"
    [] flow = "attaching" -> IF Elsewhere THEN "rollback" ELSE "failed"
    [] OTHER -> flow

\* The connection goes: in-flight turns end with an error, then every unanswered
\* request is rejected.
CloseConnection ==
  /\ mirror' = FailSubmits(FailInFlight(mirror), Unanswered)
  /\ hint' = HintAfterFailing
  /\ inFlight' = <<>> /\ up' = <<>> /\ down' = <<>>
  /\ flow' = FlowAfterFailure

\* markDead for the connection in use: it is torn down unless a relaunch has begun.
MarkDead ==
  IF launching = "relaunch"
  THEN session' = session /\ fallback' = "gone" /\ state' = state
  ELSE session' = "none" /\ fallback' = fallback /\ state' = "Dead"

-----------------------------------------------------------------------------
(* Requests *)

\* A request goes out at once, waits for a start, or begins one.
Dispatch(r) ==
  \/ /\ state = "Ready" /\ session = "live"
     /\ up' = Append(up, r)
     /\ inFlight' = IF r.kind = "submit" THEN Append(inFlight, r.turn) ELSE inFlight
     /\ UNCHANGED <<clientVars, waiting>>
  \/ /\ state \in {"Starting", "Dead"}
     /\ waiting' = Append(waiting, r)
     /\ IF launching = "no" THEN state' = "Starting" /\ launching' = "start"
        ELSE UNCHANGED <<state, launching>>
     /\ UNCHANGED <<session, fallback, up, inFlight>>

\* On a closed connection it is refused, and that failure tears the client down.
RefusedAtOnce ==
  /\ state = "Ready" /\ session = "gone"
  /\ state' = "Dead" /\ session' = "none"
  /\ UNCHANGED <<launching, fallback, up, inFlight, waiting>>

MayAct == Patient => flow \notin Busy

\* A prompt gets the next turn id, and its row before the backend has heard of it.
NewTurnId == CHOOSE t \in Turn : t \notin submitted \cup ToSet(Past)

EnqueuePrompt ==
  /\ MayAct /\ Turn # submitted \cup ToSet(Past)
  /\ submitted' = submitted \cup {NewTurnId}
  /\ \/ /\ Dispatch(Request("submit", NewTurnId))
        /\ mirror' = AppendPrompt(mirror, NewTurnId)
     \/ /\ RefusedAtOnce
        /\ mirror' = SettleLocalSubmitFailure(AppendPrompt(mirror, NewTurnId), {NewTurnId})
  /\ UNCHANGED <<hint, down, alive, attached, folding, queueVars, flow,
                 newest, count, cleared, received, hydrated>>

\* Esc: cancel the first active row's turn.
Cancel ==
  /\ MayAct /\ HasActiveRow(mirror)
  /\ LET i == CHOOSE j \in DOMAIN mirror.rows :
                /\ mirror.rows[j].state = "active"
                /\ \A k \in 1..(j - 1) : mirror.rows[k].state # "active"
     IN  Dispatch(Request("cancel", mirror.rows[i].turn)) \/ RefusedAtOnce
  /\ Spend("command", MaxCommands)
  /\ UNCHANGED <<mirror, hint, down, alive, attached, folding, queueVars, flow,
                 newest, submitted, cleared, received, hydrated>>

\* /clear empties the mirror at once and tells the backend.
Clear ==
  /\ MayAct
  /\ mirror' = ClearTranscript(mirror)
  /\ cleared' = cleared \cup VisibleTurns(mirror)
  /\ received' = Zero
  /\ Dispatch(Request("clear", None)) \/ RefusedAtOnce
  /\ Spend("command", MaxCommands)
  /\ UNCHANGED <<hint, down, alive, attached, folding, queueVars, flow,
                 newest, submitted, hydrated>>

-----------------------------------------------------------------------------
(* The backend: it takes the requests one at a time, in order *)

Take(kind) == alive /\ up # <<>> /\ Head(up).kind = kind /\ up' = Tail(up)
Tell(events) == down' = down \o events
AcceptedOrder(set) ==
  [i \in 1..Cardinality(set) |-> CHOOSE t \in set : Cardinality(ahead[t] \cap set) = i - 1]
Unfinished == Backend!Waiting \cup Backend!Running

backendOnly == <<mirror, hint, clientVars, inFlight, waiting, flow>>

\* The first turn accepted attaches a fresh session.
AcceptSubmit ==
  /\ Take("submit")
  /\ LET t == Head(up).turn
     IN  /\ Backend!Accept(t)
         /\ Tell(<<Ack(t), Enqueued(t, IF stage'[t] = "running" THEN "active" ELSE "queued")>>)
  /\ IF attached = 0 THEN newest' = newest + 1 /\ attached' = newest'
     ELSE UNCHANGED <<newest, attached>>
  /\ UNCHANGED <<backendOnly, alive, folding, submitted, count, cleared, received, hydrated>>

\* A turn that cannot be recorded ends without having been enqueued.
RefuseSubmit ==
  /\ Take("submit") /\ Spend("fault", MaxFaults)
  /\ Backend!Refuse(Head(up).turn)
  /\ Tell(<<Ack(Head(up).turn), Settled(Head(up).turn, "error")>>)
  /\ UNCHANGED <<backendOnly, alive, attached, folding, newest, submitted, cleared, received, hydrated>>

\* A cancel of a turn that is not running does nothing.
HandleCancel ==
  /\ Take("cancel")
  /\ IF Head(up).turn \in Backend!Running THEN Backend!Condemn ELSE UNCHANGED queueVars
  /\ UNCHANGED <<backendOnly, down, alive, attached, folding, historyVars>>

HandleStop ==
  /\ Take("stop")
  /\ Backend!Drop /\ condemned' = Backend!Running
  /\ LET dropped == AcceptedOrder(Backend!Waiting)
     IN  Tell([i \in DOMAIN dropped |-> Removed(dropped[i])] \o <<Stopped>>)
  /\ UNCHANGED <<backendOnly, alive, attached, folding, historyVars>>

\* A clear drops what waits without a word.
HandleClear ==
  /\ Take("clear")
  /\ Backend!Drop /\ condemned' = Backend!Running
  /\ attached' = 0
  /\ UNCHANGED <<backendOnly, down, alive, folding, historyVars>>

HandleList ==
  /\ Take("list")
  /\ Tell(<<Listed(attached, Head(up).turn)>>)
  /\ UNCHANGED <<backendOnly, alive, attached, folding, queueVars, historyVars>>

\* A resume is refused while a turn is unfinished, and it may fail.
HandleResume ==
  /\ Take("resume")
  /\ \/ Unfinished = {} /\ attached' = Stored /\ Tell(<<Resumed(TRUE)>>) /\ UNCHANGED count
     \/ Unfinished # {} /\ Tell(<<Resumed(FALSE)>>) /\ UNCHANGED <<attached, count>>
     \/ Unfinished = {} /\ Spend("fault", MaxFaults) /\ Tell(<<Resumed(FALSE)>>)
        /\ UNCHANGED attached
  /\ UNCHANGED <<backendOnly, alive, folding, queueVars, newest, submitted, cleared,
                 received, hydrated>>

\* The running turn streams, unless it was told to stop.
StreamChunk(t) ==
  /\ alive /\ t \in Backend!Running \ condemned /\ Spend("chunk", MaxChunks)
  /\ Tell(<<Delta(t, 1)>>)
  /\ UNCHANGED <<backendOnly, up, alive, attached, folding, queueVars,
                 newest, submitted, cleared, received, hydrated>>

\* The running turn compacts; a cancel in between never tells that it stopped.
Fold(t) ==
  /\ alive /\ t \in Backend!Running \ condemned
  /\ \/ folding = None /\ Spend("chunk", MaxChunks)
        /\ folding' = t /\ Tell(<<Compaction(t, TRUE)>>)
     \/ folding = t /\ UNCHANGED count
        /\ folding' = None /\ Tell(<<Compaction(t, FALSE)>>)
  /\ UNCHANGED <<backendOnly, up, alive, attached, queueVars, newest, submitted, cleared, received, hydrated>>

\* The running turn ends, and the one behind it is activated.
FinishTurn(t) ==
  /\ alive /\ Backend!Finish(t)
  /\ outcome'[t] \in IF t \in condemned THEN {"cancelled"} ELSE Ends
  /\ Backend!Waiting # {} => \E u \in Turn : stage'[u] = "running"
  /\ LET next == {u \in Turn : stage[u] = "waiting" /\ stage'[u] = "running"}
         started == SetToSeq(next)
     IN  Tell(<<Settled(t, outcome'[t])>> \o [i \in DOMAIN started |-> Activated(started[i])])
  /\ folding' = None
  /\ UNCHANGED <<backendOnly, up, alive, attached, historyVars>>

Crash ==
  /\ alive /\ Spend("fault", MaxFaults)
  /\ alive' = FALSE /\ folding' = None /\ attached' = 0
  /\ Backend!Die
  /\ UNCHANGED <<backendOnly, up, down, newest, submitted, cleared, received, hydrated>>

-----------------------------------------------------------------------------
(* Events and answers reach the terminal in the order they were written *)

linkOnly == <<clientVars, waiting, alive, attached, folding, queueVars, newest, submitted, count, cleared, hydrated>>

Arrives(type) == session = "live" /\ down # <<>> /\ Head(down).type = type /\ down' = Tail(down)

\* The first enqueue without a known session asks which one is current.
ReceiveEnqueued ==
  /\ Arrives("enqueued")
  /\ mirror' = TranscriptEvent(mirror, Head(down))
  /\ LET asks == IF mirror.current = None THEN <<Request("list", CaptureUse)>> ELSE <<>>
     IN  IF state = "Ready" THEN up' = up \o asks /\ waiting' = waiting
         ELSE up' = up /\ waiting' = waiting \o asks
  /\ UNCHANGED <<clientVars, alive, attached, folding, queueVars, historyVars,
                 hint, inFlight, flow>>

ReceiveEvent ==
  /\ \/ Arrives("activated") \/ Arrives("tokenDelta")
     \/ Arrives("settled") \/ Arrives("removed")
  /\ LET e == Head(down)
     IN  /\ mirror' = TranscriptEvent(mirror, e)
         /\ hint' = (hint /\ e.type # "settled")
         /\ inFlight' = IF e.type \in {"settled", "removed"}
                        THEN Only(inFlight, Turn \ {e.turn}) ELSE inFlight
         /\ received' = IF e.type = "tokenDelta" /\ e.turn \notin mirror.ignored
                        THEN [received EXCEPT ![e.turn] = @ + 1] ELSE received
  /\ UNCHANGED <<linkOnly, up, flow>>

ReceiveCompaction ==
  /\ Arrives("compactionStatus")
  /\ hint' = Head(down).on
  /\ UNCHANGED <<linkOnly, mirror, inFlight, up, flow, received>>

ReceiveAck ==
  /\ Arrives("ack")
  /\ UNCHANGED <<linkOnly, mirror, hint, inFlight, up, flow, received>>

\* captureCurrentSessionId stores the answer, whatever happened since the question.
ReceiveCapture ==
  /\ Arrives("listed") /\ Head(down).use = CaptureUse
  /\ mirror' = IF Head(down).session = 0 THEN mirror
               ELSE [mirror EXCEPT !.current = Head(down).session]
  /\ UNCHANGED <<linkOnly, hint, inFlight, up, flow, received>>

\* The coalescer's timer.
FlushTimer(t) ==
  /\ mirror.held[t] > 0
  /\ mirror' = FlushCoalescer(mirror, t)
  /\ UNCHANGED <<linkOnly, hint, inFlight, up, down, flow, received>>

-----------------------------------------------------------------------------
(* The process dies, or does not answer in time *)

\* Once the pipe is drained, the end of a process is noticed.
NoticeExit ==
  /\ session = "live" /\ ~alive /\ down = <<>> /\ fallback # "gone"
  /\ CloseConnection /\ MarkDead
  /\ UNCHANGED <<launching, waiting, alive, attached, folding, queueVars, historyVars>>

\* A request that is not answered in time is fatal: the connection is torn down and
\* the process killed.
RequestTimeout ==
  /\ session = "live" /\ Unanswered # <<>> /\ alive /\ fallback # "gone"
  /\ Spend("fault", MaxFaults)
  /\ LET others == Only(inFlight, {t \in Turn : Unanswered[1] # Request("submit", t)})
     IN  /\ mirror' = FailSubmits(FoldLeft(TransportFailure, mirror, others), Unanswered)
         /\ hint' = (hint /\ others = <<>>)
  /\ inFlight' = <<>> /\ up' = <<>> /\ down' = <<>>
  /\ flow' = FlowAfterFailure
  /\ IF launching = "relaunch"
     THEN session' = "none" /\ fallback' = "gone" /\ state' = "Dead"
     ELSE session' = "none" /\ state' = "Dead" /\ UNCHANGED fallback
  /\ alive' = FALSE /\ folding' = None /\ attached' = 0
  /\ Backend!Die
  /\ UNCHANGED <<launching, waiting, newest, submitted, cleared, received, hydrated>>

-----------------------------------------------------------------------------
(* Starting and replacing the process *)

\* A new process is ready: it is adopted, the mirror reset, and what waited is sent.
\* Prompts submitted during a relaunch are discarded.
Adopt ==
  /\ launching # "no" /\ state = "Starting" /\ flow # "labelling"
  /\ session' = "live" /\ state' = "Ready" /\ launching' = "no" /\ fallback' = "none"
  /\ LET reset == ResetTranscriptMirror(FailSubmits(FailInFlight(mirror), Unanswered))
         resent == IF launching = "relaunch"
                   THEN Only(waiting, {r \in ToSet(waiting) : r.kind # "submit"}) ELSE waiting
         submits == Submits(resent)
     IN  /\ mirror' = IF launching = "relaunch" THEN DiscardSubmits(reset, waiting) ELSE reset
         /\ up' = resent \o (IF flow = "relaunching" THEN <<Request("resume", None)>> ELSE <<>>)
         /\ inFlight' = [i \in DOMAIN submits |-> submits[i].turn]
  /\ hint' = HintAfterFailing
  /\ waiting' = <<>> /\ down' = <<>>
  /\ alive' = TRUE /\ attached' = 0 /\ folding' = None /\ Backend!Die
  /\ flow' = CASE flow = "relaunching" -> "attaching"
               [] flow = "rollback" -> "failed"
               [] OTHER -> flow
  /\ received' = Zero
  /\ UNCHANGED <<newest, submitted, count, cleared, hydrated>>

\* It is not: a relaunch goes back to the connection it had, a start leaves none.  A
\* process that exits before it is ready has the old connection torn down as well.
LaunchFails(exits) ==
  /\ launching # "no"
  /\ \/ state = "Starting" /\ Spend("fault", MaxFaults)
     \/ state = "Dead" /\ ~exits /\ UNCHANGED count
  /\ LET back == fallback # "none"
         torn == back /\ exits /\ fallback = "live"
     IN  /\ state' = IF back THEN "Ready" ELSE "Dead"
         /\ session' = IF ~back THEN "none" ELSE IF torn THEN "gone" ELSE fallback
         /\ IF torn
            THEN /\ mirror' = FailSubmits(FailInFlight(mirror), Unanswered \o waiting)
                 /\ hint' = HintAfterFailing
                 /\ inFlight' = <<>> /\ up' = <<>> /\ down' = <<>>
                 /\ alive' = FALSE /\ attached' = 0 /\ folding' = None /\ Backend!Die
            ELSE /\ mirror' = FailSubmits(mirror, waiting)
                 /\ UNCHANGED <<hint, inFlight, up, down, alive, attached, folding, queueVars>>
  /\ launching' = "no" /\ fallback' = "none" /\ waiting' = <<>>
  /\ flow' = IF flow \in {"relaunching", "rollback", "stopping", "listing"} THEN "failed" ELSE flow
  /\ UNCHANGED <<newest, submitted, cleared, received, hydrated>>

\* relaunch: the old connection is kept until the new process is ready.
BeginRelaunch ==
  /\ launching = "no"
  /\ launching' = "relaunch" /\ state' = "Starting"
  /\ fallback' = IF state = "Ready" THEN session ELSE "none"
  /\ UNCHANGED session

-----------------------------------------------------------------------------
(* Resuming the stored session *)

flowOnly == <<mirror, hint, down, alive, attached, folding, queueVars, newest, submitted, cleared, received, hydrated>>

\* A running turn is stopped first, if the user agrees.
ResumeSelected ==
  /\ flow = "closed" /\ Spend("flow", 1)
  /\ \/ /\ ~TurnInFlight(mirror) /\ flow' = "asking"
        /\ UNCHANGED <<clientVars, up, inFlight, waiting>>
     \/ TurnInFlight(mirror) /\ flow' = "stopping" /\ Dispatch(Request("stop", None))
     \/ TurnInFlight(mirror) /\ flow' = "failed" /\ RefusedAtOnce
  /\ UNCHANGED flowOnly

ReceiveStopped ==
  /\ Arrives("stopped")
  /\ UNCHANGED <<linkOnly, mirror, hint, inFlight, up, flow, received>>

\* waitForTurnIdle: poll until every row has settled, or give up.
TurnIdle ==
  /\ flow = "stopping" /\ ~\E i \in DOMAIN up : up[i].kind = "stop"
  /\ ~\E i \in DOMAIN down : down[i].type = "stopped"
  /\ ~\E i \in DOMAIN waiting : waiting[i].kind = "stop"
  /\ \/ ~TurnInFlight(mirror) /\ flow' = "asking" /\ UNCHANGED count
     \/ TurnInFlight(mirror) /\ flow' = "failed" /\ Spend("fault", MaxFaults)
  /\ UNCHANGED <<flowOnly, clientVars, up, inFlight, waiting>>

\* A session of another folder takes the user's consent.
ConfirmWorkspaceOrResume ==
  /\ flow = "asking"
  /\ \/ flow' = "listing" /\ Dispatch(Request("list", FlowUse))
     \/ flow' = "failed" /\ RefusedAtOnce
     \/ Elsewhere /\ flow' = "closed" /\ UNCHANGED <<clientVars, up, inFlight, waiting>>
  /\ UNCHANGED <<flowOnly, count>>

\* The list names the session's folder: the process is replaced if it is another.
ResumeSessionById ==
  /\ Arrives("listed") /\ Head(down).use = FlowUse /\ flow = "listing"
  /\ IF Elsewhere
     THEN flow' = "relaunching" /\ BeginRelaunch /\ UNCHANGED <<up, inFlight, waiting>>
     ELSE flow' = "attaching" /\ Dispatch(Request("resume", None))
  /\ UNCHANGED <<mirror, hint, alive, attached, folding, queueVars, historyVars>>

\* Resumed: the git label is refreshed before the transcript is replaced.
ReceiveResumed ==
  /\ Arrives("resumed") /\ flow = "attaching"
  /\ flow' = IF Head(down).ok THEN "labelling" ELSE IF Elsewhere THEN "rollback" ELSE "failed"
  /\ UNCHANGED <<linkOnly, mirror, hint, inFlight, up, received>>

BeginRollback ==
  /\ flow = "rollback" /\ BeginRelaunch
  /\ UNCHANGED <<flowOnly, count, inFlight, up, waiting, flow>>

ApplyResolvedResume ==
  /\ flow = "labelling"
  /\ mirror' = HydrateResumedTranscript(mirror, Stored, Past)
  /\ flow' = "closed" /\ hydrated' = TRUE /\ received' = Zero
  /\ UNCHANGED <<hint, clientVars, inFlight, waiting, up, down, alive, attached, folding,
                 queueVars, newest, submitted, count, cleared>>

-----------------------------------------------------------------------------
UserActs == EnqueuePrompt \/ Cancel \/ Clear \/ ResumeSelected

BackendActs ==
  \/ AcceptSubmit \/ RefuseSubmit \/ HandleCancel \/ HandleStop \/ HandleClear
  \/ HandleList \/ HandleResume
  \/ \E t \in Turn : StreamChunk(t) \/ Fold(t) \/ FinishTurn(t)

Receive ==
  \/ ReceiveEnqueued \/ ReceiveEvent \/ ReceiveCompaction \/ ReceiveAck \/ ReceiveCapture
  \/ ReceiveStopped \/ ResumeSessionById \/ ReceiveResumed

ResumeActs == TurnIdle \/ ConfirmWorkspaceOrResume \/ BeginRollback \/ ApplyResolvedResume

LaunchEnds == Adopt \/ \E exits \in BOOLEAN : LaunchFails(exits)

Next ==
  \/ UserActs \/ BackendActs \/ Receive \/ ResumeActs \/ LaunchEnds
  \/ Crash \/ NoticeExit \/ RequestTimeout
  \/ \E t \in Turn : FlushTimer(t)

Spec == Init /\ [][Next]_vars

\* The backend's loop serves, the terminal reads the pipe, a launch ends one way or the
\* other (it has a time-out), the end of a process is noticed, and a running turn ends.
Fairness ==
  /\ WF_vars(BackendActs) /\ WF_vars(Receive) /\ WF_vars(LaunchEnds)
  /\ WF_vars(NoticeExit) /\ WF_vars(ApplyResolvedResume)
  /\ \A t \in Turn : WF_vars(FinishTurn(t))

FairSpec == Spec /\ Fairness
=============================================================================
