---------------------------- MODULE Conversation ----------------------------
(***************************************************************************)
(* The conversation backend of KQode: one coordinator thread that owns the *)
(* transcript and consumes an unbounded FIFO of commands                   *)
(* (src/src/conversation/state.rs), one worker thread per running turn     *)
(* (src/src/chat/turn.rs), detached title threads, the request loop        *)
(* (src/src/backend/mod.rs, sessions.rs) and the durable session logs with *)
(* their SQLite rows (src/src/conversation/persistence.rs).                *)
(*                                                                         *)
(* A handler of the coordinator is one action.  The one exception is       *)
(* start_active, the tail call of enqueue and of settle, which may settle  *)
(* the turn and so call itself again: it is the action StartActive, which  *)
(* the coordinator takes before it receives anything else (starting).      *)
(*                                                                         *)
(* A turn is submitted once (ids are client-minted UUIDs) and a session is *)
(* named after the turn whose enqueue minted it.  A session log is kept as *)
(* what restore_turns folds it into, updated event by event.               *)
(***************************************************************************)
EXTENDS Integers, Sequences, FiniteSets

\* A definition named X_Y is a faulty variant of X, one that some run must catch; the
\* specification never uses it.

CONSTANTS
  Turn,      \* the turn ids the client may submit
  None,      \* no turn, no session
  Request,   \* the kinds of request, besides submit, that the client issues
  Bound      \* the named bounds: how often each counted thing may happen

RequestKind == {"cancel", "stop", "clear", "resume", "eof"}

Counted == {"request",  \* cancel, stop, clear and resume requests
            "delta",    \* streamed chunks
            "fold",     \* compactions (calls of the hidden summarizer)
            "fault",    \* failing writes of a session log or of a row
            "panic",    \* workers that panic after their terminal event
            "crash",    \* deaths of the backend process, each with a restart
            "timeout"}  \* coordinator replies that miss their 250 ms

ASSUME ConversationAssumption ==
  /\ IsFiniteSet(Turn)
  /\ None \notin Turn
  /\ Request \subseteq RequestKind
  /\ Bound \in [Counted -> Nat]

VARIABLES
  chan,              \* the coordinator's command channel
  \* Transcript
  phase,             \* queue state of each turn; "absent" when not in the transcript
  seq,               \* sequence number of each turn
  result,            \* kind of the result of each settled turn
  nextSeq,
  \* LoopState
  configs,           \* turns whose entry in the map holds a provider config
  activeCancel,      \* the turn whose cancellation token is at hand, or None
  cancelling,
  starting,          \* the turn start_active is about to be called with, or None
  compaction,
  pendingCompaction,
  activeConfig,      \* whether a config is retained
  summaryRequested,
  shuttingDown,
  shutdownRequested,
  running,           \* the coordinator thread is in its loop
  \* SessionPersistence
  session,           \* current_session
  sessionTitle,      \* first_prompt_summary of the StoredSession held there
  turnSession,
  \* the disk
  log,               \* per session, what its log folds to
  row,               \* per session, the title in its SQLite row, "absent" without one
  \* other threads
  worker,            \* where the worker thread of each turn is
  job,               \* the TurnJob each live worker holds
  token,             \* turns whose cancellation token was cancelled
  titling,           \* summary jobs in flight
  main,              \* where the request loop is
  rpc,               \* the resume request it serves
  \* the client
  told,              \* the last thing the client was told about each turn
  verdict,           \* the kind it was told the turn settled with
  spinner,           \* the "Auto compacting" hint is on
  abandoned,         \* turns submitted before a clear request
  spent              \* how much of each bound is used up

transcript == <<phase, seq, result, nextSeq>>
loop       == <<configs, activeCancel, cancelling, starting, compaction,
                pendingCompaction, activeConfig, summaryRequested>>
closing    == <<shuttingDown, shutdownRequested, running>>
attached   == <<session, sessionTitle, turnSession>>
disk       == <<log, row>>
workers    == <<worker, job, token>>
frontend   == <<main, rpc>>
view       == <<told, verdict, spinner>>
vars == <<chan, transcript, loop, closing, attached, disk, workers, titling,
          frontend, view, abandoned, spent>>

-----------------------------------------------------------------------------
(* Values *)

Phase == {"absent", "pending", "active", "settled"}
Kind  == {"completed", "needsConfiguration", "error", "cancelled"}
Title == {"absent", "placeholder", "generated"}

\* The sequence number of a turn, or -1 for no turn.
SeqNo == Nat \cup {-1}

\* CompactionState: the rounds the summary stands for and the boundary it covers.
Summary   == [folded : SUBSET Turn, through : SeqNo]
NoSummary == [folded |-> {}, through |-> -1]
Covers_Strictly(c, n) == n < c.through
Covers(c, n) == n <= c.through

NoPending == [turn |-> None, state |-> NoSummary]

\* A TurnJob; folding is the plan the worker is executing.
Job   == [history : SUBSET Turn, base : Summary, folding : Summary]
NoJob == [history |-> {}, base |-> NoSummary, folding |-> NoSummary]

\* What restore_turns makes of a session log: started once its first event is
\* there; the seq of each enqueued turn (-1: none) and the kind it settled with;
\* the last compaction; the rounds titles were generated from.
Log == [started : BOOLEAN, seq : [Turn -> SeqNo], result : [Turn -> Kind \cup {"none"}],
        compaction : Summary, titles : SUBSET Turn]
EmptyLog == [started |-> FALSE, seq |-> [t \in Turn |-> -1],
             result |-> [t \in Turn |-> "none"],
             compaction |-> NoSummary, titles |-> {}]

\* What the request loop reads before it asks the coordinator to attach.
Restored == [seq : [Turn -> SeqNo], result : [Turn -> Kind \cup {"none"}],
             compaction : Summary]

Command ==
  [op : {"Enqueue"}, turn : Turn, config : BOOLEAN]
    \cup [op : {"Delta", "Cancel"}, turn : Turn]
    \cup [op : {"Settle"}, turn : Turn, kind : Kind]
    \cup [op : {"Compacted"}, turn : Turn, state : Summary]
    \cup [op : {"CompactionStatus"}, turn : Turn, active : BOOLEAN]
    \cup [op : {"Stop", "Clear", "Shutdown"}]
    \cup [op : {"QueryStatus"}, id : Nat]
    \cup [op : {"ResumeSession"}, id : Nat, session : Turn, title : Title,
          turns : Restored]
    \cup [op : {"SetSessionSummary"}, session : Turn, first : Turn]

-----------------------------------------------------------------------------
(* The log: append_event, and what each event adds to the fold *)

Started(l)           == [l EXCEPT !.started = TRUE]
TurnEnqueued(l, t, n) == [l EXCEPT !.seq[t] = n, !.result[t] = "none"]
\* A settle of a turn this log never enqueued is skipped.
TurnSettled(l, S, k) ==
  [l EXCEPT !.result = [t \in Turn |-> IF t \in S /\ l.seq[t] >= 0 THEN k ELSE l.result[t]]]
Compacted(l, c)          == [l EXCEPT !.compaction = c]
SummaryGenerated(l, t)   == [l EXCEPT !.titles = @ \cup {t}]

\* restore_turns: a turn the log never settled was interrupted.
Restore_FewerKinds(l) ==
  [seq |-> l.seq,
   result |-> [t \in Turn |-> IF l.seq[t] >= 0 /\ l.result[t] \in {"none", "needsConfiguration"}
                              THEN "error" ELSE l.result[t]],
   compaction |-> l.compaction]
Restore(l) ==
  [seq |-> l.seq,
   result |-> [t \in Turn |-> IF l.seq[t] >= 0 /\ l.result[t] = "none" THEN "error"
                              ELSE l.result[t]],
   compaction |-> l.compaction]

-----------------------------------------------------------------------------
(* Transcript *)

Pending   == {t \in Turn : phase[t] = "pending"}
Active    == {t \in Turn : phase[t] = "active"}
Unsettled == Pending \cup Active

\* The pending turn activate_next_pending picks: the first in the transcript.
FirstPending_Last == {t \in Pending : \A u \in Pending : seq[t] >= seq[u]}
FirstPending_Never == {}
FirstPending_Every == Pending
FirstPending == {t \in Pending : \A u \in Pending : seq[t] <= seq[u]}

\* A turn starts as soon as it is enqueued if no other is active.
StartsAtOnce_AfterPush == FALSE
StartsAtOnce == Active = {}

\* The number push gives the next turn, and the one replace_with leaves.
NextSeq_Reused(taken) == IF taken THEN nextSeq + 1 ELSE nextSeq
NextSeq(taken) == nextSeq + 1
SeqAfter_Same(top) == IF top < 0 THEN 0 ELSE top
SeqAfter(top) == top + 1

\* What a clear leaves in the transcript.
KeptByClear_Pending == Unsettled
KeptByClear_Settled == Turn \ Pending
KeptByClear == Active

\* completed_history, over a given transcript and compaction.
CompletedHistory(ph, res, c) ==
  {t \in Turn : ph[t] = "settled" /\ res[t] = "completed" /\ ~Covers(c, seq[t])}

-----------------------------------------------------------------------------
(* Threads, channels and bounds *)

Send(c) == chan' = IF running THEN Append(chan, c) ELSE chan

IsShuttingDown == shuttingDown \/ shutdownRequested

\* The coordinator takes the next command.
Receive(op) == running /\ starting = None /\ chan # <<>> /\ Head(chan).op = op

\* The loop stops after a handler when it is shutting down and no turn is active;
\* a pending start_active comes first.
LoopStops_Before ==
  starting' = None /\ (shuttingDown' \/ shutdownRequested') /\ Active = {}
LoopStops ==
  /\ starting' = None
  /\ shuttingDown' \/ shutdownRequested'
  /\ \A t \in Turn : phase'[t] # "active"

\* The end of a handler: when the loop stops its channel goes with it.
Return(rest) ==
  /\ running' = ~LoopStops
  /\ chan' = IF LoopStops THEN <<>> ELSE rest

Spend(what, n) ==
  /\ spent[what] + n <= Bound[what]
  /\ spent' = [spent EXCEPT ![what] = @ + n]

\* The writes among ops that fail.
Failing(ops, lost) ==
  /\ lost \subseteq ops
  /\ Spend("fault", Cardinality(lost))

\* The compaction hint after a turn's end, which the client takes as its end too.
HintAfterSettle_Kept == spinner
HintAfterSettle == FALSE

Tell(t, what, kind) ==
  /\ told' = [told EXCEPT ![t] = what]
  /\ verdict' = [verdict EXCEPT ![t] = kind]

-----------------------------------------------------------------------------
Init ==
  /\ chan = <<>>
  /\ phase = [t \in Turn |-> "absent"]
  /\ seq = [t \in Turn |-> -1]
  /\ result = [t \in Turn |-> "none"]
  /\ nextSeq = 0
  /\ configs = {} /\ activeCancel = None /\ cancelling = None /\ starting = None
  /\ compaction = NoSummary /\ pendingCompaction = NoPending
  /\ activeConfig = FALSE /\ summaryRequested = FALSE
  /\ shuttingDown = FALSE /\ shutdownRequested = FALSE /\ running = TRUE
  /\ session = None /\ sessionTitle = "absent" /\ turnSession = [t \in Turn |-> None]
  /\ log = [s \in Turn |-> EmptyLog] /\ row = [s \in Turn |-> "absent"]
  /\ worker = [t \in Turn |-> "off"] /\ job = [t \in Turn |-> NoJob]
  /\ token = {} /\ titling = {}
  /\ main = "serving" /\ rpc = [id |-> 0, session |-> None, reply |-> "none"]
  /\ told = [t \in Turn |-> "unsent"] /\ verdict = [t \in Turn |-> "none"]
  /\ spinner = FALSE /\ abandoned = {}
  /\ spent = [c \in Counted |-> 0]

-----------------------------------------------------------------------------
(* Turns: enqueue, settle and start_active *)

\* A submit that arrives while shutting down is dropped.
EnqueueIgnored ==
  /\ Receive("Enqueue")
  /\ IsShuttingDown
  /\ UNCHANGED <<transcript, loop, shuttingDown, shutdownRequested, attached, disk,
                 workers, titling, frontend, view, abandoned, spent>>
  /\ Return(Tail(chan))

\* The writes of on_enqueue, in order.  The first two happen only when the turn
\* opens a session; fault is the one that fails, "none" when all succeed.
EnqueueFault == {"none", "started", "row", "enqueued", "touch"}

\* on_enqueue: ensure_session, then TurnEnqueued, then update_modified.
OnEnqueue(t, fault) ==
  LET opens   == session = None
      failed  == opens /\ fault \in {"started", "row"}
      here    == IF opens THEN t ELSE session
      opened  == IF opens /\ fault # "started" THEN Started(log[here]) ELSE log[here]
      written == fault \in {"none", "touch"}
  IN  /\ opens \/ fault \notin {"started", "row"}
      /\ session' = IF failed THEN None ELSE here
      /\ sessionTitle' = IF opens /\ ~failed THEN "placeholder" ELSE sessionTitle
      /\ log' = [log EXCEPT ![here] =
                   IF written THEN TurnEnqueued(opened, t, nextSeq) ELSE opened]
      /\ row' = IF fault = "none" \/ (opens /\ ~failed)
                THEN [row EXCEPT ![here] = sessionTitle'] ELSE row
      /\ turnSession' = IF written THEN [turnSession EXCEPT ![t] = here] ELSE turnSession

Enqueue(fault) ==
  LET t      == Head(chan).turn
      start  == StartsAtOnce
      taken  == fault = "none"
  IN  /\ Receive("Enqueue")
      /\ ~IsShuttingDown
      /\ Spend("fault", IF taken THEN 0 ELSE 1)
      /\ OnEnqueue(t, fault)
      /\ nextSeq' = NextSeq(taken)
      /\ configs' = IF Head(chan).config THEN configs \cup {t} ELSE configs
      /\ phase' = IF taken THEN [phase EXCEPT ![t] = IF start THEN "active" ELSE "pending"]
                  ELSE phase
      /\ seq' = [seq EXCEPT ![t] = nextSeq]
      /\ IF taken THEN Tell(t, IF start THEN "running" ELSE "queued", "none")
         ELSE Tell(t, "over", "error")
      /\ starting' = IF taken /\ start THEN t ELSE None
      /\ spinner' = IF taken THEN spinner ELSE HintAfterSettle
      /\ UNCHANGED <<result, activeCancel, cancelling, compaction, pendingCompaction,
                     activeConfig, summaryRequested, shuttingDown, shutdownRequested,
                     workers, titling, frontend, abandoned>>
      /\ Return(Tail(chan))

\* maybe_request_summary, after turn t settled and compaction was adopted.
MaybeRequestSummary(t, kind) ==
  LET rounds == CompletedHistory([phase EXCEPT ![t] = "settled"],
                                 [result EXCEPT ![t] = kind], compaction')
      asks   == /\ ~summaryRequested /\ kind = "completed"
                /\ session # None /\ activeConfig /\ rounds # {}
  IN  /\ summaryRequested' = (summaryRequested \/ asks)
      /\ IF asks
         THEN \E first \in {r \in rounds : \A s \in rounds : seq[r] <= seq[s]} :
                titling' = titling \cup {[session |-> session, first |-> first]}
         ELSE titling' = titling

\* on_compacted and on_settle of a settling turn, with the writes in lost failing.
OnSettle(t, kind, adopts, lost) ==
  LET home   == turnSession[t]
      folds  == adopts /\ session # None /\ "compacted" \notin lost
      ends   == home # None /\ "settled" \notin lost
      folded == IF folds THEN [log EXCEPT ![session] = Compacted(@, pendingCompaction.state)]
                ELSE log
  IN  /\ log' = IF ends THEN [folded EXCEPT ![home] = TurnSettled(@, {t}, kind)] ELSE folded
      /\ row' = IF (folds \/ ends) /\ session # None /\ "touch" \notin lost
                THEN [row EXCEPT ![session] = sessionTitle] ELSE row
      /\ turnSession' = [turnSession EXCEPT ![t] = None]
      /\ UNCHANGED <<session, sessionTitle>>

\* The kind a turn settles with when its worker reports k.
SettledAs_Reported(t, k) == k
SettledAs(t, k) == IF cancelling = t THEN "cancelled" ELSE k

\* settle of the active turn t, whose thread is joined: the next pending turn, if
\* any, becomes active.
SettleActive(t, k, lost) ==
  LET kind   == SettledAs(t, k)
      adopts == pendingCompaction.turn = t /\ kind = "completed"
      next   == IF IsShuttingDown THEN {} ELSE FirstPending
  IN  /\ worker[t] = "off"
      /\ Failing({"compacted", "settled", "touch"}, lost)
      /\ phase' = [u \in Turn |-> IF u = t THEN "settled"
                                  ELSE IF u \in next THEN "active" ELSE phase[u]]
      /\ result' = [result EXCEPT ![t] = kind]
      /\ cancelling' = IF cancelling = t THEN None ELSE cancelling
      /\ compaction' = IF adopts THEN pendingCompaction.state ELSE compaction
      /\ pendingCompaction' = NoPending
      /\ activeCancel' = None
      /\ OnSettle(t, kind, adopts, lost)
      /\ MaybeRequestSummary(t, kind)
      /\ told' = [u \in Turn |-> IF u = t THEN "over"
                                 ELSE IF u \in next THEN "running" ELSE told[u]]
      /\ verdict' = [verdict EXCEPT ![t] = kind]
      /\ spinner' = HintAfterSettle
      /\ \/ next = {} /\ starting' = None
         \/ starting' \in next
      /\ UNCHANGED <<seq, nextSeq, activeConfig, shuttingDown, shutdownRequested,
                     frontend, abandoned>>

Settle(lost) ==
  /\ Receive("Settle")
  /\ Head(chan).turn \in Active
  /\ SettleActive(Head(chan).turn, Head(chan).kind, lost)
  /\ UNCHANGED <<configs, workers>>
  /\ Return(Tail(chan))

\* A settle that does not name the active turn is ignored.
SettleStale ==
  /\ Receive("Settle")
  /\ Head(chan).turn \notin Active
  /\ UNCHANGED <<transcript, loop, shuttingDown, shutdownRequested, attached, disk,
                 workers, titling, frontend, view, abandoned, spent>>
  /\ Return(Tail(chan))

\* start_active with a config: the worker thread is spawned with its snapshot.
StartWorker(t) ==
  /\ running /\ starting = t
  /\ t \in configs
  /\ starting' = None
  /\ configs' = configs \ {t}
  /\ activeConfig' = TRUE
  /\ activeCancel' = t
  /\ worker' = [worker EXCEPT ![t] = "started"]
  /\ job' = [job EXCEPT ![t] = [history |-> CompletedHistory(phase, result, compaction),
                                base |-> compaction, folding |-> NoSummary]]
  /\ UNCHANGED <<transcript, cancelling, compaction, pendingCompaction, summaryRequested,
                 shuttingDown, shutdownRequested, attached, disk, token, titling,
                 frontend, view, abandoned, spent>>
  /\ Return(chan)

\* start_active without one: the turn settles at once.
Unconfigured(t, lost) ==
  /\ running /\ starting = t
  /\ t \notin configs
  /\ SettleActive(t, "needsConfiguration", lost)
  /\ UNCHANGED <<configs, workers>>
  /\ Return(chan)

StartActive(t) == StartWorker(t) \/ \E lost \in SUBSET {"compacted", "settled", "touch"} :
                                      Unconfigured(t, lost)

-----------------------------------------------------------------------------
(* What the worker reports *)

Delta ==
  /\ Receive("Delta")
  /\ UNCHANGED <<transcript, loop, shuttingDown, shutdownRequested, attached, disk,
                 workers, titling, frontend, verdict, spinner, abandoned, spent>>
  /\ told' = IF Head(chan).turn \in Active /\ cancelling # Head(chan).turn
             THEN [told EXCEPT ![Head(chan).turn] = "speaking"] ELSE told
  /\ Return(Tail(chan))

CompactedReported ==
  /\ Receive("Compacted")
  /\ pendingCompaction' = [turn |-> Head(chan).turn, state |-> Head(chan).state]
  /\ UNCHANGED <<transcript, configs, activeCancel, cancelling, starting, compaction,
                 activeConfig, summaryRequested, shuttingDown, shutdownRequested,
                 attached, disk, workers, titling, frontend, view, abandoned, spent>>
  /\ Return(Tail(chan))

CompactionStatus ==
  /\ Receive("CompactionStatus")
  /\ spinner' = Head(chan).active
  /\ UNCHANGED <<transcript, loop, shuttingDown, shutdownRequested, attached, disk,
                 workers, titling, frontend, told, verdict, abandoned, spent>>
  /\ Return(Tail(chan))

\* adopt_generated_summary drops a title unless its session is still the current one.
Adopts_Any(s) == session # None
Adopts(s) == session = s

SetSessionSummary(lost) ==
  LET c      == Head(chan)
      adopts == Adopts(c.session)
      writes == adopts /\ "title" \notin lost
  IN  /\ Receive("SetSessionSummary")
      /\ Failing({"title", "touch"}, lost)
      /\ sessionTitle' = IF writes THEN "generated" ELSE sessionTitle
      /\ log' = IF writes THEN [log EXCEPT ![session] = SummaryGenerated(@, c.first)] ELSE log
      /\ row' = IF writes /\ "touch" \notin lost
                THEN [row EXCEPT ![session] = "generated"] ELSE row
      /\ UNCHANGED <<transcript, loop, shuttingDown, shutdownRequested, session,
                     turnSession, workers, titling, frontend, view, abandoned>>
      /\ Return(Tail(chan))

-----------------------------------------------------------------------------
(* Cancel, stop, clear, resume, shutdown *)

CancelTokenAtHand_Unwrapped == token' = token \cup {activeCancel}
CancelTokenAtHand == token' = token \cup ({activeCancel} \ {None})

Cancel ==
  LET hit == Head(chan).turn \in Active
  IN  /\ Receive("Cancel")
      /\ cancelling' = IF hit THEN Head(chan).turn ELSE cancelling
      /\ IF hit THEN CancelTokenAtHand ELSE token' = token
      /\ UNCHANGED <<transcript, configs, activeCancel, starting, compaction,
                     pendingCompaction, activeConfig, summaryRequested, shuttingDown,
                     shutdownRequested, attached, disk, worker, job, titling, frontend,
                     view, abandoned, spent>>
      /\ Return(Tail(chan))

\* stop: every pending turn is removed and logged as cancelled, unless that
\* write fails, and the row touched, unless it cannot be; then the active turn is
\* cancelled.
Stop(lost) ==
  LET ended(s) == {t \in Pending \ lost : turnSession[t] = s}
  IN  /\ Receive("Stop")
      /\ Failing(Pending \cup {"touch"}, lost)
      /\ phase' = [t \in Turn |-> IF t \in Pending THEN "absent" ELSE phase[t]]
      /\ configs' = configs \ Pending
      /\ log' = [s \in Turn |-> TurnSettled(log[s], ended(s), "cancelled")]
      /\ row' = IF session # None /\ "touch" \notin lost /\ \E s \in Turn : ended(s) # {}
                THEN [row EXCEPT ![session] = sessionTitle] ELSE row
      /\ turnSession' = [t \in Turn |-> IF t \in Pending THEN None ELSE turnSession[t]]
      /\ told' = [t \in Turn |-> IF t \in Pending THEN "removed" ELSE told[t]]
      /\ \/ Active = {} /\ cancelling' = cancelling
         \/ cancelling' \in Active
      /\ CancelTokenAtHand
      /\ UNCHANGED <<seq, result, nextSeq, activeCancel, starting, compaction,
                     pendingCompaction, activeConfig, summaryRequested, shuttingDown,
                     shutdownRequested, session, sessionTitle, worker, job, titling,
                     frontend, verdict, spinner, abandoned>>
      /\ Return(Tail(chan))

\* on_clear logs the unsettled turns in order, into the current session's log,
\* and gives up at the first write that fails: logged is what it got through.
OnClear(logged) ==
  /\ logged \subseteq Unsettled
  /\ \A t \in logged, u \in Unsettled : seq[u] < seq[t] => u \in logged
  /\ IF session = None
     THEN logged = {} /\ UNCHANGED <<attached, disk, spent>>
     ELSE /\ Spend("fault", IF logged = Unsettled THEN 0 ELSE 1)
          /\ log' = [log EXCEPT ![session] = TurnSettled(@, logged, "cancelled")]
          /\ turnSession' = [t \in Turn |-> IF t \in logged THEN None ELSE turnSession[t]]
          /\ session' = IF logged = Unsettled THEN None ELSE session
          /\ sessionTitle' = IF logged = Unsettled THEN "absent" ELSE sessionTitle
          /\ row' = row

\* clear: the active turn stays until it settles, cancelled; the rest is dropped.
Clear(logged) ==
  /\ Receive("Clear")
  /\ \/ Active = {} /\ cancelling' = cancelling
     \/ cancelling' \in Active
  /\ CancelTokenAtHand
  /\ OnClear(logged)
  /\ compaction' = NoSummary
  /\ pendingCompaction' = NoPending
  /\ summaryRequested' = FALSE
  /\ activeConfig' = FALSE
  /\ configs' = {}
  /\ phase' = [t \in Turn |-> IF t \in KeptByClear THEN phase[t] ELSE "absent"]
  /\ UNCHANGED <<seq, result, nextSeq, activeCancel, starting, shuttingDown,
                 shutdownRequested, worker, job, titling, frontend, view, abandoned>>
  /\ Return(Tail(chan))

\* Each request waits on a reply channel of its own: an answer to an earlier
\* one, which timed out, reaches nobody.
Reply_Shared(id, at, what) ==
  rpc' = IF main = at THEN [rpc EXCEPT !.reply = what] ELSE rpc
Reply(id, at, what) ==
  rpc' = IF main = at /\ rpc.id = id THEN [rpc EXCEPT !.reply = what] ELSE rpc

QueryStatus ==
  /\ Receive("QueryStatus")
  /\ Reply(Head(chan).id, "querying", IF Unsettled = {} THEN "idle" ELSE "busy")
  /\ UNCHANGED <<transcript, loop, shuttingDown, shutdownRequested, attached, disk,
                 workers, titling, main, view, abandoned, spent>>
  /\ Return(Tail(chan))

\* ResumeSession: attach_session, then replace_with.
ResumeSession ==
  LET c == Head(chan)
  IN  /\ Receive("ResumeSession")
      /\ session' = c.session
      /\ sessionTitle' = c.title
      /\ turnSession' = [t \in Turn |-> None]
      /\ phase' = [t \in Turn |-> IF c.turns.seq[t] >= 0 THEN "settled" ELSE "absent"]
      /\ seq' = c.turns.seq
      /\ result' = c.turns.result
      /\ \E top \in {-1} \cup {c.turns.seq[t] : t \in Turn} :
           /\ \A t \in Turn : c.turns.seq[t] <= top
           /\ nextSeq' = SeqAfter(top)
      /\ compaction' = c.turns.compaction
      /\ pendingCompaction' = NoPending
      /\ summaryRequested' = TRUE
      /\ Reply(c.id, "attaching", "attached")
      /\ UNCHANGED <<configs, activeCancel, cancelling, starting, activeConfig,
                     shuttingDown, shutdownRequested, disk, workers, titling, main, view,
                     abandoned, spent>>
      /\ Return(Tail(chan))

\* shutdown: pending turns vanish, without a word to the log or to the client.
Shutdown ==
  /\ Receive("Shutdown")
  /\ shuttingDown' = TRUE
  /\ shutdownRequested' = TRUE
  /\ configs' = {}
  /\ phase' = [t \in Turn |-> IF t \in Pending THEN "absent" ELSE phase[t]]
  /\ UNCHANGED <<seq, result, nextSeq, activeCancel, cancelling, starting, compaction,
                 pendingCompaction, activeConfig, summaryRequested, attached, disk,
                 workers, titling, frontend, view, abandoned, spent>>
  /\ Return(Tail(chan))

Coordinator ==
  \/ EnqueueIgnored \/ SettleStale
  \/ \E fault \in EnqueueFault : Enqueue(fault)
  \/ \E lost \in SUBSET {"compacted", "settled", "touch"} : Settle(lost)
  \/ \E t \in Turn : StartActive(t)
  \/ Delta \/ CompactedReported \/ CompactionStatus
  \/ \E lost \in SUBSET {"title", "touch"} : SetSessionSummary(lost)
  \/ Cancel
  \/ \E lost \in SUBSET (Pending \cup {"touch"}) : Stop(lost)
  \/ \E logged \in SUBSET Unsettled : Clear(logged)
  \/ QueryStatus \/ ResumeSession \/ Shutdown

-----------------------------------------------------------------------------
(* The worker of turn t: run_streaming_turn *)

Live == {"started", "folding", "folded", "streaming"}

\* The worker's terminal event.
End(t, kind) ==
  /\ Send([op |-> "Settle", turn |-> t, kind |-> kind])
  /\ worker' = [worker EXCEPT ![t] = "ending"]
  /\ job' = [job EXCEPT ![t] = NoJob]
  /\ UNCHANGED spent

\* The thread ends.  A panic on the way out is caught and settles the turn again.
EndThread(t) ==
  /\ worker[t] = "ending"
  /\ worker' = [worker EXCEPT ![t] = "off"]
  /\ \/ UNCHANGED <<chan, spent>>
     \/ /\ Send([op |-> "Settle", turn |-> t, kind |-> "error"])
        /\ Spend("panic", 1)
  /\ UNCHANGED job

\* The request fits its budget: the provider is called.
CallProvider(t) ==
  /\ worker[t] = "started"
  /\ worker' = [worker EXCEPT ![t] = "streaming"]
  /\ UNCHANGED <<chan, job, spent>>

\* run_compaction calls the summarizer on a head of the uncovered rounds, which
\* leaves at least the newest one out.
StartFolding(t) ==
  /\ worker[t] = "started" /\ t \notin token
  /\ \E cut \in job[t].history :
       /\ \E newest \in job[t].history : seq[cut] < seq[newest]
       /\ job' = [job EXCEPT ![t].folding =
                    [folded  |-> job[t].base.folded
                                   \cup {u \in job[t].history : seq[u] <= seq[cut]},
                     through |-> seq[cut]]]
  /\ worker' = [worker EXCEPT ![t] = "folding"]
  /\ Send([op |-> "CompactionStatus", turn |-> t, active |-> TRUE])
  /\ Spend("fold", 1)

\* The summarizer is back, with a summary or with an error.
StopFolding(t) ==
  /\ worker[t] = "folding"
  /\ worker' = [worker EXCEPT ![t] = "folded"]
  /\ Send([op |-> "CompactionStatus", turn |-> t, active |-> FALSE])
  /\ UNCHANGED <<job, spent>>

\* The summary makes the request fit.
ReportCompaction(t) ==
  /\ worker[t] = "folded"
  /\ Send([op |-> "Compacted", turn |-> t, state |-> job[t].folding])
  /\ worker' = [worker EXCEPT ![t] = "streaming"]
  /\ UNCHANGED <<job, spent>>

Stream(t) ==
  /\ worker[t] = "streaming"
  /\ Send([op |-> "Delta", turn |-> t])
  /\ Spend("delta", 1)
  /\ UNCHANGED <<worker, job>>

Complete(t) == worker[t] = "streaming" /\ End(t, "completed")

\* The cancelled token is noticed before a fold, during it, or between chunks.
NoticeCancel(t) ==
  /\ worker[t] \in {"started", "folding", "streaming"} /\ t \in token
  /\ End(t, "cancelled")

\* A provider error, a chunk timeout, a context too large, or a panic.
Fail(t) == worker[t] \in Live /\ End(t, "error")

Worker(t) ==
  /\ \/ CallProvider(t) \/ StartFolding(t) \/ StopFolding(t) \/ ReportCompaction(t)
     \/ Stream(t) \/ Complete(t) \/ NoticeCancel(t) \/ Fail(t) \/ EndThread(t)
  /\ UNCHANGED <<transcript, loop, closing, attached, disk, token, titling, frontend,
                 view, abandoned>>

\* A detached title thread reports, or fails or times out without a word.
TitleThread(j) ==
  /\ titling' = titling \ {j}
  /\ \/ Send([op |-> "SetSessionSummary", session |-> j.session, first |-> j.first])
     \/ chan' = chan
  /\ UNCHANGED <<transcript, loop, closing, attached, disk, workers, frontend, view,
                 abandoned, spent>>

-----------------------------------------------------------------------------
(* The request loop, serving one request of the client at a time *)

Submit(t, config) ==
  /\ main = "serving" /\ told[t] = "unsent"
  /\ Send([op |-> "Enqueue", turn |-> t, config |-> config])
  /\ told' = [told EXCEPT ![t] = "sent"]
  /\ UNCHANGED <<frontend, verdict, spinner, abandoned, spent>>

Ask(kind) ==
  /\ main = "serving" /\ kind \in Request
  /\ Spend("request", 1)

RequestCancel(t) ==
  /\ Ask("cancel") /\ told[t] # "unsent"
  /\ Send([op |-> "Cancel", turn |-> t])
  /\ UNCHANGED <<frontend, view, abandoned>>

RequestStop ==
  /\ Ask("stop")
  /\ Send([op |-> "Stop"])
  /\ UNCHANGED <<frontend, view, abandoned>>

RequestClear ==
  /\ Ask("clear")
  /\ Send([op |-> "Clear"])
  /\ abandoned' = {t \in Turn : told[t] # "unsent"}
  /\ UNCHANGED <<frontend, view>>

RequestResume(s) ==
  /\ Ask("resume") /\ row[s] # "absent"
  /\ Send([op |-> "QueryStatus", id |-> rpc.id + 1])
  /\ main' = "querying"
  /\ rpc' = [id |-> rpc.id + 1, session |-> s, reply |-> "none"]
  /\ UNCHANGED <<view, abandoned>>

Answer ==
  /\ main' = "serving"
  /\ rpc' = [rpc EXCEPT !.session = None, !.reply = "none"]

\* The status says a turn is active or pending; or it says idle, and the row, the
\* workspace or the log stands in the way: the resume is refused.
RefuseResume ==
  /\ main = "querying" /\ rpc.reply \in {"busy", "idle"}
  /\ Answer
  /\ UNCHANGED <<chan, view, abandoned, spent>>

\* The status says idle: the row and the log are read, on this thread.
SendResume ==
  /\ main = "querying" /\ rpc.reply = "idle"
  /\ Send([op |-> "ResumeSession", id |-> rpc.id, session |-> rpc.session,
           title |-> row[rpc.session], turns |-> Restore(log[rpc.session])])
  /\ main' = "attaching"
  /\ rpc' = [rpc EXCEPT !.reply = "none"]
  /\ UNCHANGED <<view, abandoned, spent>>

ConfirmResume ==
  /\ main = "attaching" /\ rpc.reply = "attached"
  /\ Answer
  /\ UNCHANGED <<chan, view, abandoned, spent>>

\* 250 ms pass first: the client is told the resume failed.
TimeOut ==
  /\ main \in {"querying", "attaching"} /\ rpc.reply = "none"
  /\ Answer
  /\ Spend("timeout", 1)
  /\ UNCHANGED <<chan, view, abandoned>>

\* The input ends (and Shutdown is sent) or the loop fails (and it is not).
EndOfInput(polite) ==
  /\ main = "serving" /\ "eof" \in Request
  /\ main' = "draining"
  /\ IF polite THEN Send([op |-> "Shutdown"]) ELSE chan' = chan
  /\ UNCHANGED <<rpc, view, abandoned, spent>>

Serve ==
  /\ \/ \E t \in Turn, config \in BOOLEAN : Submit(t, config)
     \/ \E t \in Turn : RequestCancel(t)
     \/ RequestStop \/ RequestClear
     \/ \E s \in Turn : RequestResume(s)
     \/ RefuseResume \/ SendResume \/ ConfirmResume \/ TimeOut
     \/ \E polite \in BOOLEAN : EndOfInput(polite)
  /\ UNCHANGED <<transcript, loop, closing, attached, disk, workers, titling>>

\* shutdown_and_join: the flag, the command, the join.
RaiseFlag ==
  /\ main = "draining"
  /\ shutdownRequested' = TRUE
  /\ main' = "flagged"
  /\ UNCHANGED chan

SendShutdown ==
  /\ main = "flagged"
  /\ Send([op |-> "Shutdown"])
  /\ main' = "joining"
  /\ UNCHANGED shutdownRequested

Join ==
  /\ main = "joining" /\ ~running
  /\ main' = "exited"
  /\ UNCHANGED <<chan, shutdownRequested>>

ShutdownAndJoin ==
  /\ RaiseFlag \/ SendShutdown \/ Join
  /\ UNCHANGED <<transcript, loop, shuttingDown, running, attached, disk, workers,
                 titling, rpc, view, abandoned, spent>>

-----------------------------------------------------------------------------
\* The process dies, or has exited, and is started again, alone or with the
\* client: the disk and what was told to the client remain.  The tokens of dead
\* turns are kept, as history.
Restart ==
  /\ Spend("crash", 1)
  /\ chan' = <<>>
  /\ phase' = [t \in Turn |-> "absent"]
  /\ seq' = [t \in Turn |-> -1]
  /\ result' = [t \in Turn |-> "none"]
  /\ nextSeq' = 0
  /\ configs' = {} /\ activeCancel' = None /\ cancelling' = None /\ starting' = None
  /\ compaction' = NoSummary /\ pendingCompaction' = NoPending
  /\ activeConfig' = FALSE /\ summaryRequested' = FALSE
  /\ shuttingDown' = FALSE /\ shutdownRequested' = FALSE /\ running' = TRUE
  /\ session' = None /\ sessionTitle' = "absent" /\ turnSession' = [t \in Turn |-> None]
  /\ worker' = [t \in Turn |-> "off"] /\ job' = [t \in Turn |-> NoJob]
  /\ titling' = {}
  /\ main' = "serving"
  /\ rpc' = [rpc EXCEPT !.session = None, !.reply = "none"]
  /\ spinner' \in {spinner, FALSE}
  /\ UNCHANGED <<disk, token, told, verdict, abandoned>>

Next ==
  \/ Coordinator
  \/ \E t \in Turn : Worker(t)
  \/ \E j \in titling : TitleThread(j)
  \/ Serve
  \/ ShutdownAndJoin
  \/ Restart

Spec == Init /\ [][Next]_vars
\* The threads keep going: the coordinator and the request loop never wait for
\* ever (each wait has a time limit), nor does a worker (every call of the
\* provider does, and the stream is finite).
Fairness ==
  /\ WF_vars(Coordinator)
  /\ \A t \in Turn : WF_vars(Worker(t))
  /\ WF_vars((RefuseResume \/ SendResume \/ ConfirmResume)
               /\ UNCHANGED <<transcript, loop, closing, attached, disk, workers, titling>>)
  /\ WF_vars(ShutdownAndJoin)

FairSpec == Spec /\ Fairness

-----------------------------------------------------------------------------
(* Types, one conjunct per group of variables *)

TranscriptType ==
  /\ phase \in [Turn -> Phase] /\ seq \in [Turn -> SeqNo]
  /\ result \in [Turn -> Kind \cup {"none"}] /\ nextSeq \in Nat

LoopType ==
  /\ configs \subseteq Turn
  /\ activeCancel \in Turn \cup {None} /\ cancelling \in Turn \cup {None}
  /\ starting \in Turn \cup {None}
  /\ compaction \in Summary
  /\ pendingCompaction \in [turn : Turn \cup {None}, state : Summary]
  /\ activeConfig \in BOOLEAN /\ summaryRequested \in BOOLEAN

ClosingType ==
  shuttingDown \in BOOLEAN /\ shutdownRequested \in BOOLEAN /\ running \in BOOLEAN

AttachedType ==
  /\ session \in Turn \cup {None} /\ sessionTitle \in Title
  /\ turnSession \in [Turn -> Turn \cup {None}]

DiskType == log \in [Turn -> Log] /\ row \in [Turn -> Title]

WorkersType ==
  /\ worker \in [Turn -> Live \cup {"ending", "off"}] /\ job \in [Turn -> Job]
  /\ token \subseteq Turn

FrontendType ==
  /\ main \in {"serving", "querying", "attaching", "draining", "flagged", "joining", "exited"}
  /\ rpc \in [id : Nat, session : Turn \cup {None},
              reply : {"none", "idle", "busy", "attached"}]
  /\ main = "querying" => rpc.session # None

ViewType ==
  /\ told \in [Turn -> {"unsent", "sent", "queued", "running", "speaking", "over", "removed"}]
  /\ verdict \in [Turn -> Kind \cup {"none"}]
  /\ spinner \in BOOLEAN

\* Every variable holds a value of its type.
TypeOK ==
  /\ chan \in Seq(Command)
  /\ TranscriptType /\ LoopType /\ ClosingType /\ AttachedType /\ DiskType
  /\ WorkersType /\ titling \subseteq [session : Turn, first : Turn]
  /\ FrontendType /\ ViewType
  /\ abandoned \subseteq Turn /\ spent \in [Counted -> Nat]
=============================================================================
