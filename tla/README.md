# A TLA+ model of KQode: conversation backend and terminal

KQode is a coding agent for the terminal: a Rust backend (`src/src`) that owns
conversations, sessions, memory and providers, and a TypeScript TUI
(`src/tui/src`) that talks to it by JSON-RPC over stdio. The modules form four specifications:

1. *Conversation*: the backend's core, between a submitted prompt and its durable,
   resumable record; with `TurnQueue`, the abstract queue it implements.
2. *Link*: the terminal and its backend process across the pipe, with `TurnQueue` for
   the backend.
3. *Panels*: the docked panels of the terminal, their keys and their requests.
4. *Screen*: the home screen, its composer, command menu, transcript and layout.

Paths below are relative to the repository's root, as `src/...`.

## 1. Inventory

### 1.1 The parts and how they interact

| Part | State | Operations | Talks to |
|---|---|---|---|
| Request loop (`src/src/backend/mod.rs`, `message.rs`, `sessions.rs`) | the request being served | submit, cancel, stop, clear, resume, list, end of input | sends commands to the coordinator's channel; waits at most 250 ms for the answer to a status query or to a resume; reads the SQLite row and the session log itself, on its own thread |
| Coordinator (`src/src/conversation/state.rs`, `transcript.rs`, `coordinator.rs`) | `Transcript`, `LoopState` | `handle`, one command at a time | single owner of the transcript; calls persistence synchronously; spawns and joins one worker thread; emits events to the client |
| Turn worker (`src/src/chat/turn.rs`, `compaction.rs`, `compaction_plan.rs`) | a `TurnJob`: a snapshot of history and compaction, a cancellation token | compact, stream, complete, fail, notice a cancel | sends `Delta`, `Compacted`, `CompactionStatus`, `Settle` back over the coordinator's channel |
| Title threads (`src/src/conversation/mod.rs:222`, `chat/session_summary.rs`) | a `SummaryJob` | one provider call, 20 s limit | detached: send `SetSessionSummary`, or nothing |
| Persistence (`src/src/conversation/persistence.rs`, `session_log.rs`, `src/src/store/sessions.rs`) | attached session, session of each unsettled turn; JSONL logs; SQLite rows | `on_enqueue`, `on_settle`, `on_clear`, `on_compacted`, `on_summary_generated`, `attach_session` | the log is the truth, the row a projection of it |
| Store (`src/src/store`) | SQLite database, bootstrap lock | open, migrate, reindex, recover | shared by several processes |
| Memory (`src/src/memory`, `src/src/store/memory`) | Markdown items, an event log, SQLite projections, the inbox | add, edit, forget, reload, inbox apply/undo | called by the request loop; read by `load_memory_block` |
| Providers and connect (`src/src/provider`, `connect`, `secrets`, `store/providers.rs`) | keys, active selection | connect, select, submit config | request loop, workers |
| TUI backend client (`src/tui/src/backend`) | child process, connection, in-flight requests | spawn, ready, submit, respawn, time out | the backend's stdio |
| TUI transcript mirror (`src/tui/src/state/promptQueue`, `libs/promptQueue`) | optimistic rows, streamed text, generations | reduce one event, clear, reset, hydrate | fed by the client |
| TUI resume flow (`src/tui/src/backend/runtime`, `hooks/useResumeBackend.ts`) | the resume under way | stop, ask, list, relaunch, attach, hydrate, roll back | client, mirror, resume panel, the question over it |
| TUI panels (`src/tui/src/components/*Surface`, `*Panel`, `state/ui`) | the active surface and the panel's own atoms | keys, requests, answers, mount, unmount | the client, for data; the theme in force; the layout, for rows |
| TUI home screen (`src/tui/src/App.tsx`, `components`, `libs/tui`, `state/ui`) | prompt, caret, offsets, recall ring, menu, selection, armed confirmation | keys, mouse reports, pastes, repaints, resizes | submits through the client; rows come from the mirror |

Outside the model for good: colours and glyphs, Markdown, the terminal's escape
sequences, the clipboard itself, `xtask`, packaging, the blog, the evaluation harness,
the system prompt's text. They hold no protocol.

### 1.2 What is hard

- *Interleaving.* A worker's terminal event, a cancel, a stop, a clear and a second
  settle (`catch_unwind` around the runner) race in one FIFO channel.
- *Stale reads.* A resume asks for the status, then reads row and log on another
  thread, then sends what it read; the coordinator may have moved on meanwhile. A title
  is generated from a session that may be gone when it arrives.
- *Time-outs.* The resume's two waits are bounded by 250 ms, the commands behind them
  are not withdrawn.
- *Partial failure.* Each persistence operation is up to four writes (log event, row,
  log event, row); the coordinator reports or swallows a failure halfway.
- *Crash and restart.* Nothing but logs and rows survives; `restore_turns` turns an
  unsettled turn into an interrupted one.
- *Progress.* A turn without configuration settles inside `start_active`, which starts
  the next one; a shutdown joins a coordinator that waits for the active worker.

- *Optimism.* The terminal shows a prompt before the backend has heard of it, holds
  streamed text back, ignores turns it has cleared, and settles what it believes lost;
  the truth arrives late, from a process that may meanwhile be another one.
- *Late answers.* A panel's request is not withdrawn when the panel goes. Its answer
  finds whatever is there: the same panel opened again, another panel, a question.
- *Derived places.* Caret, selection, highlight and scroll offsets are numbers into rows
  that every key, event and resize rebuilds; five parts of the screen share its rows,
  each computed from the others.

`PROJECT.json` lists each hazard at its line.

### 1.3 What makes each part correct

- *Coordinator and workers*: one turn at a time, in the order accepted, each ended once
  and for good; a cancelled turn ends cancelled; nothing waits for ever.
- *Persistence*: the log of a session holds its turns and no other's, in one order, with
  the results the client was told; a resume rebuilds the context the next turn would
  have had.
- *Sessions*: a resume attaches only when no turn is unsettled; a title belongs to the
  session it was made from.
- *Compaction*: the summary and the verbatim rounds partition the completed rounds.
- *Store*: one process migrates at a time; a reindex yields what the logs say.
- *Memory*: an item's file, its projection and the event log agree after every crash; an
  inbox entry is applied at most once; undo restores the prior item.
- *TUI mirror and client*: with nothing on the wire the mirror is the backend's queue; a
  turn that was cleared does not come back; every prompt shown ends, whatever happens to
  the process.
- *Panels*: what covers a panel was asked for by it; lists agree with the backend once it
  has answered; a preview is undone; a panel that waits is given its keys back.
- *Home screen*: the caret is where the user types; the rows add up; a reader's rows hold
  still; a copy takes what is highlighted; a confirmation is of the text shown.

## 2. The modules

| Module | What it is |
|---|---|
| `Conversation` | coordinator, workers, title threads, request loop, persistence, disk, restart |
| `ConversationProperties` | what is stated about it, and the refinement mapping to `TurnQueue` |
| `TurnQueue` | the abstract specification: what a client may rely on about the turns it submits |
| `MCConversation` | the bounds of its instances |
| `Subsequences` | the filter of a list, as a function that can be reasoned about |
| `TranscriptMirror` | the terminal's rows: each update an operator on a record |
| `BackendLink` | client, process, pipe, resume flow; `INSTANCE`s `TurnQueue` as the backend, extends `TranscriptMirror` |
| `LinkProperties`, `MCLink` | what is stated about it, and its instance |
| `TuiLayout` | row arithmetic and list windows, shared by panels and screen |
| `MemoryPanel`, `ModelPanel`, `ConnectPanel`, `ThemePanel`, `ResumePanel`, `ProviderCatalog` | the state of each panel: operators on a record |
| `Surfaces` | which panel is in view, mounting and unmounting, the requests pending |
| `PanelKeys`, `PanelAnswers` | one action per hook that takes keys, one per request answered; the specification |
| `PanelProperties`, `MCPanels` | what is stated about them, and the instance |
| `PromptText` | width, wrapping, window, caret and clicks of the prompt |
| `TranscriptRows` | entries, wrapped rows, window, selection, highlight, copy |
| `Composer`, `CommandMenu` | editing, recall; matching and running commands |
| `Screen`, `ScreenInput` | the screen's record, its layout and repaint; one action per input |
| `ScreenProperties`, `MCScreen` | what is stated about it, and the instance |
| `ConversationProofs`, `QueueProofs`, `SessionProofs` | the theorems about `Conversation`, each module on those before it |
| `LinkProofs`, `MirrorProofs` | the theorems about the link; its mirror on a quiet pipe |
| `PanelProofs` | the theorems about the panels |
| `ScreenProofs` | the theorems about windows, layout and the home screen |
| `NaturalOrder` | least elements of sets of naturals, induction and iteration up to a number |

The compositions: `BackendLink` composes client, mirror and resume flow with the abstract
queue, which `Conversation` is proved to implement, so the two halves meet in
`TurnQueue`. `PanelAnswers` composes the five panels, the question and the surface
switch; `ScreenInput` composes composer, menu, transcript and layout.

### 2.1 How `Conversation` corresponds to the code

A handler of `LoopState::handle` is one action, from receipt of the command
(`Receive`) to the test that ends the loop (`Return`, `LoopStops`). There is one
exception. `start_active` is the tail call of `enqueue` and of `settle`, and may itself
call `settle` when the turn has no provider configuration; the variable `starting`
holds the turn it is about to be called with, `StartActive` is the call, and `Receive`
is disabled while `starting` is set. No other thread can see the state between the two.

| Variables | Code |
|---|---|
| `chan` | the `mpsc` channel of `Command`s |
| `phase`, `seq`, `result`, `nextSeq` | `Transcript.turns`, `next_seq`; phase "absent" means not in the vector, which `seq` orders |
| `configs`, `activeCancel`, `cancelling`, `compaction`, `pendingCompaction`, `activeConfig`, `summaryRequested`, `shuttingDown`, `shutdownRequested` | the fields of `LoopState`; a config is only present or absent, the token is named by its turn |
| `worker`, `job`, `token` | the thread, its `TurnJob`, and the tokens that were cancelled. `active_thread` is the thread of the active turn; `join` is the guard `worker[t] = "off"` of `SettleActive` |
| `titling` | detached `spawn_session_summary` threads |
| `session`, `sessionTitle`, `turnSession` | `current_session`, its `first_prompt_summary`, `turn_sessions` |
| `log`, `row` | each session's JSONL file, kept as what `restore_turns` folds it into, and the title in its SQLite row |
| `main`, `rpc` | where `run_loop`, `resume_session` and `shutdown_and_join` are; the reply channel of the request in hand (each request has one of its own, hence `rpc.id`) |
| `told`, `verdict`, `spinner` | what the emitted events tell the client about a turn, the kind of its settle, the compaction hint |
| `abandoned`, `spent` | history: turns submitted before a clear; how much of each bound is used |

What is abstracted:

- Prompts, replies and summaries are dropped; a summary is the set of rounds it stands
  for, with the boundary `covered_through_seq`. Turn ids are the client's UUIDs, used
  once; a session takes the name of the turn whose enqueue minted it.
- `stop` and `clear` loop over the pending turns inside one handler; the loop is a set
  comprehension. A write that fails is chosen by the environment: `stop` goes on past
  it (any subset of the log's lines fails, and the touches of the session's row succeed or
  fail together), `on_clear` gives up at it (`logged` is a prefix in `seq`
  order).
- Token counting is a choice: any request may exceed the threshold and any head that
  leaves the newest round out may be the one folded (`StartFolding`).
- `validate_current_workspace`, an unreadable log and a missing row all end in the same
  refusal, `RefuseResume`.
- A log line is written or not. A line torn by a crash is not modelled (plan, below).
- The tokens of turns that died with the process stay in `token`; they are history
  there, so that `CancelSticks` speaks about a cancelled turn across a restart.

A definition `X_Y` is a faulty variant of `X`, kept next to it: a plausible mistake in
that piece of code. No specification uses one; each shows that some property would
notice the mistake.

### 2.2 The abstract specification

`TurnQueue` has neither channel nor threads nor disk: turns are accepted behind the
unfinished ones, one runs, it finishes once, the one right behind it starts, a condemned
turn finishes cancelled. Under `FairSpec` the running turn finishes. `Queue` in
`ConversationProperties` is the mapping: a turn is waiting or running as its phase says,
`ahead` is read off `seq`, the outcome is what the client was told, the condemned turn
is the active one in `cancelling`.

### 2.3 How `BackendLink` and `TranscriptMirror` correspond to the code

| State | Code |
|---|---|
| `mirror` | the atoms of `state/promptQueue`: rows, streamed text, what the coalescer holds, ignored turns, generations, the current session's id |
| `state`, `session`, `launching`, `fallback` | `BackendClient`: lifecycle, connection, transition, the session a failed relaunch goes back to |
| `inFlight`, `waiting` | `inFlightTurnIds`; requests that await readiness |
| `up`, `down`, `alive` | the child's stdin and stdout, in order; whether it runs |
| `stage`, `ahead`, `outcome`, `condemned`, `attached`, `folding` | the backend: `TurnQueue`, its session and compaction |
| `flow` | where `sessionResume.ts` and `useResumeBackend.ts` are |
| `hint` | `compactionInProgressAtom` |

A prompt is its turn; an answer is the number of chunks that arrived. The backend tells
the terminal what `Conversation` says it does: events in order, acknowledgements after
what they acknowledge. A crash loses what is in the pipe up to any point. A request may
time out although it is answered later. A relaunch may fail before the new process is
there, or after it exited (`LaunchFails(exits)`). One relaunch at a time. A failure that
meets several turns is one operator on their set: the code takes them one by one, and
their order does not show. `received` counts the chunks since the rows were last replaced,
by a clear or a resume; it is history, as are `cleared`, `hydrated` and `submitted`.

### 2.4 How the panels correspond to the code

`ui` is the terminal (`activeSurfaceAtom`, the open panel's atoms as one record, the
question, the rows, the theme), `calls` the pending requests in the order sent, `store`
the backend's data. A hook `use...Input` is one action, a choice over the keys it knows;
Esc is also heard by `App`. An answer is an action on whatever `ui` it finds. Requests
that the backend serves on threads of their own (`Threaded`) may overtake the others.
Lists are lengths, texts are blank or not, a draft is valid or not; the outcome line of a
connection and the words of an error are left out. What a panel out of view leaves in its
atoms is dropped where mounting resets it (`Forget`).

A request that fails may have been carried out: the client's time-out does not take it
back, and the backend may fail after some of its writes. So each request that writes has,
when it fails, every store it may leave behind: nothing changed, all of it, or a prefix
of its writes (`AnswerForm`, `AnswerMutation`, `AnswerSelect`, `Refused`, `AnswerClear`;
`ItemsAfter` is what a mutation does to the number of items). One that is carried out
only after its time was up takes effect here when it fails. For /memory nothing can tell:
its requests have the same time-out and the backend serves them in order, so that
whatever list is read later is read behind it. A key that the backend is still checking
can take effect later than that, when a list has been read meanwhile; no property speaks
of the connections the backend has at that moment. `doubted` in the record of /memory is history: the
form told of a failure since the list was asked for. The store is changed by this
terminal only.

### 2.5 How the screen corresponds to the code

`s` is one record. A key passes the handlers in the order they are registered
(`KeyPress`); each input ends in `Repaint`, which does what the effects and derived atoms
do. A text is a sequence of graphemes, with the widths and byte counts as constants;
control characters stand as one grapheme, "BEL". Commands have names of one or two
letters. Letter case, wording of notices, the status bar, transient hints and the `q` of
the help page (the same as Esc) are left out; Markdown is its fallback, plain wrapped
text; of the popups only what they do to the home screen is here, their own keys are in
the panel modules. Mouse reports that arrive in one chunk are taken one by one.
Every assistant row is therefore one segment (`ToAssistantRows`, `RowSegments`); a styled
row of Markdown, which the code highlights piece by piece, is not covered. An input is
handled with the state the one before left (`Dispatch`): the handlers read the state of
the last render, which is the same one unless two keys arrive before React has rendered.
`armedText`, `unannounced` and `peeked` are history variables.

## 3. What is model-checked

### 3.1 Conversation

The bounds of `Bound` count requests other than submit, deltas, folds, failing writes,
panics, restarts and time-outs; every turn may be submitted once, with or without
configuration, at any moment.

| Run | Turns | Allowed | Shows |
|---|---|---|---|
| `queue` | 3 | cancel, stop, clear: 2; panic: 1 | one worker in charge, no idle queue, cancels and clears are final, `TurnQueue` implemented |
| `sessions` | 3 | stop, clear, resume: 2; restart: 1; time-out: 1 | a resume attaches only when idle; what the client was told is what the log restores; titles and order survive resumes and restarts |
| `compaction` | 4 | cancel, clear, resume: 1; fold: 1; delta: 1 | the context of each turn is exactly its session's rounds; the hint does not outlive its turn |
| `faults` | 3 | stop, clear, resume: 2; failing write: 1 | order, context and the queue survive a failing write |
| `liveness` | 2 | cancel, stop, clear, end of input: 1; fold, panic: 1 | every turn is answered, the process exits, the fair queue is implemented |

Three turns are what the queue needs: one active, one that is next, one that must stay
behind it. Four in `compaction`, because a fold needs two completed rounds, a third
turn to make it, and a fourth to see the result. Two requests let a resume follow a
clear, or a second clear follow the first. The liveness run has two turns, the smallest
queue with a successor; it is checked without symmetry, which is unsound for liveness.
The others use the symmetry of turn ids, which no action distinguishes.

### 3.2 Link

`mirror`: two prompts and the turn of a stored session of another folder; any three of
two commands (cancel or clear), a chunk, a fault (crash, time-out or failed launch)
and a resume, which may stop a turn (`MaxTogether`). Two prompts are the least for a
queue in the mirror; the stored turn is what hydration brings; one fault at any place
meets a prompt in every stage, and a clear, a resume and a fault meet one another. `Patient` is
TRUE: no prompt is submitted while a resume is under way, which the panel does not
prevent (section 3.6). Exempted, because the code does otherwise: after a hydration the
set of ignored turns is a new one (`hydrated` in `ClearedStaysGone`). It shows that

- with the pipe empty, the rows are the backend's unfinished turns that were not
  cleared, in order, and the active one is the running one (`QuietMirrorAgrees`);
- a cleared turn has no row again, text is shown of unfinished turns only, an answer is
  final, and the hint has an owner;
- every prompt shown ends or leaves the screen (`PromptSettles`).

### 3.3 Panels

`panels`: two providers (one the custom one, which may be connected at the start), two
models, two memory items, four themes, three sessions, bodies of four lines, heights of
14 (too small), 15 and 20 rows; two panels brought up and two requests sent by keys, a
connection at the start counted as one. Lists are longer than the smaller windows; two panels
are what a late answer needs to find the wrong one. It shows that the highlighted row is
drawn, overlays belong to their panel, previews are undone, an arriving list does not move
the highlight, and a waiting panel gets its keys back. Requests that fail may have been
carried out; even so a list of /memory that is shown as loaded is the backend's once
nothing is pending, but for one thing: an add or an edit that fails tells so in its form
and reads nothing again (`doubted` in `QuietMemoryAgrees`; section 3.6). The lists of /memory and /resume are not scrolled by a resize, only by the next
key; `resized` exempts that moment.

### 3.4 Screen

`screen`: a terminal of 8 columns and 15 rows that may be resized to 10 columns and to 14
(too small) or 18 rows, an empty transcript or one turn, texts with narrow and wide
graphemes and one without a width, line breaks and pastes that overflow. The budgets are the combinations that
can disturb each other: four keys; three mouse reports and an event; two keys and two
pastes or events; two keys, two mouse reports, or one key and a mouse report or event
around a resize. It may begin with a prompt just submitted. `ReaderHolds` speaks of
the backend's events: the local echo of a prompt and a failed submit do move a reader,
and so does a panel that opens. It lets a row appear below those read: the reader may
have scrolled before the rows fitted, and then a blank one is left to be filled.
`HighlightIsCopied` lets graphemes without a width at a row's end be copied unseen: the
highlight of styled segments stops at the last column, the copy at the last grapheme.

`CHECK_DEADLOCK FALSE` in every configuration: the system may stop, when the user or the
client has nothing left to ask (every bound spent) or when the process has exited.

### 3.5 Fairness

`Conversation`: weak fairness of what the code schedules on its own: the coordinator
(its `recv` loop; every handler ends, the join inside `settle` waits for a worker that
has already sent its last message), each worker (chunks have a time limit, cancellation
is polled every 50 ms, the stream ends), the steps of a resume on the request loop
(`recv_timeout`), and `shutdown_and_join`. Nothing is assumed of the client, of title
threads, of crashes, of failing writes or of time-outs.

`BackendLink`: weak fairness of the backend's loop, of reading the pipe, of the end of a
launch (it has a time-out), of noticing an exit, of applying a resume that was answered,
and of the end of a running turn, which the fair `TurnQueue` promises and the `liveness`
run checks of `Conversation`.

`PanelAnswers`: `RequestsSettle`, every request is answered or fails, because each has a
time-out in `BackendClient`. Keys send finitely many requests, and an answer is followed
by finitely many, so that it says no more than weak fairness of the answers would.

### 3.6 Where the code and its documents differ

Each is a run of its own, whose single property states the document's words.

| Run | Property | What happens |
|---|---|---|
| `late_attach` | `AnsweredResumeIsOver` | The wait for the attach times out, the client is told the resume failed, and the command still attaches the session later. |
| `empty_session` | `VisibleSessionHasTurn` | If the row is written and the first `TurnEnqueued` is not, a session with no turn is visible. |
| `title_reverts` | `TitleSticks` | The current session is resumed while its title is in flight: the row read before the attach carries the placeholder, and the next write puts it back. |
| `resume_id` | `SessionIdIsAttached` | A /clear overtakes the answer to the question for the current session; the exit card then offers to resume a session the runtime is not attached to. |

Met while modelling, and kept out of the properties rather than claimed:

- *Link.* A relaunch whose new process exits before it is ready tears the previous
  session down and reinstates it as ready (modelled in `LaunchFails`;
  `src/docs/plans/2026-07-08-001-feat-local-session-resume-plan.md:360` wants it kept).
  A turn cleared before a resume can get a blank row from a late event after it. A
  prompt submitted during a resume disappears when the resumed rows arrive. A restored
  draft overwrites what was typed meanwhile. Overlapping relaunches are not modelled.
- *Panels.* An add or an edit of /memory that fails is only an error in its form, and the
  list behind it is not read again, although the request may have been carried out: the
  time was up, or the row was not written after the file. Without `doubted`,
  `QuietMemoryAgrees` is violated by an add (open /memory, send the form, the list is
  answered, the add fails). A second Enter while an add is pending adds twice; an add that finishes
  closes the form of a later opening; the answers to a selection or a saved theme close
  whatever surface is open then; two resumes can be under way at once; the `finally` of an
  inline connect clears the mark of a newer one.
- *Screen.* A submit that fails, and its discarded row, do not hold a reader; Up at a soft
  wrap skips a row; a confirmation armed before a late paste confirms the pasted text;
  Ctrl+C under a question docked over Home clears the hidden draft; an edited recall is
  lost by the next Up; selections keep their row numbers over a re-wrap.

## 4. What is proved

### 4.1 Conversation

The theorems about `Conversation` hold for any finite set of turns, any requests and any
bounds (`ConversationAssumption`), and so for any number of crashes and failing writes.
All of its safety invariants that a run checks are theorems.
Each is proved relative to the ones above it; each invariant has one lemma per action or
per group of actions that disturbs it in the same way.

| Theorem | States | Inductive invariant, and why |
|---|---|---|
| `TypeCorrect` | `TypeOK` | itself; helper lemmas type the log operations, the transcript's operators and the channel |
| `ResumesOnlyWhenIdle` | `ResumeOnlyWhenIdle` | `ResumeInv`. The status is checked long before the attach, and nothing in the property says why no `Enqueue` slips in: every status or resume command has a used id (`QueryIds`), the one waited for is the last in the channel (`QueryIsLast`), an "idle" answer stays true while acted on (`IdleStaysTrue`), no `Enqueue` stands before a resume, even a timed-out one (`AttachBeforeEnqueue`) |
| `CancelInvariant`, `CancelIsFinal` | `CancelSticks` | `CancelInv`: at most one turn is active, the transcript is ordered, the token, the starting turn and the one being cancelled are the active one's (`AboutActive`), a turn enters the queue once (`EnqueuedOnce`), no log has settled an unsettled turn (`UnsettledIsOpen`); with `ResumeOnlyWhenIdle`, or a resume could bring back a turn that runs |
| `QueueNeverIdle` | `NoIdleQueue` | itself, over `CancelInv`; a non-empty set of pending turns has a first (`LeastElement`) |
| `ClearedForGood` | `ClearIsFinal` | `ClearInv`: besides, every enqueue submitted before a clear that is still in the channel has that clear behind it (`ClearFollows`) |
| `OneTurnInCharge` | `TurnInCharge` | `WorkerInv`: besides, a turn that is still to start has reported nothing (`NotYet`), and a stopped loop waits for no turn |
| `TurnsAreOrdered` | `UniqueOrder` | `OrderInv`: numbers of transcript and current log lie below `nextSeq`, logs of unknown sessions are empty, and what the request loop read of a log is still what it says when it is attached (`ReadIsCurrent`) |
| `OwnSessionOnly` | `ContextOfOwnSession` | `SessionInv`. A context is a snapshot of a transcript and a summary; that both are of the session that logged the turn takes saying where everything is: each unsettled turn, and each completed round, is logged in the attached session under its number, or was detached by a clear and is being cancelled (`PlaceInv`); each summary on its way, in a job, in the channel or to be adopted, is of its turn's session (`PlanInv`); what a resume has read is still in the log when it is attached (`ReadIsExact`); titles and their threads stay with their session (`OwnTitles`) |
| `HintEndsWithTurn` | `HintOnlyWhileActive` | `HintInv`: a compaction status in the channel is of the active turn and stands before its settle. Proved as long as no backend has died (`spent["crash"] = 0`): the hint is the client's, and a restart of the backend alone takes the turn and leaves the hint. The runs that check it allow no restart |
| `VerdictsAreLogged`, `RoundsAreLogged`, `TitlesAreOwn` | `VerdictIsLogged`, `RoundsMatchLog`, `TitleOfOwnRound` | `SoundInv`: as long as no write has failed, transcript and log have the same rounds and summary (`RoundsLogged`), a turn that was told its end, or was detached, has a result in a log (`VerdictLogged`), and the titles a session has, is sent or has asked for are one at most, of a round that completed (`TitledOnce`). The last is needed because a second request is refused by a flag, `summaryRequested`, that a resume and a clear set anew |
| `ContextsAreExact` | `ContextExact` | `ContextInv`. "Each round once" is not inductive: the summary and the rest are kept apart by one number. So each summary, in a log, a job, the channel or awaiting adoption, stands for exactly the rounds up to its boundary, which lies below the turn it was made for (`SummariesFit`, `PlansFit`), the worker holds exactly the rounds beyond it, under the log's numbers (`HistoriesFit`), and what has ended was accepted before what waits (`SettledFirst`, from `NoIdleQueue`, `ActiveFirst` and `WorkerInv`) |
| `BackendIsTurnQueue` | `ImplementsTurnQueue` | `ActiveFirst`: the active turn was accepted before those that wait. Init maps to Init; every handler is a step of `TurnQueue` or a stutter: enqueueing accepts, settling finishes and starts the turn right behind, stop and clear drop, a restart loses |

"As long as no write has failed" is `spent["fault"] = 0`, the condition of the properties
themselves. It is the code's: a settle that cannot be written is reported and the turn
ends all the same. `OwnSessionOnly`, `TurnsAreOrdered`, the first part of `TitlesAreOwn`,
and everything about the queue need no such condition.

### 4.2 Link

For any finite set of turns, of which the absent one is none, any stored session without
a turn twice (`LinkAssumption`), any bounds, stored sessions of this folder or another,
and users who wait for a resume or who do not (`Patient`):

| Theorem | States |
|---|---|
| `LinkTypeCorrect` | `LinkTypeOK` |
| `ClearedStaysGoneCorrect` | `ClearedStaysGone` |
| `StreamFollowsRowCorrect` | `StreamFollowsRow` |
| `HintHasOwnerCorrect` | `HintHasOwner` |
| `AnswerIsFinalCorrect` | `AnswerIsFinal` |
| `QuietMirrorCorrect` | `QuietMirrorAgrees`, for users who wait for a resume (`Patient`) |

All but the last follow from one invariant, `LinkInv` (`LinkCorrect`), because each part of the
terminal is kept right by what the others know:

- *The mirror* (`MirrorInv`): rows are of different turns, a row has settled exactly if
  its turn is ignored, text is of a row that has not, and is what arrived. Each operator
  of `TranscriptMirror` is proved once to lead from a good mirror to one it may come to
  when it hears of certain turns (`After`): the others' text and settled rows stay as
  they are (`Keeps`, which is also why an answer is final). Dropping and keeping rows are
  recursive functions over sequences, and failing several turns is a fold; lemmas proved
  by induction up to a number (`NaturalOrder`) say what they yield.
- *The pipe* (`PipeInv`): a submit is sent once, to a backend that has not heard of the
  turn; a turn's acknowledgement is told before anything else of it, its end once and
  last; a turn that was sent is in flight until its end arrives.
- *The backend's queue* (`QueueInv`): what waits is totally ordered, so that a stop and a
  crash can tell of it in order.

The parts need each other. A submit that times out, or whose process dies, settles a row
and drops what is held of it: that loses no text only because the mirror has none before
the acknowledgement (`TextHeard`), which is about the pipe. It also takes its turn out of
flight, and leaves the hint alone: that is right only because the turn the hint is on for
has been acknowledged (`HintOwned`). And a chunk that arrives after a clear is dropped
because the turn is ignored, which holds because turns are known to the mirror before
they are sent.

`QuietMirrorAgrees` compares two queues that never meet: the terminal adds a row before
the backend has heard of the prompt, and changes it when it hears of what the backend did
some steps ago. Its invariant, `QuietInv`, therefore speaks of what is still on its way,
and needs no account of what the rows become when all of it has arrived:

- *The rows* (`RowsInv`). A turn the backend may still have something to say of has its
  row, with its prompt, or is ignored (`RowsShown`); one that is unfinished or yet to be
  heard of is ignored only if it was cleared (`PendingShown`). Rows are in the order
  of `Before`: what runs, what waits behind it, what is on its way up, what waits for a
  process (`RowsOrdered`). A row that has not settled is of a turn in flight or waiting
  (`RowsInFlight`), and each of these is pending, or its end is on its way
  (`FlightPending`). A row is active or queued as the backend has it, or the word that
  makes it so is on its way (`ActiveShown`), and the last word of rows becoming active is
  about the turn that runs (`ActiveTold`). A clear on its way drops only what the
  user cleared (`ClearCovers`), and a turn yet to be sent was not heard of, so that a
  mirror reset for a new process keeps its row (`StampHeard`).
- *The resume* (`FlowInv`). It is asked for once, and no prompt follows it on its way
  (`OneResume`); once it is agreed to, nothing is pending, so that the rows the
  resumed session replaces are all of ended turns (`ResumedIdle`). This is the part
  that fails for a user who submits a prompt meanwhile.

Every operator of the mirror is proved to keep the rows of turns that are not ignored, in
their order (`Follows`), and mostly their states (`Retains`); the backend's steps are
reduced to what they tell (`Answers`, `Accounts`, `Announces`). On an empty pipe the rows
that have not settled and the backend's queue list the same turns in the same order, and
there is only one such list (`OneOrder`).

The attempt on `LinkInv` changed the model in one place: `received` went on counting over a clear and
a resume, which made "what is shown is what arrived" false of rows that had been replaced
and come back.

### 4.3 Panels

For any catalog of providers, none of which is the absent one, and any list of models
(`CatalogAssumption`), any number of themes but zero (`ThemeAssumption`), any budgets of
keys and requests, any heights, any number of sessions and any providers of the catalog
connected at the start (`SizesAssumption`), and any number but zero of items and of lines
of a body (`ItemsAssumption`):

| Theorem | States |
|---|---|
| `PreviewsEnd` | `PreviewUndone` |
| `OverlaysAreOwn` | `OwnOverlay` |
| `ListsAgree` | `QuietMemoryAgrees`; the invariant has it without "nothing pending": whatever a request did before it failed, its answer takes the list away until it is read again, or is the error of a form, which leaves `doubted` |
| `ListsShowHighlight` | `ListsInView` |
| `ModelDrawsHighlight` | `ModelInView` |
| `ArrivalKeepsPlace` | `AnchoredHighlight` |
| `PanelTypesCorrect` | `PanelsTypeOK` |

One inductive invariant, `PanelInv`, stands behind the first three, since a step of one panel
can unmount it and mount another. Its parts: the record of the open panel has the fields
of its kind and is good for it (`Consistent`, `GoodPanel`); a picker in view knows the
theme to fall back to, and out of view the theme in force is the one chosen
(`PreviewOf`); the panel's kind is that of the surface. `OwnOverlay` alone is not
inductive: a step of /connect is of the provider selected *in the list as last read*, so
`OwnSteps` says the highlight lies in that list and `KnownAgrees` that each reading has
the catalog's order. A step makes a terminal that is `Ready`, and `RenderedInv`, proved
once, says that unmounting and mounting make it good again; then there is one lemma per
panel's keys and per answer.

`ListsInView` speaks of whatever is mounted, so its invariant, `ViewInv`, does: the list
of the mounted panel shows its highlight (`Shows`), besides that lists have lengths. Two
things make it inductive. A list of /memory that is covered by a form, a detail or a
confirmation comes back as it was, so that `MemoryShows` speaks of the rows it has when it
is not covered; and a list that was resized shows its highlight again only after a key,
because the writers of that key window it anew. What a step may make of the terminal is
`Fine` if it shows the list that was mounted; rendering it then shows the one that is
(`CommitShows`), be it the same or one that mounts at its top.

The list of /model needs an invariant of its own, `ModelSeen`: its rows are a concatenation
over the providers, each with a header and with the models, the notice or the error of its
last load, and they come and go under the highlight. `Sees` says that the highlighted row,
if it is among the rows, lies in the window *as stored*, and that if it is not, the list of
its provider is being loaded: reopening /model and a retry load a list again without moving
the highlight, and the answer puts it on a row again. The surface clamps the offset when it draws and
falls back to the first row that can be chosen; that this one is drawn takes that every
header is followed by a row of its provider. What selecting and concatenating yields, for any
sequences, are lemmas proved by induction up to a number. `ArrivalKeepsPlace` then speaks
of the steps on which models arrive: the highlight and its place on the screen are those
before it, unless the rows end before. The property knows such a step by what it shows,
a request for models that is taken off; that only the answer to it does that
(`ArrivalIsAnswer`: keys take nothing off, and every other answer takes off its own) is
proved from the types of the requests, so that the theorem stands on `TypesInv` as well.

`PanelTypesCorrect` has the invariant `TypesInv`: the terminal is typed as well where no
panel shows it, each request under way is of a panel that was mounted, by the number of
its mounting (`CallSet`), and asks for what its kind allows, and the store is typed. It stands on
`PanelInv`, which says whose record the open panel is. Every key and every answer makes a
typed terminal and sends typed requests; a key of a provider is sent only for one of the
catalog, because it is that of the row selected in the list that was read.

The attempts changed the model where it was wrong. `Resize` chose the mounted panel
by a CASE whose guards overlapped, which TLC resolves by their order and the logic does
not. The constants did not say that `None` is no provider, that only providers are
connected, or that there is an item and a line to show. And `PanelsTypeOK` bounded the
offset of /model by the length of its list, which held of the two models of the run only: a
second answer to a load may be shorter than the first and leave the offset beyond the
end, until the surface clamps it. The property now says what the code keeps.

### 4.4 Windows, layout and the home screen

`ConfirmsTextShown` proves `ArmedOverShown` for any texts, commands, sizes and budgets.
The invariant, `Confirmed`, is the property with the fields of the screen and of the
composer. Every operator of the screen is shown to keep it; those a key other than Esc
reaches are shown to leave no confirmation pending (`Unarmed`), since `Disarm` comes
first, so that they may change the text. Only Esc and Ctrl+C arm, of the text there is,
and only `Inserted` and `RestoreDraft` change the text under a confirmation, and say so.

The system's other properties follow from one invariant:

| Theorem | States |
|---|---|
| `ScreenSound` | `Kept`, the invariant itself |
| `CaretStaysInView` | `CaretInView` |
| `CopiesWhatIsHighlighted` | `HighlightIsCopied` |
| `ScreenAlwaysFits` | `ScreenFits`, if the folder and the branch fit six lines of the narrowest terminal |
| `ReaderIsHeld` | `ReaderHolds` |

They hold for any graphemes with any widths (`TextAssumption`, `ChromeAssumption`), any
registry of commands (`RegistryAssumption`), any texts typed, pasted, streamed and resumed,
any sizes of the terminal and places of the pointer (`InputAssumption`), any number of
recalled prompts (`RingAssumption`), any length of the folder's line and any least width of
three columns or more (`SizeAssumption`), and any budgets.

`Kept` has two parts. `Sound`: every field has its type, and the caret lies in its text.
`Mounted`: while the composer is on the screen, the rows the
layout gives it are those its text now wraps into, and the caret's row is in its window unless
the user has scrolled away. The second part is what the properties need and none of them
says: the composer reports its rows *after* the layout was computed from those it
reported before (`Commit`), so a handler that leaves the caret in view of the old height
might leave it out of view of the new one. `CommitMounted` is the lemma that it does not.

- *Wrapping* is a recursive function over the graphemes. `WrappedRowsAre`, proved by
  induction up to a number, says what the rest uses: there is a row, the rows are parts
  of the text and leave out no place of it, so that the caret is on one of them.
- `CaretInView` is `Mounted` with the arithmetic of the window and of the layout.
- `HighlightIsCopied` relates two computations that share no code: the highlight goes by
  columns, row by row or segment by segment, the copy by graphemes. Both are shown to be
  the same slice of the row; a selection may point anywhere.
- `ScreenFits` adds up the layout in each of its modes. The proof found its hypothesis,
  `CwdLength <= 6 * MinColumns`: nothing in the code cuts the line of the folder and the
  branch, and a seventh row of it beside a one-row composer with an error is one row too
  many on a terminal of 15.
- `ReaderIsHeld` follows the rows of the transcript through each event: an event changes the
  rows of one turn, so that those above it stay, and the offset counts from the end. It needs
  `Mounted`, or the repaint could change the composer's height, and with it the window.

The remaining theorems of `ScreenProofs` are about the operators those proofs and the
panels' rest on, for every text, window, list and terminal size:

| Theorem | For every | Behind |
|---|---|---|
| `ScrolledIntoView` | wrapped text, caret, offset, height: the composer's window shows the caret | `CaretInView` |
| `ClickHoldsWindow` | window: a click does not move it | `CaretInView` |
| `FollowHoldsReader` | transcript that grows or shrinks below a scrolled window: the same rows are seen | `ReaderHolds` |
| `ListFollowsHighlight` | list: the highlighted entry is in the window, which moves only if it must | `ListsInView`, `ModelInView` |
| `ComposerLeavesRoom` | terminal of the least height or more, folder line of at most three rows: the transcript keeps a row and the parts fit | `ScreenFits` |
| `PopupLeavesRoom` | such a terminal and popup: header, a row of transcript and the popup fit | `ScreenFits` |

### 4.5 Only model-checked

Every safety invariant and every action property a passing run checks is a theorem. What is only
model-checked is what must eventually happen, because fairness and ENABLED are out of the
prover's reach: `EveryTurnAnswered`, `ExitCompletes` and `ImplementsFairTurnQueue` of
`Conversation` (the safety part of the last is `BackendIsTurnQueue`), `PromptSettles` of
the link, `PanelSettles` of the panels. The properties of section 3.6, which the code
violates, are refuted by TLC.

## 5. Not modelled, and the plan

Left, in this order:

1. `SessionStore`: the session log line by line and the row, with crashes between and
   within writes (a torn last line, and what is appended to it), two processes on one
   session, reindex after a migration, the bootstrap lock. In `Conversation` a line is
   written or not, and the log is its fold.
2. `MemoryLog`: operations on memory items with their event log, the inbox,
   with crashes between the writes. The panels stand on an abstract store. The extraction of
   memories has a scheduler that no part of the program constructs, and `purge` of the
   inbox no caller, so neither is in the plan.
3. The Rust side of connecting: the selection, the key in the secret store and the submit
   that reads both.
4. Overlapping relaunches, an impatient user during a resume, and the resume panel
   composed with the link.

Not modelled because it has no protocol of its own or computes text: the provider's HTTP
and streaming decoder, prompt assembly, memory screening and the prompt block, Git status,
debug logs, the one-shot headless command, themes' colours, Markdown, the terminal's
start-up and escape sequences, the status bar.
