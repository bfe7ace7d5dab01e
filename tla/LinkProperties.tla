--------------------------- MODULE LinkProperties ---------------------------
(***************************************************************************)
(* What the terminal owes its user across the pipe.                        *)
(***************************************************************************)
EXTENDS BackendLink

\* The client, its connection and its transition only take the values of backendClient.ts.
LinkTypeOK ==
  /\ state \in {"Starting", "Ready", "Dead"}
  /\ session \in {"none", "live", "gone"} /\ fallback \in {"none", "live", "gone"}
  /\ launching \in {"no", "start", "relaunch"} /\ flow \in FlowPhase
  /\ alive \in BOOLEAN /\ hint \in BOOLEAN
  /\ \A i, j \in DOMAIN mirror.rows : i # j => mirror.rows[i].turn # mirror.rows[j].turn

\* Nothing is on its way between the terminal and a backend that runs.
Quiet ==
  /\ state = "Ready" /\ session = "live" /\ alive /\ launching = "no"
  /\ up = <<>> /\ down = <<>> /\ waiting = <<>> /\ flow \notin Busy

\* Once the pipe is empty the mirror shows the backend's queue and nothing else: the
\* unfinished turns the user did not clear, with their prompts, in the order they run,
\* and the one that runs as the active one.  Prompts are shown before the backend has
\* heard of them, events may be about rows that are gone, and processes come and go.
QuietMirrorAgrees ==
  Quiet =>
    LET shown == Unsettled(mirror)
        queue == AcceptedOrder(Unfinished \ cleared)
    IN  /\ Len(shown) = Len(queue)
        /\ \A i \in DOMAIN shown :
             /\ shown[i].turn = queue[i] /\ shown[i].text
             /\ shown[i].state = "active" <=> queue[i] \in Backend!Running

\* A cleared turn has no row again, late events and failures of its process included,
\* as long as no resume has replaced the set of turns to ignore.
ClearedStaysGone == \A t \in cleared : HasRow(mirror, t) => hydrated

\* Text shown belongs to a turn that has not ended, and what is shown and what the
\* coalescer holds back are together what arrived since the rows were last replaced: a
\* timer that fires late adds nothing, and no event overtakes the text before it.
StreamFollowsRow ==
  \A t \in Turn :
    /\ mirror.stream[t] > 0 => \E i \in DOMAIN Unsettled(mirror) : Unsettled(mirror)[i].turn = t
    /\ HasRow(mirror, t) /\ RowOf(mirror, t).state # "settled" =>
         mirror.stream[t] + mirror.held[t] = received[t]

\* How a turn ended does not change while its row is there: not when its process dies,
\* not when its request times out after its answer.
AnswerIsFinal ==
  [][\A t \in Turn :
       /\ HasRow(mirror, t) /\ RowOf(mirror, t).state = "settled"
       /\ HasRow(mirror', t) /\ flow # "labelling"
       => RowOf(mirror', t) = RowOf(mirror, t)]_vars

\* The compaction hint is on only on behalf of a submitted turn that has not ended, so
\* the end of that turn, or of its process, turns it off.
HintHasOwner == hint => inFlight # <<>>

\* Every prompt shown as queued or running ends or leaves the screen, although the
\* process may die, not start, not answer or be replaced.
PromptSettles ==
  \A t \in Turn \ ToSet(Past) :
    (HasRow(mirror, t) /\ RowOf(mirror, t).state # "settled")
      ~> ~(HasRow(mirror, t) /\ RowOf(mirror, t).state # "settled")

-----------------------------------------------------------------------------
(* A statement of the documentation the code does not meet *)

\* What the exit card offers to resume is the session the runtime is attached to ("the
\* id shown is the session currently attached to the runtime at exit").
SessionIdIsAttached == Quiet /\ mirror.current # None => mirror.current = attached
=============================================================================
