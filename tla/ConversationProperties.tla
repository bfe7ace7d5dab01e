----------------------- MODULE ConversationProperties -----------------------
(***************************************************************************)
(* What makes the conversation backend correct, stated over its model.     *)
(***************************************************************************)
EXTENDS Conversation

-----------------------------------------------------------------------------
(* Safety *)

\* Exactly one turn is in charge: a turn the coordinator waits for has a worker
\* alive or the settle that worker sent in the channel, never both and never
\* neither, and no other turn has a thread.  Two would let a dead turn go on
\* streaming, none would block the queue for ever.
TurnInCharge ==
  \A t \in Turn :
    LET reported == \E i \in DOMAIN chan : chan[i].op = "Settle" /\ chan[i].turn = t
    IN  IF phase[t] = "active" /\ starting # t THEN worker[t] \in Live <=> ~reported
        ELSE worker[t] = "off"

\* A turn waits only behind another that is active: between two handlers the
\* queue is never left with pending turns and nothing running.
NoIdleQueue == Pending # {} /\ ~IsShuttingDown => Active # {}

\* When the coordinator attaches a session no turn is active or pending, however
\* long ago the request loop asked for its status.
ResumeOnlyWhenIdle ==
  running /\ chan # <<>> /\ Head(chan).op = "ResumeSession" => Unsettled = {}

\* A turn whose cancellation was signalled never ends otherwise than cancelled:
\* not for the client, and in no log, whatever its worker had already sent.
CancelSticks ==
  \A t \in token :
    /\ verdict[t] \in {"none", "cancelled"}
    /\ \A s \in Turn : log[s].result[t] \in {"none", "cancelled"}

\* What the client was told of a turn's end is what a resume would show: one log,
\* and only one, holds the turn, with that result (unless a write has failed).
VerdictIsLogged ==
  \A t \in Turn :
    verdict[t] # "none" /\ spent["fault"] = 0 =>
      \E s \in Turn : /\ Restore(log[s]).result[t] = verdict[t]
                      /\ \A r \in Turn \ {s} : log[r].seq[t] < 0

\* The rounds the next turn would be given are those a restart and a resume of the
\* current session would give it, and so is the compaction (no write failed).
RoundsMatchLog ==
  spent["fault"] = 0 =>
    LET rounds == {t \in Turn : phase[t] = "settled" /\ result[t] = "completed"}
    IN  IF session = None THEN rounds = {} /\ compaction = NoSummary
        ELSE /\ rounds = {t \in Turn : log[session].result[t] = "completed"}
             /\ \A t \in rounds : log[session].seq[t] = seq[t]
             /\ compaction = log[session].compaction

\* The context of a running turn is exactly the completed rounds of the session
\* that logged it, each once: verbatim or in the summary, before and after the
\* worker's own compaction (no write failed).
ContextExact ==
  spent["fault"] = 0 =>
    \A t \in Turn, s \in Turn :
      worker[t] \in Live /\ log[s].seq[t] >= 0 =>
        LET rounds  == {u \in Turn : log[s].result[u] = "completed"}
            plan    == job[t].folding
            rest    == {u \in job[t].history : ~Covers(plan, seq[u])}
        IN  /\ job[t].history \cup job[t].base.folded = rounds
            /\ job[t].history \cap job[t].base.folded = {}
            /\ plan # NoSummary => /\ plan.folded \cup rest = rounds
                                   /\ plan.folded \cap rest = {}

\* Once a clear is handled nothing submitted before it goes on: such a turn is
\* gone, or it is the active one and about to settle as cancelled, or settled.
\* (A loop that is shut down stops without handling the clear.)
ClearIsFinal ==
  running /\ (\A i \in DOMAIN chan : chan[i].op # "Clear") =>
    \A t \in abandoned : phase[t] \in {"pending", "active"} =>
                            phase[t] = "active" /\ cancelling = t

\* A title is generated from a round of the very session that gets it, although
\* it comes from a thread that outlives the session; and unless a write has failed
\* that round completed, and the session gets no second title.
TitleOfOwnRound ==
  \A s \in Turn :
    /\ \A t \in log[s].titles : log[s].seq[t] >= 0
    /\ spent["fault"] = 0 => /\ \A t \in log[s].titles : log[s].result[t] = "completed"
                            /\ Cardinality(log[s].titles) <= 1

\* The turns of a session are totally ordered by their seq, in the log and in the
\* transcript, across resumes, restarts and failed writes.
UniqueOrder ==
  \A t, u \in Turn :
    t # u => /\ phase[t] # "absent" /\ phase[u] # "absent" => seq[t] # seq[u]
             /\ \A s \in Turn : log[s].seq[t] >= 0 => log[s].seq[t] # log[s].seq[u]

\* Even when writes fail, a turn's context holds no round of another session.
ContextOfOwnSession ==
  \A t, s \in Turn :
    worker[t] \in Live /\ log[s].seq[t] >= 0 =>
      \A u \in job[t].history \cup job[t].base.folded : log[s].seq[u] >= 0

\* The compaction hint is on only while a turn is active: no turn's end leaves it
\* behind, although a cancelled compaction never reports that it stopped.
HintOnlyWhileActive == spinner => Active # {}

-----------------------------------------------------------------------------
(* Statements of the documentation the code does not meet *)

\* A resume that was answered is not carried out later: the session stays what
\* the client was told (resume failures "keep the current session intact").
AnsweredResumeIsOver ==
  main = "serving" => \A i \in DOMAIN chan : chan[i].op # "ResumeSession"

\* A visible session row has a first turn ("never leaves behind a partially
\* visible session row with no first turn").
VisibleSessionHasTurn ==
  \A s \in Turn : row[s] # "absent" => \E t \in Turn : log[s].seq[t] >= 0

\* A generated title never gives way to the placeholder again ("once generated,
\* the summary replaces the placeholder everywhere the session is shown").
TitleSticks == [][\A s \in Turn : row[s] = "generated" => row'[s] = "generated"]_vars

-----------------------------------------------------------------------------
(* Liveness *)

\* Every turn the client submits is answered: it ends or is removed, unless the
\* client cleared the conversation or closed the backend.
EveryTurnAnswered ==
  \A t \in Turn :
    told[t] = "sent" ~> \/ told[t] \in {"over", "removed"}
                        \/ t \in abandoned
                        \/ main \notin {"serving", "querying", "attaching"}

\* Closing the input always ends the process, whatever is queued or running.
ExitCompletes == main = "draining" ~> main = "exited"

-----------------------------------------------------------------------------
(* Refinement *)

\* The queue the client sees: a turn is new until its enqueue is handled, and over
\* once it has left the transcript or settled there.
Queue == INSTANCE TurnQueue WITH
  stage <- [t \in Turn |-> IF phase[t] = "pending" THEN "waiting"
                           ELSE IF phase[t] = "active" THEN "running"
                           ELSE IF told[t] \in {"unsent", "sent"} THEN "new" ELSE "over"],
  ahead <- [t \in Turn |-> IF t \in Unsettled
                           THEN {u \in Unsettled : seq[u] < seq[t]} ELSE {}],
  outcome <- verdict,
  condemned <- {t \in Active : cancelling = t}

\* The coordinator, its workers and its channel keep the promise of TurnQueue: one
\* turn at a time in the order of acceptance, each over once and for good,
\* cancelled if it was told to stop.
ImplementsTurnQueue == Queue!Spec

\* And every running turn does end.
ImplementsFairTurnQueue == Queue!FairSpec
=============================================================================
