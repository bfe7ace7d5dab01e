-------------------------- MODULE TranscriptMirror --------------------------
(***************************************************************************)
(* The terminal's copy of the conversation: the rows the user sees, kept   *)
(* up to date from the backend's events by transcriptReducer.ts and the    *)
(* atoms of state/promptQueue.  The copy is a record, and every update an  *)
(* operator from one record to the next, as in the source.                 *)
(***************************************************************************)
EXTENDS Naturals, Sequences, SequencesExt, Subsequences

CONSTANTS Turn, None

Result == {"none", "completed", "needsConfiguration", "error", "cancelled"}

-----------------------------------------------------------------------------
(* The backend's events *)

Enqueued(t, state) == [type |-> "enqueued", turn |-> t, state |-> state]
Activated(t) == [type |-> "activated", turn |-> t]
Delta(t, n) == [type |-> "tokenDelta", turn |-> t, chunks |-> n]
Settled(t, result) == [type |-> "settled", turn |-> t, result |-> result]
Removed(t) == [type |-> "removed", turn |-> t]

-----------------------------------------------------------------------------
(* The mirror *)

Zero == [t \in Turn |-> 0]

EmptyMirror ==
  [rows |-> <<>>,        \* [turn, text known?, state, result], in the order added
   stream |-> Zero,      \* chunks of streamed text shown for a turn
   held |-> Zero,        \* chunks its coalescer holds back until the timer fires
   stamp |-> Zero,       \* generation of the first event seen of a turn, 0 if none
   generation |-> 1,
   ignored |-> {},       \* turns whose events are dropped from now on
   notices |-> {},       \* turns with a client-side error row
   current |-> None]     \* the session the exit card offers to resume

\* The rows of turns outside T.
Without(rows, T) == Only(rows, {r \in ToSet(rows) : r.turn \notin T})

HasRow(m, t) == \E i \in DOMAIN m.rows : m.rows[i].turn = t
RowOf(m, t) == m.rows[CHOOSE i \in DOMAIN m.rows : m.rows[i].turn = t]
Unsettled(m) == Only(m.rows, {r \in ToSet(m.rows) : r.state # "settled"})
HasActiveRow(m) == \E i \in DOMAIN m.rows : m.rows[i].state = "active"
TurnInFlight(m) == \E i \in DOMAIN m.rows : m.rows[i].state # "settled"

UpdateTurn(m, t, state, result) ==
  [m EXCEPT !.rows = [i \in DOMAIN @ |->
     IF @[i].turn = t THEN [@[i] EXCEPT !.state = state, !.result = result] ELSE @[i]]]

\* The optimistic row of a prompt just submitted.
AppendPrompt(m, t) ==
  [m EXCEPT !.rows = Append(@, [turn |-> t, text |-> TRUE, state |-> "active", result |-> "none"])]

StampTurnGeneration(m, t) ==
  IF m.stamp[t] = 0 THEN [m EXCEPT !.stamp[t] = m.generation] ELSE m

EnsureTurn_Again(m, e) ==
  [m EXCEPT !.rows = Append(@, [turn |-> e.turn, text |-> FALSE, result |-> "none",
                                state |-> "active"])]

\* A turn the mirror has no row for gets one without its prompt.
EnsureTurn(m, e) ==
  IF HasRow(m, e.turn) THEN m
  ELSE [m EXCEPT !.rows = Append(@,
          [turn |-> e.turn, text |-> FALSE, result |-> "none",
           state |-> IF e.type = "enqueued" THEN e.state ELSE "active"])]

ActivateTurn_Settled(m, t) ==
  [m EXCEPT !.rows = [i \in DOMAIN @ |->
     [@[i] EXCEPT !.state = IF m.rows[i].turn = t THEN "active" ELSE "queued"]]]

\* One row is active: every other one that has not settled is queued.
ActivateTurn(m, t) ==
  [m EXCEPT !.rows = [i \in DOMAIN @ |->
     IF @[i].state = "settled" THEN @[i]
     ELSE [@[i] EXCEPT !.state = IF m.rows[i].turn = t THEN "active" ELSE "queued"]]]

SetTurnState(m, t, state) ==
  IF state = "active" THEN ActivateTurn(m, t)
  ELSE UpdateTurn(m, t, state, RowOf(m, t).result)

AppendDelta(m, t, n) == [m EXCEPT !.stream[t] = @ + n]

SettleTurn_KeepsText(m, t, result) ==
  UpdateTurn([m EXCEPT !.ignored = @ \cup {t}], t, "settled", result)

\* The turn ends for good.
SettleTurn(m, t, result) ==
  UpdateTurn([m EXCEPT !.ignored = @ \cup {t}, !.stream[t] = 0], t, "settled", result)

RemoveTurn(m, t) ==
  IF HasRow(m, t)
  THEN [m EXCEPT !.ignored = @ \cup {t}, !.stream[t] = 0,
                 !.rows = Without(@, {t})]
  ELSE m

ReduceKnown(m, e) ==
  LET n == EnsureTurn(StampTurnGeneration(m, e.turn), e)
  IN  CASE e.type = "enqueued"   -> SetTurnState(n, e.turn, e.state)
        [] e.type = "activated"  -> ActivateTurn(n, e.turn)
        [] e.type = "tokenDelta" -> AppendDelta(n, e.turn, e.chunks)
        [] e.type = "settled"    -> SettleTurn(n, e.turn, e.result)

ReduceTranscriptEvent(m, e) ==
  IF e.turn \in m.ignored THEN m
  ELSE IF e.type = "removed" THEN RemoveTurn(m, e.turn)
  ELSE IF m.stamp[e.turn] \notin {0, m.generation} THEN m
  ELSE ReduceKnown(m, e)

-----------------------------------------------------------------------------
(* The atoms *)

\* Text is shown when its timer fires, or just before another event of its turn.
FlushCoalescer(m, t) ==
  IF m.held[t] = 0 THEN m
  ELSE [ReduceTranscriptEvent(m, Delta(t, m.held[t])) EXCEPT !.held[t] = 0]

TranscriptEvent(m, e) ==
  IF e.type = "tokenDelta" THEN [m EXCEPT !.held[e.turn] = @ + e.chunks]
  ELSE ReduceTranscriptEvent(FlushCoalescer(m, e.turn), e)

\* Submits that failed: an error row each, and each prompt's row settles without a result.
\* The failures of several turns do not depend on their order.
SettleLocalSubmitFailure(m, turns) ==
  [m EXCEPT !.rows = [i \in DOMAIN @ |->
              IF @[i].turn \in turns THEN [@[i] EXCEPT !.state = "settled"] ELSE @[i]],
            !.ignored = @ \cup turns, !.notices = @ \cup turns]

DiscardLocalSubmit(m, turns) ==
  [m EXCEPT !.rows = Without(@, turns), !.ignored = @ \cup turns]

VisibleTurns(m) == {m.rows[i].turn : i \in DOMAIN m.rows}

IgnoredByClear_Settled(m) == VisibleTurns([m EXCEPT !.rows = SelectSeq(@, LAMBDA r : r.state = "settled")])
IgnoredByClear(m) == VisibleTurns(m)

ClearTranscript(m) ==
  [m EXCEPT !.held = Zero, !.generation = @ + 1, !.ignored = @ \cup IgnoredByClear(m),
            !.rows = <<>>, !.notices = {}, !.stream = Zero, !.stamp = Zero, !.current = None]

ResetTranscriptMirror_DropsAll(m) ==
  [m EXCEPT !.held = Zero, !.generation = @ + 1, !.rows = <<>>, !.stream = Zero,
            !.stamp = Zero, !.current = None]

\* A new backend knows none of the old one's turns; a prompt it has yet to be sent stays.
ResetTranscriptMirror(m) ==
  LET known == {t \in Turn : m.stamp[t] # 0}
  IN  [m EXCEPT !.held = Zero, !.generation = @ + 1,
                !.ignored = @ \cup (VisibleTurns(m) \cap known),
                !.rows = Without(@, known),
                !.stream = Zero, !.stamp = Zero, !.current = None]

\* The rows of a resumed session replace everything, the turns to ignore included.
HydrateResumedTranscript(m, session, turns) ==
  [m EXCEPT !.held = Zero, !.generation = @ + 1, !.ignored = ToSet(turns),
            !.rows = [i \in DOMAIN turns |->
                       [turn |-> turns[i], text |-> TRUE, state |-> "settled",
                        result |-> "completed"]],
            !.notices = {}, !.stream = Zero,
            !.stamp = [t \in Turn |-> IF t \in ToSet(turns) THEN m.generation + 1 ELSE 0],
            !.current = session]
=============================================================================
