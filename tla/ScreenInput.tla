---------------------------- MODULE ScreenInput ----------------------------
(***************************************************************************)
(* What reaches the home screen: keys, in the order their handlers hear    *)
(* them; mouse reports; pastes; the backend's events; a resize.             *)
(***************************************************************************)
EXTENDS Screen

CONSTANTS Typed,        \* graphemes typed one at a time
          Pastes,       \* texts pasted
          Chunk, Answer, \* a streamed piece of text, and a turn's whole answer
          PointerRows, PointerColumns, \* where the mouse points, counted from 1
          Heights, Widths,  \* of the terminal
          Terms,        \* sizes it may have at the start
          Prompt,       \* the first prompt submitted
          Transcripts,  \* turns a resumed session brings
          Budgets       \* how many inputs of each kind a run has

WheelRows == 3

ASSUME InputAssumption ==
    /\ Typed \subseteq Grapheme /\ Pastes \subseteq Text /\ {Chunk, Answer, Prompt} \subseteq Text
    /\ Transcripts \subseteq Seq([text: Text, result: [kind: STRING, text: Text]])
    /\ PointerRows \cup PointerColumns \subseteq Nat
    /\ Heights \cup Widths \subseteq Nat /\ Terms \subseteq [rows: Nat, columns: Nat]

-----------------------------------------------------------------------------
(* Submitting and commands *)

Capture(u, text) ==
    [u EXCEPT !.sequence = @ + 1, !.ring = AppendRecallEntry(@, text)]

ClearComposer(u) == [u EXCEPT !.composer = EmptyComposer]

EnqueuePrompt(u, text, sequence) ==
    [u EXCEPT !.queue = Append(@, [state |-> "active", text |-> text, result |-> NoResult,
                                   stream |-> <<>>, sequence |-> sequence]),
              !.bodyOffset = 0]

AppendNotice(u, text, sequence) ==
    [u EXCEPT !.notices = Append(@, [sequence |-> sequence, text |-> text]), !.bodyOffset = 0]

ClearTranscript(u) == [u EXCEPT !.queue = <<>>, !.notices = <<>>, !.bodyOffset = 0]

ExecuteCommand(u, entry) ==
    CASE entry.command.id = "exit"   -> [u EXCEPT !.exited = TRUE]
      [] entry.command.id = "clear"  -> ClearTranscript(u)
      [] entry.command.id = "help"   -> [u EXCEPT !.surface = "help", !.helpOffset = 0]
      [] entry.command.id = "resume" -> [u EXCEPT !.popup = "resume"]
      [] OTHER -> [u EXCEPT !.surface = "docked"]

RunEntry(u, entry) == ClearComposer(ExecuteCommand(Capture(u, EntryFullName(entry)), entry))

PostUnknown(u, text) ==
    ClearComposer(AppendNotice(Capture(u, text), UnknownCommandToken(text), u.sequence))

ShowOverLimit(u) == [u EXCEPT !.composer.error = TRUE]

\* Enter: what is too long or empty stays; a slash starts a command, which the
\* open menu completes and a closed one does not.
Submit(u, entries) ==
    LET text == Trim(u.composer.text)
        verdict == ValidateComposerSubmit(u.composer.text)
    IN  CASE verdict = "over-limit" -> ShowOverLimit(u)
          [] verdict = "empty" -> u
          [] verdict = "ok" /\ entries # <<>> -> RunEntry(u, entries[1])
          [] verdict = "ok" /\ entries = <<>> /\ Head(text) = Slash -> PostUnknown(u, text)
          [] OTHER -> ClearComposer(EnqueuePrompt(Capture(u, text), text, u.sequence))

HandleSubmit(u) ==
    Submit(u, IF Head(Trim(u.composer.text) \o <<Space>>) = Slash
              THEN ExactCommandMatch(Trim(u.composer.text)) ELSE <<>>)

-----------------------------------------------------------------------------
(* The composer's keys, each handler in turn *)

Edited(u, c) == [u EXCEPT !.composer = c, !.highlight = 0, !.dismissed = FALSE]

EndsInBackslash(c) == c.cursor > 0 /\ c.text[c.cursor] = "\\"

HandleNewline(u, key) ==
    [u EXCEPT !.composer = InsertText(IF key = "enter" THEN DeleteBackward(@) ELSE @, <<Newline>>)]

MenuKeys == {"up", "down", "tab", "esc", "enter"}

HandleMenuKey(u, key, matches) ==
    LET chosen == HighlightedEntry(matches, u.highlight)
        name   == EntryFullName(chosen[1])
    IN  CASE key = "up"   -> [u EXCEPT !.highlight = MoveHighlight(matches, @, -1)]
          [] key = "down" -> [u EXCEPT !.highlight = MoveHighlight(matches, @, 1)]
          [] key = "esc"  -> [u EXCEPT !.dismissed = TRUE]
          [] key = "tab" ->
               IF chosen = <<>> \/ Trim(u.composer.text) = name
               THEN u ELSE [u EXCEPT !.composer = InsertText(EmptyComposer, name)]
          [] key = "enter" -> Submit(u, chosen)

\* While a turn runs Esc asks for it to be cancelled; the answer is an event.
HandleEsc(u) ==
    CASE ActiveTurn(u) -> u
      [] ~ActiveTurn(u) /\ u.armed = "clearInput" -> [ClearComposer(u) EXCEPT !.armed = "none"]
      [] ~ActiveTurn(u) /\ u.armed # "clearInput" /\ u.composer.text # <<>> ->
           [u EXCEPT !.armed = "clearInput", !.armedText = u.composer.text, !.unannounced = FALSE]
      [] OTHER -> u

HandleVertical(u, step) ==
    LET recall == IF step < 0 THEN RecallPrevious(u.ring, u.composer.text) ELSE RecallNext(u.ring)
        c == MoveCursorVertically(u.composer, InputColumns(u), step)
    IN  CASE ResolveVerticalCursorIndex(u.composer, InputColumns(u), step) # NoTarget ->
               [u EXCEPT !.composer = c]
          [] OTHER ->
               IF recall.found
               THEN [u EXCEPT !.ring = recall.ring, !.dismissed = TRUE,
                              !.composer = WithText(recall.text, OverLimit(recall.text))]
               ELSE u

\* One read of the clipboard at a time.
PasteFromClipboard(u) == [u EXCEPT !.reading = TRUE]

CopyLastResponse(u) ==
    LET text == LastAssistantResponse(u.queue)
    IN  IF text = <<>> THEN u ELSE [u EXCEPT !.clipboard = text]

HandleTextEdit(u, key) ==
    CASE key = "backspace" -> Edited(u, DeleteBackward(u.composer))
      [] key \in Typed     -> Edited(u, InsertText(u.composer, <<key>>))
      [] OTHER -> u

Dispatch(u, key) ==
    CASE key = "newline" \/ (key = "enter" /\ EndsInBackslash(u.composer)) -> HandleNewline(u, key)
      [] MenuOpen(u) /\ key \in MenuKeys
           /\ ~(key = "enter" /\ EndsInBackslash(u.composer)) -> HandleMenuKey(u, key, Matches(u))
      [] ~MenuOpen(u) /\ key = "esc"  -> HandleEsc(u)
      [] ~MenuOpen(u) /\ key = "up"   -> HandleVertical(u, -1)
      [] ~MenuOpen(u) /\ key = "down" -> HandleVertical(u, 1)
      [] key = "left"  -> [u EXCEPT !.composer = MoveCursor(@, -1)]
      [] key = "right" -> [u EXCEPT !.composer = MoveCursor(@, 1)]
      [] key = "ctrlV" -> PasteFromClipboard(u)
      [] key = "ctrlO" -> CopyLastResponse(u)
      [] ~MenuOpen(u) /\ key = "enter" /\ ~EndsInBackslash(u.composer) -> HandleSubmit(u)
      [] OTHER -> HandleTextEdit(u, key)

Disarm_Never(u, key) == u

\* Any key but Esc gives up a pending confirmation.
Disarm(u, key) == IF key = "esc" THEN u ELSE [u EXCEPT !.armed = "none"]

ComposerKey(u, key) ==
    IF ComposerMounted(u) /\ ~u.locked /\ key # "ctrlC" THEN Dispatch(Disarm(u, key), key) ELSE u

-----------------------------------------------------------------------------
(* Keys of the transcript, of help, of the shell and of the whole program *)

ScrollBody(u, step) ==
    [u EXCEPT !.bodyOffset = Clamp(@ + step, 0, MaxBodyOffset(u))]

ScrollPage(u, direction) == ScrollBody(u, direction * AtLeast(1, Layout(u).bodyRows - 2))

HomeKey(u, key) ==
    CASE HomeMounted(u) /\ key = "pageUp"   -> ScrollPage(u, 1)
      [] HomeMounted(u) /\ key = "pageDown" -> ScrollPage(u, -1)
      [] HomeMounted(u) /\ key = "end"      -> [u EXCEPT !.bodyOffset = 0]
      [] OTHER -> u

ScrollHelp(u, step) ==
    [u EXCEPT !.helpOffset = Clamp(@ + step, 0, AtLeast(0, HelpLines - AtLeast(1, Rows(u) - 1)))]

HelpKey(u, key) ==
    LET page == AtLeast(1, Rows(u) - 2)
        seen == u.surface = "help" /\ ~TooSmall(u)
    IN  CASE seen /\ key = "up"       -> ScrollHelp(u, -1)
          [] seen /\ key = "down"     -> ScrollHelp(u, 1)
          [] seen /\ key = "pageUp"   -> ScrollHelp(u, -page)
          [] seen /\ key = "pageDown" -> ScrollHelp(u, page)
          [] seen /\ key = "esc"      -> [u EXCEPT !.helpOffset = 0]
          [] OTHER -> u

\* Esc closes the popup seen, and the surface under it.
ShellKey(u, key) ==
    LET v == IF HomeMounted(u) THEN [u EXCEPT !.popup = "none"] ELSE u
    IN  CASE key = "esc" /\ u.surface # "home" -> [v EXCEPT !.surface = "home", !.armed = "none"]
          [] key = "esc" /\ u.surface = "home" -> v
          [] OTHER -> u

\* The text a copy takes, none if nothing is selected.
CopySelection(u) == SelectedText(BodyView(u).rows, u.selection)

CtrlC(u) ==
    CASE ActiveTurn(u) -> [u EXCEPT !.armed = "none"]
      [] ~ActiveTurn(u) /\ u.armed = "exit" -> [u EXCEPT !.armed = "none", !.exited = TRUE]
      [] ~ActiveTurn(u) /\ u.armed # "exit" /\ u.surface = "home" /\ ~TooSmall(u)
           /\ u.composer.text # <<>> -> [ClearComposer(u) EXCEPT !.armed = "none"]
      [] OTHER -> [u EXCEPT !.armed = "exit", !.armedText = u.composer.text, !.unannounced = FALSE]

\* Ctrl+C copies what is selected, whatever else it would do.
GlobalKey(u, key, selected) ==
    LET v == IF key \in {"pageUp", "pageDown", "end"} THEN u ELSE [u EXCEPT !.selection = NoSelection]
    IN  CASE key = "ctrlC" /\ selected # <<>> ->
               [v EXCEPT !.clipboard = selected, !.armed = "none"]
          [] key = "ctrlC" /\ selected = <<>> -> CtrlC(v)
          [] key # "ctrlC" /\ key # "esc" /\ u.armed = "exit" -> [v EXCEPT !.armed = "none"]
          [] OTHER -> v

\* The popups and panels have keys of their own: modules PanelKeys, PanelAnswers.
Keys == Typed \cup {"enter", "newline", "tab", "esc", "up", "down", "left", "right", "backspace",
                    "ctrlV", "ctrlO", "ctrlC", "pageUp", "pageDown", "end"}

\* Every handler mounted hears a key, the composer's first.
KeyPress(key) ==
    /\ Left("keys")
    /\ LET u == HelpKey(ComposerKey(Spend("keys"), key), key)
       IN  Commit(GlobalKey(ShellKey(HomeKey(u, key), key), key, CopySelection(s)))

-----------------------------------------------------------------------------
(* The mouse *)

InsideSafeChrome(u, row, column) == row \in 1..Rows(u) /\ column \in 1..SafeColumns(u)

OverComposer(u, row) == row - 1 >= ComposerTop(u) /\ row - 1 < Rows(u) - 1

GestureRegion(u, row) ==
    CASE Docked(u) -> "none"
      [] ~Docked(u) /\ row - 1 \in BodyTop(u)..(BodyTop(u) + Layout(u).bodyRows - 1) -> "body"
      [] OTHER -> IF OverComposer(u, row) THEN "composer" ELSE "none"

\* The transcript's row and column under the pointer; none if it is empty.
PointUnder(u, view, row, column) ==
    Point(Clamp(view.window.startIndex
                  + Clamp(row - 1 - BodyTop(u), 0, view.window.end - view.window.startIndex - 1),
                0, AtLeast(0, Len(view.rows) - 1)),
          AtLeast(0, column - 1))

SelectionPress(u, view, row, column, soon) ==
    LET point == PointUnder(u, view, row, column)
        count == ClassifyClick(u.lastPress, row, column, soon)
        range == ResolveMultiClickRange(view.rows[point.row + 1], point.row, point.column, count)
        v == [u EXCEPT !.lastPress = [row |-> row, column |-> column, count |-> count]]
    IN  CASE view.rows = <<>> -> u
          [] view.rows # <<>> /\ range # NoSelection ->
               [v EXCEPT !.selection = range, !.boundsLocked = TRUE]
          [] OTHER -> [v EXCEPT !.selection = Selection(point, point), !.boundsLocked = FALSE]

\* A drag or the release; a word or a line stays as it was taken.
SelectionDrag(u, view, row, column, released) ==
    LET point == PointUnder(u, view, row, column)
        anchor == IF u.selection = NoSelection THEN point ELSE u.selection.anchor
    IN  CASE view.rows = <<>> -> u
          [] view.rows # <<>> /\ u.boundsLocked -> [u EXCEPT !.boundsLocked = ~released]
          [] OTHER -> [u EXCEPT !.selection = Selection(anchor, point)]

PositionComposerCaret(u, row, column) ==
    IF InsideSafeChrome(u, row, column)
    THEN [u EXCEPT !.composer =
            ResolveClickResult(@, InputColumns(u), ComposerVisibleRows(u),
                               row - 1 - (ComposerTop(u) + 1), column - 1 - PromptPrefixColumns)]
    ELSE u

\* A report of the mouse gives up a pending exit, and no other confirmation.
Pointed(u) == IF u.armed = "exit" THEN [u EXCEPT !.armed = "none"] ELSE u

LeftPress(row, column, soon) ==
    /\ Left("pointer") /\ HomeMounted(s)
    /\ LET u == [Pointed(Spend("pointer")) EXCEPT !.region = GestureRegion(s, row)]
       IN  Commit(CASE u.region = "body" -> SelectionPress(u, BodyView(u), row, column, soon)
                    [] u.region = "composer" -> PositionComposerCaret(u, row, column)
                    [] OTHER -> u)

LeftDrag(row, column, released) ==
    /\ Left("pointer") /\ HomeMounted(s) /\ s.region # "none"
    /\ LET u == Pointed(Spend("pointer"))
           v == IF u.region = "body" THEN SelectionDrag(u, BodyView(u), row, column, released) ELSE u
       IN  Commit(IF released THEN [v EXCEPT !.region = "none"] ELSE v)

WheelTarget(u, row, column) ==
    CASE Docked(u) -> "body"
      [] ~Docked(u) /\ ~InsideSafeChrome(u, row, column) -> "none"
      [] OTHER -> IF ComposerWindow(u).canScroll /\ OverComposer(u, row) THEN "composer" ELSE "body"

ScrollComposer(u, up) ==
    LET window == ComposerWindow(u)
        step   == Clamp(ComposerVisibleRows(u) - 1, 1, WheelRows)
    IN  [u EXCEPT !.composer.offset =
           Clamp(@ + (IF up THEN step ELSE -step), window.minOffset, window.maxOffset)]

Wheel(row, column, up) ==
    /\ Left("pointer") /\ HomeMounted(s)
    /\ LET u == Pointed(Spend("pointer"))
           target == WheelTarget(u, row, column)
       IN  Commit(CASE target = "composer" -> ScrollComposer(u, up)
                    [] target = "body" -> ScrollBody(u, IF up THEN WheelRows ELSE -WheelRows)
                    [] OTHER -> u)

RightClicked(u, selected) ==
    CASE selected # <<>> -> [u EXCEPT !.clipboard = selected]
      [] selected = <<>> /\ ~Docked(u) -> PasteFromClipboard(u)
      [] OTHER -> u

\* Copies what is selected, or pastes; the terminal may paste as well.
RightClick ==
    /\ Left("pointer") /\ HomeMounted(s)
    /\ Commit(RightClicked([Pointed(Spend("pointer")) EXCEPT !.suppress = TRUE,
                                                            !.selection = NoSelection],
                           CopySelection(s)))

-----------------------------------------------------------------------------
(* Pastes, events of the backend, and the terminal *)

Inserted(u, text) ==
    LET c == InsertText(u.composer, SanitizePastedText(text))
    IN  [u EXCEPT !.composer = c, !.unannounced = @ \/ (u.armed # "none" /\ c # u.composer)]

\* A bracketed paste, dropped if it soon follows a right click.
PasteArrives(text, soon) ==
    /\ Left("events") /\ ComposerMounted(s)
    /\ LET u == [Spend("events") EXCEPT !.suppress = FALSE]
       IN  Commit(IF s.suppress /\ soon THEN u ELSE Inserted(u, text))

\* The clipboard's text is inserted wherever the user has gone meanwhile.
ClipboardRead(text) ==
    /\ s.reading /\ ~s.exited
    /\ Commit(Inserted([s EXCEPT !.reading = FALSE], text))

ClipboardFails ==
    /\ s.reading /\ ~s.exited
    /\ Commit([s EXCEPT !.reading = FALSE])

\* The view stays where a reader who has scrolled up left it.
ApplyTranscriptEvent(u, queue) ==
    LET v == [u EXCEPT !.queue = queue]
    IN  [v EXCEPT !.bodyOffset = ResolveFollowScrollOffset(@, MaxBodyOffset(u), MaxBodyOffset(v))]

Unsettled(u) == {i \in DOMAIN u.queue : u.queue[i].state # "settled"}

ActivateTurn(i) ==
    /\ Left("events") /\ i \in Unsettled(s)
    /\ Commit(ApplyTranscriptEvent(Spend("events"),
         [k \in DOMAIN s.queue |->
            IF k \in Unsettled(s)
            THEN [s.queue[k] EXCEPT !.state = IF k = i THEN "active" ELSE "queued"]
            ELSE s.queue[k]]))

AppendDelta(i) ==
    /\ Left("events") /\ i \in Unsettled(s)
    /\ Commit(ApplyTranscriptEvent(Spend("events"), [s.queue EXCEPT ![i].stream = @ \o Chunk]))

Settle(u, i, result) ==
    [u.queue EXCEPT ![i].state = "settled", ![i].stream = <<>>, ![i].result = result]

SettleTurn(i, result) ==
    /\ Left("events") /\ i \in Unsettled(s)
    /\ Commit(ApplyTranscriptEvent(Spend("events"), Settle(s, i, result)))

\* Without a key the prompt goes back to the composer, and /connect opens.
SettleUnauthorised(i) ==
    /\ Left("events") /\ i \in Unsettled(s)
    /\ LET u == ApplyTranscriptEvent(Spend("events"), Settle(s, i, Result("error", <<"E">>)))
       IN  Commit(IF s.restore = <<>>
                  THEN [u EXCEPT !.restore = s.queue[i].text, !.surface = "docked"] ELSE u)

RemoveTurn(i) ==
    /\ Left("events") /\ i \in Unsettled(s)
    /\ Commit(ApplyTranscriptEvent(Spend("events"), RemoveAt(s.queue, i)))

TranscriptEvent(i) ==
    \/ ActivateTurn(i)
    \/ AppendDelta(i)
    \/ SettleTurn(i, Result("assistant", Answer))
    \/ SettleTurn(i, Result("muted", <<"E">>))
    \/ SettleUnauthorised(i)
    \/ RemoveTurn(i)

\* The prompt did not reach the backend; the view is left where it is.
SubmitFails(i) ==
    /\ Left("events") /\ i \in Unsettled(s)
    /\ Commit([Spend("events") EXCEPT
         !.notices = Append(@, [sequence |-> s.queue[i].sequence, text |-> <<"E">>]),
         !.queue[i].state = "settled"])

\* A clear on its way dropped the prompt before the backend took it.
DiscardLocalSubmit(i) ==
    /\ Left("events") /\ i \in Unsettled(s)
    /\ Commit([Spend("events") EXCEPT !.queue = RemoveAt(@, i)])

\* A resumed session's turns come before every prompt submitted after it.
HydrateResumeTranscript(turns) ==
    [i \in DOMAIN turns |-> [state |-> "settled", text |-> turns[i].text, result |-> turns[i].result,
                             stream |-> <<>>, sequence |-> i - 1 - Len(turns)]]

\* It replaces the transcript; the panel closes.
HydrateTranscript(turns) ==
    /\ Left("events") /\ s.popup = "resume"
    /\ Commit([Spend("events") EXCEPT !.queue = HydrateResumeTranscript(turns), !.notices = <<>>, !.bodyOffset = 0,
                                      !.popup = "none"])

AskQuestion ==
    /\ Left("events") /\ s.popup = "resume"
    /\ Commit([Spend("events") EXCEPT !.popup = "question"])

\* An answer closes the panel that asked for it.
ClosePanel ==
    /\ Left("events") /\ s.surface = "docked"
    /\ Commit([Spend("events") EXCEPT !.surface = "home"])

StartupDone ==
    /\ s.locked /\ ~s.exited
    /\ Commit([s EXCEPT !.locked = FALSE])

Resize(rows, columns) ==
    /\ Left("resizes") /\ <<rows, columns>> # <<s.term.rows, s.term.columns>>
    /\ Commit([Spend("resizes") EXCEPT !.term = [rows |-> rows, columns |-> columns]])

-----------------------------------------------------------------------------
\* The program starts, or has started and runs a first prompt.
Begun(u, text) == [EnqueuePrompt(Capture(u, text), text, u.sequence) EXCEPT !.locked = FALSE]

Init == \E term \in Terms, turns \in Transcripts, budget \in Budgets, begun \in BOOLEAN :
          LET u == InitialScreen(term, HydrateResumeTranscript(turns), budget)
          IN  s = IF begun THEN Begun(u, Prompt) ELSE u

Next ==
    \/ \E key \in Keys : KeyPress(key)
    \/ \E row \in PointerRows, column \in PointerColumns, b \in BOOLEAN :
         \/ LeftPress(row, column, b)
         \/ LeftDrag(row, column, b)
         \/ Wheel(row, column, b)
    \/ RightClick
    \/ \E text \in Pastes :
         \/ \E soon \in BOOLEAN : PasteArrives(text, soon)
         \/ ClipboardRead(text)
    \/ ClipboardFails
    \/ \E i \in DOMAIN s.queue :
         \/ TranscriptEvent(i) \/ SubmitFails(i) \/ DiscardLocalSubmit(i)
    \/ \E turns \in Transcripts : HydrateTranscript(turns)
    \/ AskQuestion \/ ClosePanel \/ StartupDone
    \/ \E rows \in Heights, columns \in Widths : Resize(rows, columns)

Spec == Init /\ [][Next]_s

=============================================================================
