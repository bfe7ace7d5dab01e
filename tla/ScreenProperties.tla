-------------------------- MODULE ScreenProperties --------------------------
(***************************************************************************)
(* What must hold of the home screen whatever is typed, pasted, pointed at *)
(* and streamed meanwhile.                                                  *)
(***************************************************************************)
EXTENDS ScreenInput

\* The caret is where the user types: on a row of the composer that shows, in
\* its columns, unless the user has scrolled away from it (or the window changed
\* size) since it last moved.  (scrollComposerCursorIntoViewAtom runs after every
\* edit, on a window whose height is computed from the same edit.)
CaretInView ==
    ComposerMounted(s) /\ (~s.peeked \/ s.composer.offset = 0) =>
        LET cell == CaretCell(s)
        IN  /\ ComposerWindow(s).cursorVisible
            /\ cell.y \in (ComposerTop(s) + 1)..(Rows(s) - 3)
            /\ cell.x <= SafeColumns(s)

\* The highlighted command is among the entries painted.
HighlightShown(matches, highlight, rows) ==
    LET start == MenuStart(matches, highlight, rows)
    IN  matches # <<>> => Clamp(highlight, 0, Len(matches) - 1) \in start..(start + rows - 2)

\* The parts of the screen fill the terminal's rows exactly, whatever combination
\* of header, transcript, menu, popup and wrapped prompt they come from; the menu
\* shows the command it would run, and the scrollbar's thumb stays on its track.
\* (layoutAtom, commandMenuRowsAtom and bottomSpacerRowsAtom each take the same
\* rows from the same budget.)
ScreenFits ==
    HomeMounted(s) =>
        LET layout == Layout(s)
            view   == BodyView(s)
            thumb  == ScrollbarThumb(view)
            above  == HeaderOf(s) + layout.bodyRows + BottomSpacerRows(s, layout)
        IN  /\ IF Docked(s)
               THEN above + DockedRowsOf(s) = Rows(s)
               ELSE above + CwdGapRows + layout.cwdRows + MenuRowsOf(s) + s.composerRows + 1 = Rows(s)
            /\ Len(RenderedRows(view)) <= view.visible
            /\ MenuRowsOf(s) > 1 => HighlightShown(Matches(s), s.highlight, MenuRowsOf(s))
            /\ Len(view.rows) > view.visible => thumb.start + thumb.size <= view.visible

\* The rows before the end of the window are the same.
SameAbove(old, new) ==
    /\ old.window.end <= Len(new.rows)
    /\ old.visible = new.visible
    /\ \A i \in 1..old.window.end : old.rows[i] = new.rows[i]

\* A reader who has scrolled up keeps the very rows being read, and what has been
\* selected among them, while a turn below is streamed, settles or is removed and no
\* panel opens; only rows left blank under them may fill.
\* (resolveFollowScrollOffset; the selection is kept as row numbers.)
ReaderHolds ==
    [][LET old == BodyView(s)
           new == BodyView(s')
           read(view) == SubSeq(view.rows, view.window.startIndex + 1, view.window.end)
       IN  /\ \E i \in DOMAIN s.queue : TranscriptEvent(i)
           /\ s.bodyOffset > 0 /\ s'.bodyOffset > 0
           /\ HomeMounted(s) /\ HomeMounted(s') /\ Docked(s) = Docked(s') /\ SameAbove(old, new)
           => /\ new.window.startIndex = old.window.startIndex
              /\ IsPrefix(read(old), read(new))
              /\ SelectionBounds(s.selection).end.row < old.window.end
                   => SelectedText(new.rows, s'.selection) = SelectedText(old.rows, s.selection)]_s

\* `shown` is `text` but for graphemes without a width at its end.
SeenAs(shown, text) ==
    /\ IsPrefix(shown, text)
    /\ \A i \in (Len(shown) + 1)..Len(text) : Width[text[i]] = 0

\* What is highlighted is what a copy takes, row by row, although the two are
\* computed apart and a row of styled segments by a third function.
\* (rowHighlight, rowSegmentHighlights and selectedText.)
HighlightIsCopied ==
    HomeMounted(s) /\ s.selection # NoSelection =>
        LET view   == BodyView(s)
            bounds == SelectionBounds(s.selection)
        IN  \A i \in view.window.startIndex..(view.window.end - 1) :
              ~view.rows[i + 1].decorative =>
                SeenAs(HighlightOf(view.rows[i + 1], i, bounds),
                       IF i \in bounds.start.row..bounds.end.row /\ ~IsSelectionEmpty(bounds)
                       THEN Fragment(view.rows[i + 1], i, bounds)
                       ELSE <<>>)

\* A confirmation is of the text that was there when it was asked for: whatever
\* the user does before the second key, either the confirmation is given up or
\* the text is the same, but for a paste or a restored draft that arrives late.
\* (armedActionAtom is cleared by three handlers in two components.)
ArmedOverShown ==
    s.armed # "none" /\ ~s.unannounced => s.composer.text = s.armedText

=============================================================================
