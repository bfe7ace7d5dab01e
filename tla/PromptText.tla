----------------------------- MODULE PromptText -----------------------------
(***************************************************************************)
(* Text in the terminal: how wide it is, how the prompt wraps into rows,   *)
(* which of them are seen, and where the caret, a click or a step up or    *)
(* down lands.  A text is a sequence of graphemes; an index counts those   *)
(* before it, so every index is a grapheme boundary.                       *)
(***************************************************************************)
EXTENDS TuiLayout, Sequences, SequencesExt, Subsequences

CONSTANTS Width,   \* terminal columns of each grapheme
          Bytes,   \* bytes of each grapheme in UTF-8
          MaxBytes \* PROMPT_MAX_BYTES

Newline  == "\n"
Space    == " "
Blank    == {Newline, Space}

Grapheme == DOMAIN Width
Text     == Seq(Grapheme)

\* string-width measures every grapheme, some as none.
ASSUME TextAssumption == Width \in [Grapheme -> Nat] /\ Blank \subseteq Grapheme

\* The indices among 1..n that are in T, in order.
Positions(n, T) == Only([i \in 1..n |-> i], T)

\* One after the other, the sequences that Op makes of the elements of seq.
FlatMap(seq, Op(_)) == FlattenSeq([k \in DOMAIN seq |-> Op(seq[k])])

-----------------------------------------------------------------------------
(* libs/text *)

\* Columns before each index of text.
DisplayWidthBeforeIndex(text) ==
    LET before[i \in 0..Len(text)] == IF i = 0 THEN 0 ELSE before[i - 1] + Width[text[i]]
    IN  before

DisplayWidth(text) == DisplayWidthBeforeIndex(text)[Len(text)]

\* The first index at that column, or the start of the grapheme across it.
IndexAtDisplayColumn(text, column) ==
    LET before == DisplayWidthBeforeIndex(text)
        safe   == AtLeast(0, column)
        there  == {i \in 0..Len(text) : before[i] = safe}
    IN  IF there # {} THEN Min(there) ELSE Max({i \in 0..Len(text) : before[i] <= safe})

PreviousGraphemeStart(index)   == AtLeast(0, index - 1)
NextGraphemeEnd(text, index)   == AtMost(Len(text), index + 1)
ClampToGraphemeBoundary(text, index) == Clamp(index, 0, Len(text))

Utf8ByteLength(text) ==
    LET upTo[i \in 0..Len(text)] == IF i = 0 THEN 0 ELSE upTo[i - 1] + Bytes[text[i]]
    IN  upTo[Len(text)]

OverLimit(text) == Utf8ByteLength(text) > MaxBytes

TrimEnd(text) ==
    SubSeq(text, 1, Max({0} \cup {i \in DOMAIN text : text[i] \notin Blank}))
Trim(text) ==
    LET kept == {i \in DOMAIN text : text[i] \notin Blank}
    IN  IF kept = {} THEN <<>> ELSE SubSeq(text, Min(kept), Max(kept))

\* "ok", or why the text is not submitted; what is sent is the trimmed text.
ValidateComposerSubmit(text) ==
    CASE Trim(text) = <<>> -> "empty"
      [] Trim(text) # <<>> /\ OverLimit(Trim(text)) -> "over-limit"
      [] OTHER -> "ok"

-----------------------------------------------------------------------------
(* Rows of the prompt: [start, end) in the text *)

Slice(text, row) == SubSeq(text, row.start + 1, row.end)

LinesBetween(edges) ==
    [k \in 1..(Len(edges) - 1) |-> [start |-> edges[k], end |-> edges[k + 1] - 1]]

HardLines(text) ==
    LinesBetween(<<0>> \o Positions(Len(text), {i \in DOMAIN text : text[i] = Newline}) \o <<Len(text) + 1>>)

\* A row takes the graphemes that fit, and at least one.
AppendLineRows(text, line, columns) ==
    LET fits(i, j) == j = i + 1 \/ DisplayWidth(SubSeq(text, i + 1, j)) <= columns
        endOf(i) == Max({j \in (i + 1)..line.end : fits(i, j)})
        rows[i \in line.start..line.end] ==
            IF i = line.end THEN <<>> ELSE <<[start |-> i, end |-> endOf(i)]>> \o rows[endOf(i)]
    IN  IF line.start = line.end THEN <<line>> ELSE rows[line.start]

WrapPromptText(text, columns) ==
    FlatMap(HardLines(text), LAMBDA line : AppendLineRows(text, line, AtLeast(1, columns)))

\* Counted from 0, as are all rows below.
ResolveCursorRowIndex(rows, index) ==
    LET holding == {k \in DOMAIN rows : rows[k].start <= index /\ index <= rows[k].end}
    IN  IF holding = {} THEN 0 ELSE Min(holding) - 1

-----------------------------------------------------------------------------
(* The window on those rows; `offset` counts rows away from the window that   *)
(* follows the cursor, up if positive.                                         *)

ResolveWindowBounds(total, visible, cursorRow, offset) ==
    LET last == AtLeast(0, total - visible)
        base == Clamp(cursorRow - visible + 1, 0, last)
    IN  [visibleStart |-> Clamp(base - offset, 0, last), lastStart |-> last, baseStart |-> base]

RowVisible(row, bounds, visible) ==
    bounds.visibleStart <= row /\ row < bounds.visibleStart + visible

PinToEdge_OneShort(total, visible, cursorRow, offset) ==
    LET bounds == ResolveWindowBounds(total, visible, cursorRow, offset)
    IN  IF cursorRow < bounds.visibleStart
        THEN bounds.baseStart - cursorRow
        ELSE IF RowVisible(cursorRow, bounds, visible)
             THEN offset
             ELSE bounds.baseStart - (cursorRow - visible)

\* How far to scroll for the cursor's row to come into view.
PinToEdge(total, visible, cursorRow, offset) ==
    LET bounds == ResolveWindowBounds(total, visible, cursorRow, offset)
    IN  IF cursorRow < bounds.visibleStart
        THEN bounds.baseStart - cursorRow
        ELSE IF RowVisible(cursorRow, bounds, visible)
             THEN offset
             ELSE bounds.baseStart - (cursorRow - visible + 1)

\* The offset that leaves the window where it is once the cursor is on `row`.
HoldWindow(total, visible, row, start) ==
    Clamp(row - visible + 1, 0, AtLeast(0, total - visible)) - start

BoundsOn(rows, c, visible) ==
    ResolveWindowBounds(Len(rows), AtLeast(1, visible),
        ResolveCursorRowIndex(rows, ClampToGraphemeBoundary(c.text, c.cursor)), c.offset)

\* The composer's window: how many rows it shows, whether the caret is on one of
\* them, and how far it scrolls.
WindowOn(rows, c, visible) ==
    LET bounds == BoundsOn(rows, c, visible)
        seen   == AtLeast(1, visible)
    IN  [rows          |-> AtMost(Len(rows), seen),
         cursorVisible |-> RowVisible(ResolveCursorRowIndex(rows, c.cursor), bounds, seen),
         canScroll     |-> Len(rows) > seen,
         minOffset     |-> bounds.baseStart - bounds.lastStart,
         maxOffset     |-> bounds.baseStart]

ResolveComposerWindow(c, columns, visible) == WindowOn(WrapPromptText(c.text, columns), c, visible)

PinOn(rows, c, visible) ==
    PinToEdge(Len(rows), AtLeast(1, visible), ResolveCursorRowIndex(rows, c.cursor), c.offset)

ResolveScrollIntoViewOffset(c, columns, visible) == PinOn(WrapPromptText(c.text, columns), c, visible)

\* Where a click on a visible row puts the caret; no change outside the rows.
ResolveClickResult(c, columns, visible, visibleRow, column) ==
    LET rows  == WrapPromptText(c.text, columns)
        seen  == AtLeast(1, visible)
        start == BoundsOn(rows, c, visible).visibleStart
        row   == rows[start + visibleRow + 1]
        index == row.start + IndexAtDisplayColumn(Slice(c.text, row), column)
    IN  IF visibleRow < 0 \/ visibleRow >= seen \/ start + visibleRow >= Len(rows)
        THEN c
        ELSE [c EXCEPT !.cursor = ClampToGraphemeBoundary(c.text, index),
                       !.offset = HoldWindow(Len(rows), seen, ResolveCursorRowIndex(rows, index), start)]

NoTarget == -1

\* One visual row up (-1) or down (1), in the same column.
ResolveVerticalCursorIndex(c, columns, step) ==
    LET rows    == WrapPromptText(c.text, columns)
        current == ResolveCursorRowIndex(rows, c.cursor)
        from    == rows[current + 1]
        to      == rows[current + step + 1]
        before  == DisplayWidthBeforeIndex(Slice(c.text, from))
    IN  IF current + step \in 0..(Len(rows) - 1)
        THEN to.start + IndexAtDisplayColumn(Slice(c.text, to), before[c.cursor - from.start])
        ELSE NoTarget

=============================================================================
