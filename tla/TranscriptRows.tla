--------------------------- MODULE TranscriptRows ---------------------------
(***************************************************************************)
(* The transcript on the screen: its entries, the rows they wrap into, the *)
(* window on those rows, and what of them is selected, highlighted and     *)
(* copied.  Rows and columns are counted from 0.                            *)
(***************************************************************************)
EXTENDS PromptText

-----------------------------------------------------------------------------
(* Entries *)

Result(kind, text) == [kind |-> kind, text |-> text]
NoResult == Result("none", <<>>)

\* A turn shows its prompt, then its result or what has been streamed of it.
BuildItemEntries(item) ==
    LET prompt == [kind |-> IF item.state = "queued" THEN "pending" ELSE "user", text |-> item.text]
    IN  CASE item.result # NoResult -> <<prompt, item.result>>
          [] item.result = NoResult /\ item.stream # <<>> -> <<prompt, Result("assistant", item.stream)>>
          [] OTHER -> <<prompt>>

\* Turns and notices in the order submitted; a turn without a number comes last.
InOrder(groups) ==
    LET earlier(i, j) == \/ groups[i].sequence < groups[j].sequence
                         \/ groups[i].sequence = groups[j].sequence /\ i < j
        rank(i) == Cardinality({j \in DOMAIN groups : earlier(j, i)}) + 1
    IN  [k \in DOMAIN groups |-> groups[CHOOSE i \in DOMAIN groups : rank(i) = k]]

ComposeTranscriptRows(queue, notices) ==
    FlatMap(InOrder([i \in DOMAIN queue |-> [sequence |-> queue[i].sequence,
                                             entries |-> BuildItemEntries(queue[i])]]
                    \o [i \in DOMAIN notices |-> [sequence |-> notices[i].sequence,
                                                  entries |-> <<Result("error", notices[i].text)>>]]),
            LAMBDA group : group.entries)

\* The text of the newest assistant answer, <<>> if there is none.
LastAssistantResponse(queue) ==
    LET answered == {i \in DOMAIN queue : queue[i].state = "settled" /\ queue[i].result.kind = "assistant"}
    IN  IF answered = {} THEN <<>> ELSE queue[Max(answered)].result.text

-----------------------------------------------------------------------------
(* Rows.  `marker` is the width of what is painted before the text, `more`    *)
(* marks a row that continues the one before, `segments` styled text.          *)

Cells(n, cell) == [i \in 1..n |-> cell]

\* What is painted besides the texts.
ASSUME ChromeAssumption == {"#", ">", "E", "p"} \subseteq Grapheme

BodyRow(line, marker, segments) ==
    [text |-> line.text, marker |-> marker, more |-> line.more, decorative |-> FALSE,
     segments |-> segments]
PlainRow(line) == BodyRow(line, 0, FALSE)

BlankLine == [text |-> <<>>, more |-> FALSE]
HalfLineRow(columns) ==
    [PlainRow(BlankLine) EXCEPT !.text = Cells(columns, "#"), !.decorative = TRUE]

AssistantPrefix == 2
PromptPrefix    == <<Space, Space, ">", Space>>
PromptPadding   == 2

LabelForEntry(entry) ==
    CASE entry.kind = "error"   -> <<"E", Space>> \o entry.text
      [] entry.kind = "pending" -> entry.text \o <<Space, "p">>
      [] OTHER -> entry.text

\* Hard lines cut every `columns` graphemes, however wide they are.
WrapBodyLines(text, columns) ==
    LET pieces(line) ==
          IF line.start = line.end
          THEN <<BlankLine>>
          ELSE [k \in 1..((line.end - line.start + columns - 1) \div columns) |->
                  [text |-> SubSeq(text, line.start + (k - 1) * columns + 1,
                                   AtMost(line.end, line.start + k * columns)),
                   more |-> k > 1]]
    IN  FlatMap(HardLines(text), pieces)

\* The prompt in a bubble of its own, between two half lines.
Indented(lines) ==
    [k \in DOMAIN lines |->
       PlainRow([lines[k] EXCEPT !.text =
         (IF k = 1 THEN PromptPrefix ELSE Cells(Len(PromptPrefix), Space)) \o @])]

ToPromptRows(text, columns) ==
    <<HalfLineRow(columns)>>
    \o Indented(WrapBodyLines(TrimEnd(text), AtLeast(1, columns - Len(PromptPrefix) - PromptPadding)))
    \o <<HalfLineRow(columns)>>

Each(lines, Op(_)) == [k \in DOMAIN lines |-> Op(lines[k])]

ToAssistantRows(text, columns) ==
    Each(WrapBodyLines(text, AtLeast(1, columns - AssistantPrefix)),
         LAMBDA line : BodyRow(line, AssistantPrefix, TRUE))

ToBodyRows(entry, columns) ==
    CASE entry.kind = "user"      -> ToPromptRows(entry.text, columns)
      [] entry.kind = "assistant" -> ToAssistantRows(entry.text, columns)
      [] OTHER -> Each(WrapBodyLines(LabelForEntry(entry), columns), PlainRow)

RowsOf(entries, columns) == FlatMap(entries, LAMBDA entry : ToBodyRows(entry, columns))

\* Rows that do not fit are wrapped again, a column narrower for the scrollbar.
WrapAgain(rows, entries, columns, visible) ==
    IF Len(rows) > AtLeast(1, visible) THEN RowsOf(entries, AtLeast(1, columns - 1)) ELSE rows

StructuralBodyRows(entries, columns, visible) ==
    WrapAgain(RowsOf(entries, AtLeast(1, columns)), entries, columns, visible)

-----------------------------------------------------------------------------
(* The window on the rows; the offset counts rows back from the newest *)

BodyWindow(total, visible, offset) ==
    LET end == total - Clamp(offset, 0, AtLeast(0, total - AtLeast(1, visible)))
    IN  [startIndex |-> AtLeast(0, end - AtLeast(1, visible)), end |-> end]

\* The transcript's rows, how many show, and which.
BodyViewOf(rows, visible, offset) ==
    [rows |-> rows, visible |-> visible, window |-> BodyWindow(Len(rows), visible, offset)]

ResolveFollowScrollOffset_Stays(offset, maxOffset, nextMaxOffset) ==
    Clamp(offset, 0, nextMaxOffset)

ResolveFollowScrollOffset(offset, maxOffset, nextMaxOffset) ==
    IF offset <= 0 THEN 0 ELSE Clamp(offset + nextMaxOffset - maxOffset, 0, nextMaxOffset)

\* The rows painted, the last one blank if there is room.
RenderedRows(view) ==
    LET shown == SubSeq(view.rows, view.window.startIndex + 1, view.window.end)
    IN  IF Len(view.rows) > view.visible \/ Len(shown) = view.visible
        THEN shown
        ELSE Append(shown, PlainRow(BlankLine))

-----------------------------------------------------------------------------
(* Selection *)

Point(row, column) == [row |-> row, column |-> column]
Selection(anchor, focus) == [anchor |-> anchor, focus |-> focus]
NoSelection == Selection(Point(-1, 0), Point(-1, 0))

SelectionBounds(s) ==
    IF s.anchor.row < s.focus.row \/ (s.anchor.row = s.focus.row /\ s.anchor.column <= s.focus.column)
    THEN [start |-> s.anchor, end |-> s.focus]
    ELSE [start |-> s.focus, end |-> s.anchor]

IsSelectionEmpty(bounds) == bounds.start = bounds.end

\* What of row `index` lies within the bounds: graphemes from.from to.
Fragment(row, index, bounds) ==
    LET column(c) == IndexAtDisplayColumn(row.text, AtLeast(0, c - row.marker))
    IN  SubSeq(row.text,
               1 + (IF index = bounds.start.row THEN column(bounds.start.column) ELSE 0),
               IF index = bounds.end.row THEN column(bounds.end.column) ELSE Len(row.text))

\* The lines of the parts of rows: a row that continues the one before joins it.
JoinParts(parts) ==
    LET joins(k) == k > 1 /\ parts[k].more
        \* The logical line that starts with the k-th part.
        line[k \in DOMAIN parts] ==
            IF k < Len(parts) /\ joins(k + 1) THEN parts[k].text \o line[k + 1] ELSE parts[k].text
        text[k \in 1..(Len(parts) + 1)] ==
            CASE k > Len(parts) -> <<>>
              [] k <= Len(parts) /\ joins(k) -> text[k + 1]
              [] OTHER -> (IF k > 1 THEN <<Newline>> ELSE <<>>) \o TrimEnd(line[k]) \o text[k + 1]
    IN  text[1]

\* What a copy takes: decorative rows left out.
SelectedText(rows, selection) ==
    LET bounds == SelectionBounds(selection)
        taken == Positions(Len(rows), {i \in DOMAIN rows :
                     i - 1 \in bounds.start.row..bounds.end.row /\ ~rows[i].decorative})
        part(i) == [text |-> Fragment(rows[i], i - 1, bounds), more |-> rows[i].more]
    IN  IF selection = NoSelection \/ IsSelectionEmpty(bounds)
        THEN <<>>
        ELSE JoinParts([k \in DOMAIN taken |-> part(taken[k])])

\* The same of a row painted in one piece, and of one painted in segments.
RowHighlight(row, index, bounds) ==
    LET column(c) == IndexAtDisplayColumn(row.text, AtLeast(0, c - row.marker))
        from == IF index = bounds.start.row THEN column(bounds.start.column) ELSE column(0)
        to   == IF index = bounds.end.row THEN column(bounds.end.column) ELSE Len(row.text)
    IN  IF IsSelectionEmpty(bounds) \/ index < bounds.start.row \/ index > bounds.end.row
        THEN <<>>
        ELSE SubSeq(row.text, from + 1, to)

RowSegmentHighlights_Unmarked(row, index, bounds) ==
    LET from == IF index = bounds.start.row THEN bounds.start.column ELSE 0
        to   == AtMost(DisplayWidth(row.text),
                       IF index = bounds.end.row THEN bounds.end.column ELSE DisplayWidth(row.text))
    IN  IF IsSelectionEmpty(bounds) \/ index < bounds.start.row \/ index > bounds.end.row \/ to <= from
        THEN <<>>
        ELSE SubSeq(row.text, IndexAtDisplayColumn(row.text, from) + 1, IndexAtDisplayColumn(row.text, to))

RowSegmentHighlights(row, index, bounds) ==
    LET width == DisplayWidth(row.text)
        from  == IF index = bounds.start.row THEN AtLeast(0, bounds.start.column - row.marker) ELSE 0
        to    == AtMost(width, IF index = bounds.end.row
                               THEN AtLeast(0, bounds.end.column - row.marker) ELSE width)
    IN  IF IsSelectionEmpty(bounds) \/ index < bounds.start.row \/ index > bounds.end.row \/ to <= from
        THEN <<>>
        ELSE SubSeq(row.text, IndexAtDisplayColumn(row.text, from) + 1, IndexAtDisplayColumn(row.text, to))

HighlightOf(row, index, bounds) ==
    IF row.segments THEN RowSegmentHighlights(row, index, bounds) ELSE RowHighlight(row, index, bounds)

-----------------------------------------------------------------------------
(* Clicks in a row: two take a word, three the row *)

NoPress == [row |-> 0, column |-> 0, count |-> 0]
MaxClickCount == 3

Near(a, b) == a - b \in -1..1

ClassifyClick(previous, row, column, soon) ==
    IF /\ previous # NoPress /\ previous.count < MaxClickCount /\ soon
       /\ Near(row, previous.row) /\ Near(column, previous.column)
    THEN previous.count + 1
    ELSE 1

\* The columns of the run without blanks around `column`.
WordBounds(text, column) ==
    LET before == DisplayWidthBeforeIndex(text)
        at == {i \in DOMAIN text : before[i - 1] <= column /\ column < before[i]}
        i  == Min(at)
        from == Max({0} \cup {j \in 1..(i - 1) : text[j] \in Blank})
        to   == Min({Len(text) + 1} \cup {j \in (i + 1)..Len(text) : text[j] \in Blank})
    IN  IF at = {} \/ text[i] \in Blank THEN <<>> ELSE <<before[from], before[to - 1]>>

ResolveMultiClickRange(row, index, column, count) ==
    LET word == WordBounds(row.text, AtLeast(0, column - row.marker))
        span(from, to) == Selection(Point(index, from), Point(index, row.marker + to))
    IN  CASE row.decorative -> NoSelection
          [] ~row.decorative /\ count >= 3 ->
               IF row.text = <<>> THEN NoSelection ELSE span(0, DisplayWidth(row.text))
          [] ~row.decorative /\ count = 2 ->
               IF word = <<>> THEN NoSelection ELSE span(row.marker + word[1], word[2])
          [] OTHER -> NoSelection

=============================================================================
