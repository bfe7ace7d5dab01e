------------------------------- MODULE Screen -------------------------------
(***************************************************************************)
(* The home screen: the transcript, the command menu and the composer, how *)
(* the terminal's rows are shared between them, and what a repaint does to  *)
(* the state.  The state is one record; a key, a mouse report, a paste or an *)
(* event of the backend is an operator from one record to the next.         *)
(***************************************************************************)
EXTENDS Composer, CommandMenu, TranscriptRows

CONSTANTS MinColumns,    \* MIN_COLUMNS
          CwdLength,     \* columns of the line with the folder and the branch
          HelpLines      \* lines of the help text

\* MIN_COLUMNS is 60; a caret needs two columns of prompt and one of text.
ASSUME SizeAssumption == CwdLength \in Nat /\ MinColumns \in Nat /\ MinColumns >= 3

VARIABLE s

SafeColumnGuard == 1
PromptPrefixColumns == 2

\* `armedText`, `unannounced` and `peeked` are history: the text when a
\* confirmation was armed, that a paste or a restored draft changed it since,
\* and that the view was scrolled or resized since the caret last moved.
InitialScreen(term, queue, budget) ==
    [term |-> term, locked |-> TRUE, exited |-> FALSE,
     surface |-> "home",           \* home, help, or docked: one of the panels
     popup |-> "none",             \* none, resume, question: docked over the surface
     helpOffset |-> 0,
     composer |-> EmptyComposer, composerRows |-> PaddingRows + 1, ring |-> EmptyRing,
     dismissed |-> FALSE, highlight |-> 0, armed |-> "none",
     queue |-> queue, notices |-> <<>>, sequence |-> 0, restore |-> <<>>,
     bodyOffset |-> 0, selection |-> NoSelection,
     region |-> "none", lastPress |-> NoPress, boundsLocked |-> FALSE,
     clipboard |-> <<>>, reading |-> FALSE, suppress |-> FALSE,
     armedText |-> <<>>, unannounced |-> FALSE, peeked |-> FALSE,
     budget |-> budget]

-----------------------------------------------------------------------------
(* What is on screen *)

TooSmall(u)    == u.term.rows < MinRows \/ u.term.columns < MinColumns + SafeColumnGuard
HomeMounted(u) == ~u.exited /\ ~TooSmall(u) /\ u.surface # "help"
Docked(u)      == u.popup # "none" \/ u.surface = "docked"
ComposerMounted(u) == HomeMounted(u) /\ ~Docked(u)

MenuOpen(u) ==
    /\ u.composer.text # <<>> /\ Head(u.composer.text) = Slash
    /\ ~u.locked /\ ~u.dismissed

Matches(u) == FilterCommands(u.composer.text)

ActiveTurn(u) == \E i \in DOMAIN u.queue : u.queue[i].state = "active"

Rows(u)         == AtLeast(MinRows, u.term.rows)
SafeColumns(u)  == AtLeast(1, u.term.columns - SafeColumnGuard)
InputColumns(u) == AtLeast(1, SafeColumns(u) - PromptPrefixColumns)

Entries(u)    == ComposeTranscriptRows(u.queue, u.notices)
HeaderOf(u)   == IF u.queue = <<>> /\ u.notices = <<>> THEN HeaderRows ELSE 0
DockedRowsOf(u) == ResolveDockedPanelRows(Rows(u), IF Docked(u) THEN DockedRows ELSE 0)

CwdRows(u) ==
    IF MenuOpen(u) \/ Docked(u)
    THEN 0
    ELSE AtLeast(1, (CwdLength + SafeColumns(u) - 1) \div SafeColumns(u))

MenuRowsOf_Greedy(u) ==
    IF Docked(u) \/ ~MenuOpen(u)
    THEN 0
    ELSE AtMost(MenuRows, AtLeast(0, Rows(u) - HeaderOf(u) - CwdGapRows - CwdRows(u)
                                       - 1 - u.composerRows))

\* The menu has the rows it wants, or those free above a body of one row.
MenuRowsOf(u) ==
    IF Docked(u) \/ ~MenuOpen(u)
    THEN 0
    ELSE AtMost(MenuRows, AtLeast(0, Rows(u) - HeaderOf(u) - CwdGapRows - CwdRows(u)
                                       - 1 - u.composerRows - 1))

LayoutFor(u, entryRows) ==
    ResolveHomeScreenLayout(Rows(u), entryRows, u.composerRows, CwdRows(u), MenuRowsOf(u),
                            DockedRowsOf(u), HeaderOf(u))

Layout(u) == LayoutFor(u, Len(StructuralBodyRows(Entries(u), SafeColumns(u), Rows(u))))

\* The composer's cap does not depend on the transcript.
ComposerVisibleRows(u) == LayoutFor(u, 0).composerRows

BodyViewAt(u, visible) ==
    BodyViewOf(StructuralBodyRows(Entries(u), SafeColumns(u), visible), visible, u.bodyOffset)

BodyView(u) == BodyViewAt(u, Layout(u).bodyRows)

MaxOffsetOf(view) == AtLeast(0, Len(view.rows) - view.visible)
MaxBodyOffset(u)  == MaxOffsetOf(BodyView(u))

BottomSpacerRows(u, layout) ==
    AtLeast(0, Rows(u) - HeaderOf(u) - layout.bodyRows
                 - (IF DockedRowsOf(u) > 0
                    THEN DockedRowsOf(u)
                    ELSE CwdGapRows + layout.cwdRows + u.composerRows + 1 + MenuRowsOf(u)))

ComposerTop(u) == Rows(u) - 1 - u.composerRows
BodyTop(u)     == HeaderOf(u)

ComposerWindow(u) == ResolveComposerWindow(u.composer, InputColumns(u), ComposerVisibleRows(u))

CountVisibleComposerRows(visible, error) == visible + (IF error THEN 1 ELSE 0) + PaddingRows

\* Where the terminal's caret is put, with its column and row counted from 0.
CaretCell(u) ==
    LET rows   == WrapPromptText(u.composer.text, InputColumns(u))
        row    == ResolveCursorRowIndex(rows, u.composer.cursor)
        before == SubSeq(u.composer.text, rows[row + 1].start + 1, u.composer.cursor)
    IN  [x |-> PromptPrefixColumns + AtMost(DisplayWidth(before), InputColumns(u)),
         y |-> ComposerTop(u) + 1 + row
                 - BoundsOn(rows, u.composer, ComposerVisibleRows(u)).visibleStart]

\* Where the scrollbar's thumb starts on its track, and how long it is.
ScrollbarThumb(view) ==
    LET total == Len(view.rows)
        size  == AtLeast(1, (view.visible * view.visible) \div total)
        span  == total - view.visible
        scaled == 2 * view.window.startIndex * (view.visible - size) + span
    IN  [start |-> IF span = 0 THEN 0 ELSE scaled \div (2 * span), size |-> size]

-----------------------------------------------------------------------------
(* A repaint: the composer's effects *)

\* A restored draft replaces the text; it is used once.
RestoreDraft(u) ==
    IF u.restore = <<>>
    THEN u
    ELSE [u EXCEPT !.composer = WithText(u.restore, FALSE), !.restore = <<>>,
                   !.unannounced = @ \/ u.armed # "none"]

CaretMoved(old, u) ==
    \/ ~ComposerMounted(old)
    \/ u.composer.text # old.composer.text
    \/ u.composer.cursor # old.composer.cursor

\* The caret is brought into view if it moved or the text changed.
ScrollIntoView(old, u) ==
    IF CaretMoved(old, u)
    THEN ResolveScrollIntoViewOffset(u.composer, InputColumns(u), ComposerVisibleRows(u))
    ELSE u.composer.offset

WindowChanged(old, u) ==
    \/ u.composer.offset # old.composer.offset
    \/ InputColumns(u) # InputColumns(old)
    \/ ComposerVisibleRows(u) # ComposerVisibleRows(old)

\* The rows the composer fills are made known.
ReportRows(old, u) ==
    [u EXCEPT !.peeked = ~CaretMoved(old, u) /\ (@ \/ WindowChanged(old, u)),
              !.composerRows = CountVisibleComposerRows(ComposerWindow(u).rows, u.composer.error)]

ComposerEffects(old, u) == ReportRows(old, [u EXCEPT !.composer.offset = ScrollIntoView(old, u)])

\* Leaving the home screen forgets a gesture half made.
LeaveHome(u) ==
    [u EXCEPT !.region = "none", !.lastPress = NoPress, !.boundsLocked = FALSE]

Repaint(old, u) ==
    CASE ComposerMounted(u) -> ComposerEffects(old, RestoreDraft(u))
      [] HomeMounted(u) /\ ~ComposerMounted(u) -> u
      [] OTHER -> LeaveHome(u)

Commit(u) == \E now \in {u} : s' = Repaint(s, now)

Spend(kind) ==
    [s EXCEPT !.budget[kind] = @ - 1]

Left(kind) == ~s.exited /\ s.budget[kind] > 0

=============================================================================
