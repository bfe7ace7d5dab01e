----------------------------- MODULE ModelPanel -----------------------------
(* The state of the /model picker (state/ui/model): one list of rows over all  *)
(* providers, each provider's models loaded by a request of its own.  The       *)
(* highlight is anchored to the identity of a row, not to its index, because    *)
(* the rows above it come and go as lists load.  Pure operators on the panel's  *)
(* record; `visible` is the number of rows the surface has.                     *)
EXTENDS TuiLayout, ProviderCatalog, Subsequences

LoadStatuses == {"loading", "loaded", "empty", "failed", "notConnected"}
NoLoad       == [status |-> "loading", models |-> <<>>]

ResetModelSurface ==
    [kind |-> "model", listed |-> FALSE, loads |-> [p \in ProviderSet |-> NoLoad],
     active |-> NoSelection, highlight |-> NoSelection, offset |-> 0,
     inline |-> None, inFlight |-> FALSE, outcome |-> "none", error |-> FALSE]

ModelSurfaceConsumesEsc(m) == m.inline # None \/ m.inFlight \/ m.outcome # "none"

---------------------------------------------------------------------------
(* Rows: under a provider's header either its models or one status row *)

RowIdentity(row) == [provider |-> row.provider, model |-> row.model]

GroupProviderModels(m, p) ==
    LET load == m.loads[p]
        row(type, model) == [type |-> type, provider |-> p, model |-> model, status |-> load.status]
    IN  <<row("provider", None)>>
          \o [i \in DOMAIN load.models |-> row("model", load.models[i])]
          \o (IF load.status = "loaded" THEN <<>> ELSE <<row("status", None)>>)

ModelRows(m) ==
    IF m.listed
    THEN FlattenSeq([i \in DOMAIN Providers |-> GroupProviderModels(m, Providers[i])])
    ELSE <<>>

Focusable(row) == row.type # "provider"
FocusableRows(m) == LET rows == ModelRows(m)
                    IN  Only(rows, {row \in ToSet(rows) : Focusable(row)})

IdentityEquals(row, id) == Focusable(row) /\ RowIdentity(row) = id

\* 0-based index of the row with this identity, -1 if there is none.
RowIndex(rows, id) == SelectInSeq(rows, LAMBDA row : IdentityEquals(row, id)) - 1

HighlightedModelRow(m) ==
    LET index == RowIndex(ModelRows(m), m.highlight)
    IN  IF m.highlight = NoSelection \/ index < 0
        THEN [type |-> "none", provider |-> None, model |-> None, status |-> "none"]
        ELSE ModelRows(m)[index + 1]

---------------------------------------------------------------------------
(* Highlight and window *)

EnsureVisible(m, index, visible) ==
    IF index < 0 THEN m
    ELSE [m EXCEPT !.offset = ResolveWindowOffset(index, @, visible, Len(ModelRows(m)))]

\* The highlight stays on its row while that row exists or may come back when a
\* list has loaded; otherwise it goes to the first row that can take it.  With
\* `visual` (-1 for none) the row keeps its place on the screen.
EnsureHighlight(m, visual, visible) ==
    LET rows    == FocusableRows(m)
        present == m.highlight # NoSelection /\ RowIndex(rows, m.highlight) >= 0
        next    == IF present THEN m.highlight ELSE RowIdentity(rows[1])
        moved   == [m EXCEPT !.highlight = next]
        index   == RowIndex(ModelRows(m), next)
    IN  IF rows = <<>>
        THEN [m EXCEPT !.highlight = NoSelection, !.offset = 0]
        ELSE IF ~present /\ m.highlight.model # None
                /\ m.loads[m.highlight.provider].status = "loading"
        THEN m
        ELSE IF visual >= 0
        THEN [moved EXCEPT !.offset = Clamp(index - visual, 0, AtLeast(0, Len(ModelRows(m)) - visible))]
        ELSE EnsureVisible(moved, index, visible)

\* The highlight's row within the window as stored, -1 if it has none: it is never above
\* the window, which every writer below keeps over the highlight.
VisualRow(m) ==
    LET index == RowIndex(ModelRows(m), m.highlight)
    IN  IF index < 0 THEN -1 ELSE index - m.offset

---------------------------------------------------------------------------
(* Writers *)

SetModelProvidersLoading(m, connected, visible) ==
    EnsureHighlight(
      [m EXCEPT !.listed = TRUE,
                !.loads = [p \in ProviderSet |->
                   [status |-> IF p \in connected THEN "loading" ELSE "notConnected",
                    models |-> <<>>]]],
      -1, visible)

SetModelActiveSelection(m, selection, visible) ==
    EnsureHighlight(
      [m EXCEPT !.active = selection,
                !.highlight = IF selection.provider # None /\ selection.model # None
                              THEN selection ELSE @],
      -1, visible)

SetProviderModelLoad_Unanchored(m, p, load, visible) ==
    EnsureHighlight([m EXCEPT !.loads[p] = load], -1, visible)

SetProviderModelLoad(m, p, load, visible) ==
    EnsureHighlight([m EXCEPT !.loads[p] = load], VisualRow(m), visible)

MoveModelHighlight_Unscrolled(m, delta, visible) ==
    LET rows    == FocusableRows(m)
        current == AtLeast(0, RowIndex(rows, m.highlight))
    IN  IF rows = <<>> THEN m
        ELSE [m EXCEPT !.highlight = RowIdentity(rows[Clamp(current + delta, 0, Len(rows) - 1) + 1])]

MoveModelHighlight(m, delta, visible) ==
    LET rows    == FocusableRows(m)
        current == AtLeast(0, RowIndex(rows, m.highlight))
        next    == RowIdentity(rows[Clamp(current + delta, 0, Len(rows) - 1) + 1])
    IN  IF rows = <<>> THEN m
        ELSE EnsureVisible([m EXCEPT !.highlight = next], RowIndex(ModelRows(m), next), visible)

ScrollModelHighlightIntoView(m, visible) ==
    EnsureVisible(m, RowIndex(ModelRows(m), m.highlight), visible)

\* What the surface draws, clamped again when it is drawn.
DrawnModelRows(m, visible) ==
    LET offset == AtMost(m.offset, AtLeast(0, Len(ModelRows(m)) - visible))
    IN  SubSeq(ModelRows(m), offset + 1, AtMost(offset + visible, Len(ModelRows(m))))

---------------------------------------------------------------------------
(* Inline connect: a key field in place of the rows *)

StartInlineConnect(m, p) ==
    IF m.inFlight THEN m
    ELSE [m EXCEPT !.inline = p, !.outcome = "none", !.error = FALSE]

CancelInlineConnect(m) ==
    IF m.inFlight THEN m
    ELSE [m EXCEPT !.inline = None, !.outcome = "none", !.error = FALSE]

SubmitInlineKey(m) == [m EXCEPT !.inFlight = TRUE, !.outcome = "none", !.error = FALSE]

=============================================================================
