---------------------------- MODULE MemoryPanel ----------------------------
(* The state of the /memory panel (state/ui/memory/atoms.ts): two tabs over   *)
(* lists kept by the backend, and what may cover them: an add or edit form, a *)
(* detail view, a pending pick and the confirmation of a forget.  A list is    *)
(* abstracted to its length, a text to whether it is blank, a detail to its     *)
(* number of lines.  Pure operators on the panel's record.                      *)
EXTENDS TuiLayout

CONSTANTS MaxItems,      \* items and inbox entries a store may hold
          MaxLines       \* lines of a memory's body

\* A store may hold what it holds at the start, and a body has a line.
ASSUME ItemsAssumption == MaxItems \in Nat \ {0} /\ MaxLines \in Nat \ {0}

MemoryModes    == {"active", "inbox"}
MemoryStatuses == {"loading", "loaded", "empty", "busy", "failed"}

NoForm  == [mode |-> "none", blank |-> TRUE, field |-> "title", error |-> "none"]
AddForm == [mode |-> "add", blank |-> TRUE, field |-> "title", error |-> "none"]
EditForm == [mode |-> "edit", blank |-> FALSE, field |-> "title", error |-> "none"]

(* `confirm` is the item a forget confirmation is about (0 for none),          *)
(* `opening` the request generation of the atoms.  No atom holds `doubted`: a   *)
(* submit has failed since the list was read, and may have been carried out.    *)
OpenMemorySurface(mode, opening) ==
    [kind |-> "memory", mode |-> mode, opening |-> opening,
     items |-> 0, inbox |-> 0, status |-> "loading",
     highlight |-> 0, offset |-> 0, detail |-> 0, detailOffset |-> 0, detailOf |-> 0,
     form |-> NoForm, formOf |-> 0, pick |-> "none", confirm |-> 0, resized |-> FALSE,
     doubted |-> FALSE]

MemoryState ==
    [kind : {"memory"}, mode : MemoryModes, opening : Nat,
     items : 0..MaxItems, inbox : 0..MaxItems, status : MemoryStatuses,
     highlight : 0..MaxItems, offset : 0..MaxItems,
     detail : 0..MaxLines, detailOffset : 0..MaxLines, detailOf : Nat,
     form : [mode : {"none", "add", "edit"}, blank : BOOLEAN, field : {"title", "body"},
             error : {"none", "title", "submit"}],
     formOf : Nat, pick : {"none", "edit", "forget"}, confirm : 0..MaxItems,
     resized : BOOLEAN, doubted : BOOLEAN]

---------------------------------------------------------------------------
(* Derived atoms *)

CurrentListLength(m) == IF m.mode = "active" THEN m.items ELSE m.inbox

StatusForMode(items, inbox, mode) ==
    IF (IF mode = "active" THEN items ELSE inbox) = 0 THEN "empty" ELSE "loaded"

SurfaceConsumesEsc(m) == m.form.mode # "none" \/ m.pick # "none" \/ m.confirm # 0

SubStateActive(m) == m.form.mode # "none" \/ m.detail # 0 \/ m.confirm # 0

HighlightedItem(m) == IF m.highlight < m.items THEN m.highlight + 1 ELSE 0
HighlightedEntry(m) == IF m.highlight < m.inbox THEN m.highlight + 1 ELSE 0

MemoryBlocked(m) == m.status \in {"loading", "busy"}

\* The rows of the list, under the chrome of the tabs or of what covers them, and
\* the first of them drawn: the window is clamped when it is drawn.
MemoryBodyRows(m, panelRows) ==
    IF SubStateActive(m) THEN CommandSurfaceBodyRows(panelRows, 4, 0)
                         ELSE CommandSurfaceBodyRows(panelRows, 6, 1)
MemoryListRows(m, panelRows) == AtLeast(1, MemoryBodyRows(m, panelRows) - 1)
DrawnOffset(m, visible) == AtMost(m.offset, AtLeast(0, CurrentListLength(m) - visible))

---------------------------------------------------------------------------
(* Writers *)

ResetMemoryData(m) ==
    [m EXCEPT !.items = 0, !.inbox = 0, !.status = "loading",
              !.highlight = 0, !.offset = 0, !.detail = 0]

SetMemoryData(m, items, inbox) ==
    [m EXCEPT !.items = items, !.inbox = inbox,
              !.status = StatusForMode(items, inbox, m.mode),
              !.highlight = 0, !.offset = 0, !.detail = 0, !.doubted = FALSE]

SetMemoryFailure(m) == [m EXCEPT !.status = "failed"]
SetMemoryBusy(m)    == [m EXCEPT !.status = "busy"]

SwitchMemoryMode_Stays(m) ==
    [m EXCEPT !.mode = IF @ = "active" THEN "inbox" ELSE "active"]

SwitchMemoryMode(m) ==
    LET mode == IF m.mode = "active" THEN "inbox" ELSE "active"
    IN  [m EXCEPT !.mode = mode, !.highlight = 0, !.offset = 0, !.detail = 0,
                  !.status = IF @ \in {"loaded", "empty"}
                             THEN StatusForMode(m.items, m.inbox, mode) ELSE @]

MoveMemoryHighlight(m, delta, visible) ==
    LET total == CurrentListLength(m)
        next  == Clamp(m.highlight + delta, 0, total - 1)
    IN  IF total = 0 \/ m.status # "loaded"
        THEN m
        ELSE [m EXCEPT !.highlight = next, !.resized = FALSE,
                       !.offset = ResolveWindowOffset(next, @, visible, total)]

ScrollMemoryDetail(m, delta, visible) ==
    [m EXCEPT !.detailOffset = Clamp(@ + delta, 0, AtLeast(0, m.detail - visible))]

(* detailOf and formOf record which opening asked for what is shown.           *)
SetMemoryDetail(m, lines, by) ==
    [m EXCEPT !.detail = lines, !.detailOffset = 0, !.detailOf = by]

OpenAddMemoryForm(m)      == [m EXCEPT !.pick = "none", !.form = AddForm, !.formOf = m.opening]
OpenEditMemoryForm(m, by) == [m EXCEPT !.pick = "none", !.form = EditForm, !.formOf = by]
CloseMemoryForm(m)        == [m EXCEPT !.form = NoForm]

SetPendingItemAction(m, action) ==
    [m EXCEPT !.pick = action, !.highlight = 0, !.offset = 0, !.detail = 0, !.confirm = 0]

SetForgetConfirm(m, item) ==
    IF item = 0
    THEN [m EXCEPT !.confirm = 0]
    ELSE [m EXCEPT !.confirm = item, !.pick = "none", !.detail = 0]

SetFormField(m) == [m EXCEPT !.form.field = IF @ = "title" THEN "body" ELSE "title"]
SetFormTitle(m, blank) == [m EXCEPT !.form.blank = blank, !.form.error = "none"]
SetFormBody(m)  == [m EXCEPT !.form.error = IF @ = "submit" THEN "none" ELSE @]
SetFormError(m, error) == IF m.form.mode = "none" THEN m ELSE [m EXCEPT !.form.error = error]

=============================================================================
