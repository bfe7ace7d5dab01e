-------------------------- MODULE PanelProperties --------------------------
(* What the user may rely on while panels open, close, resize and wait for     *)
(* answers that arrive late, fail or overtake one another.                     *)
EXTENDS PanelAnswers

Ops == {"list", "show", "showEdit", "add", "save", "forget", "inbox", "load", "models", "select",
        "inlineKey", "providers", "setKey", "clear", "saveTheme", "sessions", "stop", "idle", "resume"}

ModelPanelOK(m) ==
    /\ m.loads \in [ProviderSet -> [status : LoadStatuses, models : Seq(ModelSet)]]
    /\ m.offset \in Nat
    /\ m.inline \in ProviderSet \cup {None}
    /\ m.inFlight \in BOOLEAN

ConnectPanelOK(c) ==
    /\ c.step \in ConnectSteps /\ c.selected \in 0..Len(Providers)
    /\ \A flag \in {c.inFlight, c.url, c.label, c.confirm} : flag \in BOOLEAN

\* The panel's record is that of the active surface, and all its cursors are in range.
PanelsTypeOK ==
    /\ ui.panel = NoPanel \/ ui.panel.kind = ui.surface
    /\ CASE ui.panel.kind = "memory"  -> ui.panel \in MemoryState
         [] ui.panel.kind = "model"   -> ModelPanelOK(ui.panel)
         [] ui.panel.kind = "connect" -> ConnectPanelOK(ui.panel)
         [] ui.panel.kind = "theme"   -> ui.panel.highlight \in 0..(Catalog - 1) /\ ui.theme \in Themes
         [] OTHER -> ui.panel = NoPanel
    /\ ui.resume.status \in ResumeStatuses /\ ui.resume.highlight \in 0..MaxSessions
    /\ ui.question \in [kind : {"none", "stop", "folder"}, index : 0..1]
    /\ \A i \in DOMAIN calls : calls[i].op \in Ops /\ calls[i].mount \in 1..ui.mount
    /\ store.items \in 0..MaxItems /\ store.connected \subseteq ProviderSet

-----------------------------------------------------------------------------
MemoryInView ==
    (/\ Mounted(ui) = "memory" /\ ~SubStateActive(ui.panel) /\ ~ui.panel.resized
     /\ CurrentListLength(ui.panel) > 0)
    => /\ ui.panel.highlight < CurrentListLength(ui.panel)
       /\ InWindow(ui.panel.highlight, DrawnOffset(ui.panel, ListRows(ui, "memory")), ListRows(ui, "memory"))

ThemeInView ==
    Mounted(ui) = "theme" => InWindow(ui.panel.highlight, ui.panel.offset, ListRows(ui, "theme"))

ResumeInView ==
    (Mounted(ui) = "resume" /\ ui.resume.sessions > 0 /\ ~ui.resume.resized)
    => /\ HasHighlightedSession(ui.resume)
       /\ InWindow(ui.resume.highlight, ui.resume.offset, ListRows(ui, "resume"))

\* The highlighted entry of /memory, /theme and /resume is drawn, whatever order keys,
\* answers and resizes came in.  The lists of /memory and /resume are not scrolled by a
\* resize, only by the next key.
ListsInView == MemoryInView /\ ThemeInView /\ ResumeInView

\* The list of /model draws its highlighted row, whatever order keys, loads and resizes
\* came in, unless that row's provider is being loaded again; a surface with rows to
\* choose from draws one.
ModelInView ==
    (Mounted(ui) = "model" /\ FocusableRows(ui.panel) # <<>>) =>
    LET drawn == DrawnModelRows(ui.panel, ListRows(ui, "model"))
    IN  /\ \E k \in DOMAIN drawn : Focusable(drawn[k])
        /\ \/ \E k \in DOMAIN drawn : IdentityEquals(drawn[k], ui.panel.highlight)
           \/ ui.panel.loads[ui.panel.highlight.provider].status = "loading"

MemoryListAgrees ==
    (calls = <<>> /\ ui.panel.kind = "memory" /\ ui.panel.status \in {"loaded", "empty"})
    => ui.panel.items = store.items /\ ui.panel.inbox = store.inbox

\* With nothing pending, a memory list on screen is the backend's: no order of adds,
\* forgets, refreshes and reopenings leaves an older list behind, and of the mutations
\* that fail, which the backend may have carried out all the same, only a form's submit.
QuietMemoryAgrees == MemoryListAgrees \/ ui.panel.doubted

\* What covers a panel belongs to it: a detail or an edit form was asked for by this
\* opening of /memory, the fields of an endpoint are shown for the custom provider, and
\* its key is asked for only with both fields valid, whatever was edited on the way.
OwnOverlay ==
    /\ ui.panel.kind = "memory" =>
         /\ ui.panel.opening = ui.opening
         /\ ui.panel.detail # 0 => ui.panel.detailOf = ui.opening
         /\ ui.panel.form.mode # "none" => ui.panel.formOf = ui.opening
    /\ ui.panel.kind = "connect" =>
         LET selected == SelectedProvider(ui.panel, ui.known)
         IN  /\ ui.panel.step \in {"customUrl", "customLabel"} => selected.id = Custom
             /\ ui.panel.step = "key" => DraftsPass(ui.panel, selected)

\* A theme that was only previewed is not in force once the picker is gone,
\* however it went: Esc, a resize, a late answer or another surface.
PreviewUndone == Mounted(ui) # "theme" => ui.theme = ui.chosen

-----------------------------------------------------------------------------
\* The answer to a request for a provider's models is the step that takes one off.
ModelsArrive ==
    /\ Mounted(ui) = "model"
    /\ \E i \in DOMAIN calls : calls[i].op = "models" /\ calls' = RemoveAt(calls, i)

\* The arrival of a provider's models does not move the highlight off a row that is
\* still there, nor that row on the screen while the list can be scrolled to keep it.
AnchoredHighlight ==
    [][ModelsArrive =>
         \A old \in {ui.panel}, new \in {ui'.panel} :
           (VisualRow(old) >= 0 /\ RowIndex(ModelRows(new), old.highlight) >= 0)
           => /\ new.highlight = old.highlight
              /\ \/ VisualRow(new) = VisualRow(old)
                 \/ new.offset \in {0, Len(ModelRows(new)) - ListRows(ui, "model")}]_vars

\* The keys of a panel are held back while it waits for the backend.
Waits ==
    \/ Mounted(ui) = "memory" /\ ui.panel.form.mode = "none" /\ MemoryBlocked(ui.panel)
    \/ Mounted(ui) \in {"model", "connect"} /\ ui.panel.inFlight
    \/ Mounted(ui) = "resume" /\ ui.resume.status \in {"loading", "resuming"}

\* A panel that waits is given its keys back: whatever it waits for is pending, and
\* every answer, failures among them, ends the wait.
PanelSettles == []<>~Waits

=============================================================================
