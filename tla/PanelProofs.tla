---------------------------- MODULE PanelProofs ----------------------------
(***************************************************************************)
(* What the docked panels of the terminal never get wrong, for any catalog *)
(* of providers and of themes, any store, any terminal height and any      *)
(* number of requests under way: a theme that was only previewed is undone, *)
(* what covers a panel was asked for by that panel, and a memory list on    *)
(* screen is the backend's unless a submit failed since it was read.  All   *)
(* three follow from one inductive invariant, PanelInv, of the terminal      *)
(* between two renders: a step first makes a new terminal out of the old one *)
(* (Ready says which ones are good), then the panels it takes out of view    *)
(* are unmounted and those it brings into view are mounted (RenderedInv).    *)
(* On top of it stand two invariants of what is in view: ViewInv, for the    *)
(* lists of /memory, /theme and /resume, and ModelSeen, for the list of      *)
(* /model, whose rows come and go under its highlight as the models of each  *)
(* provider arrive; and TypesInv, of the types of all that is kept, the      *)
(* requests under way and the store included.  That an arrival keeps the     *)
(* highlight in its place comes last, from both.                             *)
(***************************************************************************)
EXTENDS PanelProperties, NaturalOrder

-----------------------------------------------------------------------------
(* The inductive invariant, of a terminal u over a store st *)

UiFields == {"surface", "resuming", "question", "rows", "panel", "resume", "opening", "known",
             "target", "back", "theme", "chosen", "mount", "sent"}

StoreShape(st) == DOMAIN st = {"items", "inbox", "sessions", "active", "connected", "url"}

\* The records of the panels.
PanelShape(p) ==
  /\ "kind" \in DOMAIN p
  /\ p.kind = "memory" =>
       /\ DOMAIN p = {"kind", "mode", "opening", "items", "inbox", "status", "highlight",
                      "offset", "detail", "detailOffset", "detailOf", "form", "formOf", "pick",
                      "confirm", "resized", "doubted"}
       /\ DOMAIN p.form = {"mode", "blank", "field", "error"}
  /\ p.kind = "connect" => DOMAIN p = {"kind", "selected", "step", "inFlight", "url", "label",
                                       "action", "confirm"}
  /\ p.kind = "theme" => /\ DOMAIN p = {"kind", "highlight", "offset", "origin", "warning"}
                         /\ p.highlight \in 0..(Catalog - 1)

\* What covers the memory panel was asked for by its opening.
OwnMemory(m, opening) ==
  /\ m.opening = opening
  /\ m.detail # 0 => m.detailOf = opening
  /\ m.form.mode # "none" => m.formOf = opening

\* A list that is shown is the store's, as it is now, unless a submit failed since.
MemoryAgrees(m, st) ==
  \/ m.status \in {"loaded", "empty"} => m.items = st.items /\ m.inbox = st.inbox
  \/ m.doubted

\* A list of providers that was read has them all, in the catalog's order.
KnownAgrees(known) ==
  /\ Len(known) \in {0, Len(Providers)}
  /\ \A k \in 1..Len(known) : known[k].id = Providers[k]

\* A step is of the provider selected, and the later steps of an endpoint have passed the
\* earlier ones.
OwnSteps(c, known) ==
  /\ c.step \in {"customUrl", "customLabel"} => SelectedProvider(c, known).id = Custom
  /\ c.step = "customLabel" => c.url
  /\ c.step = "key" => DraftsPass(c, SelectedProvider(c, known))
  /\ c.step # "list" => Len(known) # 0
  /\ c.selected \in Nat /\ (c.selected = 0 \/ c.selected < Len(known))

\* A panel p is a good one of its kind.
GoodPanel(p, opening, known, st) ==
  /\ PanelShape(p)
  /\ p.kind = "memory" => OwnMemory(p, opening) /\ MemoryAgrees(p, st)
  /\ p.kind = "connect" => OwnSteps(p, known)

\* What a terminal is between two renders.
Consistent(u, st) ==
  /\ DOMAIN u = UiFields
  /\ PanelShape(u.panel)
  /\ u.surface = "memory" => u.panel.kind = "memory" /\ GoodPanel(u.panel, u.opening, u.known, st)
  /\ u.panel.kind = "connect" => OwnSteps(u.panel, u.known)
  /\ KnownAgrees(u.known)
  /\ u.theme \in Themes /\ u.chosen \in Themes

\* While the theme picker shows it knows what to fall back to, and otherwise the theme
\* in force is the one chosen.
PreviewOf(u, mounted) ==
  IF mounted = "theme" THEN u.panel.kind = "theme" /\ u.panel.origin = u.chosen
                       ELSE u.theme = u.chosen

Panelled == {"memory", "model", "connect", "theme"}

TerminalInv(u, st) ==
  /\ Consistent(u, st)
  /\ PreviewOf(u, Mounted(u))
  /\ u.panel.kind \in {"none", u.surface}
  /\ Mounted(u) \in Panelled => u.panel.kind = Mounted(u)

PanelInv == TerminalInv(ui, store) /\ StoreShape(store)

-----------------------------------------------------------------------------
(* Rendering *)

\* The terminal u that a step comes to, before it is rendered.
Ready(u, st) ==
  /\ Consistent(u, st)
  /\ PreviewOf(u, Mounted(ui))
  /\ u.panel.kind = ui.panel.kind \/ Mounted(ui) = "home"

LEMMA MountedIs ==
  ASSUME NEW u, NEW k \in Panelled
  PROVE  Mounted(u) = k <=> /\ ~TooSmall(u) /\ u.surface = k
                            /\ u.question.kind = "none" /\ ~u.resuming
  BY DEF Mounted, ActiveDockedPanel, Panelled

LEMMA ThemeStart ==
  ASSUME NEW theme \in Themes, NEW rows
  PROVE  LET p == ScrollThemeHighlightIntoView(ResetThemeSurface(theme), rows)
         IN  PanelShape(p) /\ p.kind = "theme" /\ p.origin = theme
  BY ThemeAssumption DEF ScrollThemeHighlightIntoView, ResetThemeSurface, PanelShape, Themes

LEMMA MountKeeps ==
  ASSUME NEW st, NEW u, Consistent(u, st), u.theme = u.chosen, Mounted(u) \in PanelKinds
  PROVE  /\ Consistent(Mount(u), st) /\ Mounted(Mount(u)) = Mounted(u)
         /\ PreviewOf(Mount(u), Mounted(u))
         /\ Mount(u).surface = u.surface
         /\ Mounted(u) \in Panelled => Mount(u).panel.kind = Mounted(u)
         /\ Mounted(u) = "resume" => Mount(u).panel = u.panel
  <1> DEFINE m == Mount(u)
  <1>1. /\ DOMAIN m = UiFields
        /\ \A f \in UiFields \ {"mount", "panel", "resume"} : m[f] = u[f]
        /\ m.panel = CASE Mounted(u) = "memory"  -> ResetMemoryData(u.panel)
                       [] Mounted(u) = "model"   -> ResetModelSurface
                       [] Mounted(u) = "connect" -> ResetConnectSurface
                       [] Mounted(u) = "theme"   ->
                            ScrollThemeHighlightIntoView(ResetThemeSurface(u.theme), ListRows(u, "theme"))
                       [] OTHER -> u.panel
    BY DEF Consistent, Mount, UiFields
  <1> HIDE DEF m
  <1>2. /\ m.surface = u.surface /\ m.opening = u.opening /\ m.known = u.known
        /\ m.theme = u.theme /\ m.chosen = u.chosen /\ m.question = u.question
        /\ m.resuming = u.resuming /\ m.rows = u.rows
    BY <1>1 DEF UiFields
  <1>3. Mounted(m) = Mounted(u)
    BY <1>2 DEF Mounted, TooSmall, ActiveDockedPanel
  <1>4. CASE Mounted(u) = "memory"
    <2>1. u.surface = "memory" /\ m.panel = ResetMemoryData(u.panel)
      BY <1>1, <1>4, MountedIs DEF Panelled
    <2>2. GoodPanel(m.panel, u.opening, u.known, st) /\ m.panel.kind = "memory"
      BY <2>1 DEF ResetMemoryData, Consistent, GoodPanel, PanelShape, OwnMemory, MemoryAgrees
    <2> QED BY <1>1, <1>2, <1>3, <1>4, <2>1, <2>2
            DEF Consistent, PreviewOf, Panelled, m, GoodPanel
  <1>5. CASE Mounted(u) = "model"
    <2>1. u.surface = "model" /\ m.panel = ResetModelSurface
      BY <1>1, <1>5, MountedIs DEF Panelled
    <2>2. PanelShape(m.panel) /\ m.panel.kind = "model"
      BY <2>1 DEF ResetModelSurface, PanelShape
    <2> QED BY <1>1, <1>2, <1>3, <1>5, <2>1, <2>2 DEF Consistent, PreviewOf, Panelled, m
  <1>6. CASE Mounted(u) = "connect"
    <2>1. u.surface = "connect" /\ m.panel = ResetConnectSurface
      BY <1>1, <1>6, MountedIs DEF Panelled
    <2>2. PanelShape(m.panel) /\ m.panel.kind = "connect" /\ OwnSteps(m.panel, u.known)
      BY <2>1 DEF ResetConnectSurface, PanelShape, OwnSteps
    <2> QED BY <1>1, <1>2, <1>3, <1>6, <2>1, <2>2 DEF Consistent, PreviewOf, Panelled, m
  <1>7. CASE Mounted(u) = "theme"
    <2>1. /\ u.surface = "theme" /\ u.theme \in Themes
          /\ m.panel = ScrollThemeHighlightIntoView(ResetThemeSurface(u.theme), ListRows(u, "theme"))
      BY <1>1, <1>7, MountedIs DEF Panelled, Consistent
    <2>2. PanelShape(m.panel) /\ m.panel.kind = "theme" /\ m.panel.origin = u.theme
      BY <2>1, ThemeStart
    <2> QED BY <1>1, <1>2, <1>3, <1>7, <2>1, <2>2 DEF Consistent, PreviewOf, Panelled, m
  <1>8. CASE Mounted(u) = "resume"
    <2>1. m.panel = u.panel
      BY <1>1, <1>8
    <2> QED BY <1>1, <1>2, <1>3, <1>8, <2>1 DEF Consistent, PreviewOf, Panelled, m
  <1> QED BY <1>4, <1>5, <1>6, <1>7, <1>8 DEF PanelKinds

\* A good terminal is good once it is rendered: the picker that goes out of view takes its
\* preview back, and what comes into view starts afresh.
LEMMA RenderedInv ==
  ASSUME PanelInv, NEW st, NEW u, Ready(u, st)
  PROVE  TerminalInv(Rendered(u), st)
  <1> DEFINE was  == Mounted(ui)
             bare == IF Mounted(u) # was THEN Unmount(u, was) ELSE u
             left == Forget(bare)
  <1>1. /\ Consistent(bare, st) /\ Mounted(bare) = Mounted(u)
        /\ bare.panel.kind = u.panel.kind /\ bare.surface = u.surface
        /\ PreviewOf(bare, IF Mounted(u) # was THEN "home" ELSE was)
    <2>1. CASE Mounted(u) # was /\ was = "theme"
      <3>1. /\ u.panel.kind = "theme" /\ u.panel.origin = u.chosen /\ u.chosen \in Themes
            /\ DOMAIN u = UiFields
        BY <2>1 DEF Ready, PreviewOf, Consistent
      <3>2. bare = [u EXCEPT !.theme = RevertThemePreview(u.panel, @), !.panel.origin = NoTheme]
        BY <2>1, <3>1 DEF Unmount
      <3>3. RevertThemePreview(u.panel, u.theme) = u.chosen
        BY <3>1, ThemeAssumption DEF RevertThemePreview, NoTheme, Themes
      <3>4. /\ DOMAIN bare = UiFields /\ bare.theme = u.chosen
            /\ bare.panel = [u.panel EXCEPT !.origin = NoTheme]
            /\ \A f \in UiFields \ {"theme", "panel"} : bare[f] = u[f]
        BY <3>1, <3>2, <3>3 DEF UiFields
      <3> HIDE DEF bare
      <3>5. /\ bare.surface = u.surface /\ bare.opening = u.opening /\ bare.known = u.known
            /\ bare.chosen = u.chosen /\ bare.question = u.question
            /\ bare.resuming = u.resuming /\ bare.rows = u.rows
        BY <3>4 DEF UiFields
      <3>6. PanelShape(bare.panel) /\ bare.panel.kind = "theme"
        BY <3>1, <3>4 DEF Ready, Consistent, PanelShape
      <3>7. Mounted(bare) = Mounted(u)
        BY <3>5 DEF Mounted, TooSmall, ActiveDockedPanel
      <3> QED BY <2>1, <3>1, <3>4, <3>5, <3>6, <3>7 DEF Ready, Consistent, PreviewOf
    <2>2. CASE ~(Mounted(u) # was /\ was = "theme")
      BY <2>2 DEF Unmount, Ready, PreviewOf
    <2> QED BY <2>1, <2>2
  <1> HIDE DEF bare
  <1>2. /\ DOMAIN left = UiFields
        /\ \A f \in UiFields \ {"panel", "target", "back", "resume"} : left[f] = bare[f]
        /\ left.panel = IF bare.panel.kind = bare.surface THEN bare.panel ELSE NoPanel
    BY <1>1 DEF Consistent, Forget, UiFields
  <1> HIDE DEF left
  <1>3. /\ left.surface = bare.surface /\ left.opening = bare.opening /\ left.known = bare.known
        /\ left.theme = bare.theme /\ left.chosen = bare.chosen
        /\ left.question = bare.question /\ left.resuming = bare.resuming /\ left.rows = bare.rows
    BY <1>2 DEF UiFields
  <1>4. Mounted(left) = Mounted(u)
    BY <1>1, <1>3 DEF Mounted, TooSmall, ActiveDockedPanel
  <1>5. /\ left.panel.kind \in {"none", left.surface} /\ PanelShape(left.panel)
        /\ left.panel = bare.panel \/ (left.panel.kind = "none" /\ bare.panel.kind # bare.surface)
    <2>1. NoPanel.kind = "none" /\ PanelShape(NoPanel)
      BY DEF NoPanel, PanelShape
    <2> QED BY <1>1, <1>2, <1>3, <2>1 DEF Consistent
  <1>6. Consistent(left, st)
    BY <1>1, <1>2, <1>3, <1>5 DEF Consistent
  <1>7. CASE Mounted(u) = was
    <2>1. Rendered(u) = left
      BY <1>7 DEF Rendered, left, bare
    <2>2. Mounted(left) \in Panelled => left.panel.kind = Mounted(left)
      <3> SUFFICES ASSUME was \in Panelled PROVE left.panel.kind = was
        BY <1>4, <1>7
      <3>1. bare.panel.kind = was
        BY <1>1 DEF PanelInv, TerminalInv, Ready, Panelled
      <3>2. u.surface = was
        BY <1>7, MountedIs
      <3> QED BY <1>1, <1>5, <3>1, <3>2
    <2>3. PreviewOf(left, Mounted(left))
      <3>1. was = "theme" => u.surface = "theme"
        BY <1>7, MountedIs DEF Panelled
      <3> QED BY <1>1, <1>3, <1>4, <1>5, <1>7, <3>1 DEF PreviewOf
    <2> QED BY <1>5, <1>6, <2>1, <2>2, <2>3 DEF TerminalInv
  <1>8. CASE Mounted(u) # was
    <2>1. left.theme = left.chosen
      BY <1>1, <1>3, <1>8 DEF PreviewOf
    <2>2. CASE Mounted(u) \in PanelKinds
      <3>1. Rendered(u) = Mount(left)
        BY <1>8, <2>2 DEF Rendered, left, bare
      <3>2. Mounted(left) \in Panelled \/ Mounted(left) = "resume"
        BY <1>4, <2>2 DEF PanelKinds, Panelled
      <3>3. Mounted(left) \in Panelled => left.surface = Mounted(left)
        BY MountedIs
      <3>4. Mount(left).panel.kind \in {"none", left.surface}
        BY <1>4, <1>5, <1>6, <2>1, <2>2, <3>2, <3>3, MountKeeps
      <3> QED BY <1>4, <1>6, <2>1, <2>2, <3>1, <3>4, MountKeeps DEF TerminalInv
    <2>3. CASE Mounted(u) \notin PanelKinds
      <3>1. Rendered(u) = left
        BY <1>8, <2>3 DEF Rendered, left, bare
      <3> QED BY <1>4, <1>5, <1>6, <2>1, <2>3, <3>1 DEF TerminalInv, PreviewOf, PanelKinds, Panelled
    <2> QED BY <2>2, <2>3
  <1> QED BY <1>7, <1>8

LEMMA CommitKeeps ==
  ASSUME PanelInv, NEW u, Ready(u, store'), StoreShape(store'), NEW pending, Commit(u, pending)
  PROVE  PanelInv'
  <1>1. ui' = Rendered(u)
    BY DEF Commit
  <1>2. TerminalInv(Rendered(u), store')
    BY RenderedInv
  <1> QED BY <1>1, <1>2 DEF PanelInv
-----------------------------------------------------------------------------
(* The panels' own operators *)

GoodMemory(m, opening, st) ==
  m.kind = "memory" /\ PanelShape(m) /\ OwnMemory(m, opening) /\ MemoryAgrees(m, st)

\* What the keys do to a good memory panel.
LEMMA MemoryWriters ==
  ASSUME NEW m, NEW opening, NEW st, GoodMemory(m, opening, st)
  PROVE  /\ GoodMemory(SetMemoryFailure(m), opening, st)
         /\ GoodMemory(SetMemoryBusy(m), opening, st)
         /\ GoodMemory(SwitchMemoryMode(m), opening, st)
         /\ \A delta, v : GoodMemory(MoveMemoryHighlight(m, delta, v), opening, st)
         /\ \A delta, v : GoodMemory(ScrollMemoryDetail(m, delta, v), opening, st)
         /\ \A lines : GoodMemory(SetMemoryDetail(m, lines, opening), opening, st)
         /\ GoodMemory(OpenAddMemoryForm(m), opening, st)
         /\ GoodMemory(OpenEditMemoryForm(m, opening), opening, st)
         /\ GoodMemory(CloseMemoryForm(m), opening, st)
         /\ \A pick : GoodMemory(SetPendingItemAction(m, pick), opening, st)
         /\ \A item : GoodMemory(SetForgetConfirm(m, item), opening, st)
         /\ GoodMemory(SetFormField(m), opening, st)
         /\ \A blank : GoodMemory(SetFormTitle(m, blank), opening, st)
         /\ GoodMemory(SetFormBody(m), opening, st)
         /\ \A error : GoodMemory(SetFormError(m, error), opening, st)
         /\ GoodMemory([m EXCEPT !.resized = TRUE], opening, st)
  <1> USE DEF GoodMemory, PanelShape, OwnMemory, MemoryAgrees
  <1>1. GoodMemory(SetMemoryFailure(m), opening, st) /\ GoodMemory(SetMemoryBusy(m), opening, st)
    BY DEF SetMemoryFailure, SetMemoryBusy
  <1>2. GoodMemory(SwitchMemoryMode(m), opening, st)
    BY DEF SwitchMemoryMode
  <1>3. \A delta, v : GoodMemory(MoveMemoryHighlight(m, delta, v), opening, st)
    BY DEF MoveMemoryHighlight
  <1>4. /\ \A delta, v : GoodMemory(ScrollMemoryDetail(m, delta, v), opening, st)
        /\ \A lines : GoodMemory(SetMemoryDetail(m, lines, opening), opening, st)
    BY DEF ScrollMemoryDetail, SetMemoryDetail
  <1>5. /\ GoodMemory(OpenAddMemoryForm(m), opening, st)
        /\ GoodMemory(OpenEditMemoryForm(m, opening), opening, st)
        /\ GoodMemory(CloseMemoryForm(m), opening, st)
    BY DEF OpenAddMemoryForm, OpenEditMemoryForm, CloseMemoryForm, AddForm, EditForm, NoForm
  <1>6. /\ \A pick : GoodMemory(SetPendingItemAction(m, pick), opening, st)
        /\ \A item : GoodMemory(SetForgetConfirm(m, item), opening, st)
    BY DEF SetPendingItemAction, SetForgetConfirm
  <1>7. /\ GoodMemory(SetFormField(m), opening, st)
        /\ \A blank : GoodMemory(SetFormTitle(m, blank), opening, st)
        /\ GoodMemory(SetFormBody(m), opening, st)
        /\ \A error : GoodMemory(SetFormError(m, error), opening, st)
    BY DEF SetFormField, SetFormTitle, SetFormBody, SetFormError
  <1>8. GoodMemory([m EXCEPT !.resized = TRUE], opening, st)
    OBVIOUS
  <1> QED BY <1>1, <1>2, <1>3, <1>4, <1>5, <1>6, <1>7, <1>8

\* A panel whose data is reset, was just read, could not be read or is in doubt agrees
\* with whatever store.
LEMMA MemoryReads ==
  ASSUME NEW m, NEW opening, NEW old, NEW st, GoodMemory(m, opening, old)
  PROVE  /\ GoodMemory(ResetMemoryData(m), opening, st)
         /\ GoodMemory(SetMemoryData(m, st.items, st.inbox), opening, st)
         /\ GoodMemory(SetMemoryFailure(m), opening, st)
         /\ GoodMemory(SubmitFailed(m), opening, st)
  BY DEF GoodMemory, PanelShape, OwnMemory, MemoryAgrees, ResetMemoryData, SetMemoryData,
         SetMemoryFailure, SubmitFailed, SetFormError

LEMMA MemoryOpens ==
  ASSUME NEW mode, NEW opening, NEW st
  PROVE  GoodMemory(OpenMemorySurface(mode, opening), opening, st)
  BY DEF GoodMemory, PanelShape, OwnMemory, MemoryAgrees, OpenMemorySurface, NoForm

GoodConnect(c, known) == c.kind = "connect" /\ PanelShape(c) /\ OwnSteps(c, known)

\* What is to be shown of a panel d that has the selection of c.
LEMMA ConnectStep ==
  ASSUME NEW c, NEW known, GoodConnect(c, known),
         NEW d, DOMAIN d = DOMAIN c, d.kind = "connect", d.selected = c.selected,
         d.step \in {"customUrl", "customLabel"} => SelectedProvider(c, known).id = Custom,
         d.step = "customLabel" => d.url,
         d.step = "key" => DraftsPass(d, SelectedProvider(c, known)),
         d.step # "list" => Len(known) # 0
  PROVE  GoodConnect(d, known)
  BY DEF GoodConnect, PanelShape, OwnSteps, SelectedProvider

\* A provider that is shown may be entered.
LEMMA ConnectEnters ==
  ASSUME NEW c, NEW known, KnownAgrees(known), PanelShape(c), c.kind = "connect",
         c.selected \in Nat, c.selected < Len(known)
  PROVE  GoodConnect(SetProviderFlow(c, SelectedProvider(c, known)), known)
  <1> DEFINE d == SetProviderFlow(c, SelectedProvider(c, known))
  <1>1. /\ DOMAIN d = DOMAIN c /\ d.kind = "connect" /\ d.selected = c.selected
        /\ \/ d.step = "connectedActions"
           \/ d.step = "customUrl" /\ SelectedProvider(c, known).id = Custom
           \/ d.step = "key" /\ SelectedProvider(c, known).id # Custom
    BY DEF SetProviderFlow, PanelShape
  <1> HIDE DEF d
  <1>2. SelectedProvider(d, known) = SelectedProvider(c, known)
    BY <1>1 DEF SelectedProvider
  <1> QED BY <1>1, <1>2 DEF GoodConnect, PanelShape, OwnSteps, DraftsPass, d

\* The steps a connection goes through, with the guards of the keys that take them.
LEMMA ConnectWriters ==
  ASSUME NEW c, NEW known, KnownAgrees(known), GoodConnect(c, known)
  PROVE  /\ c.step = "list" => /\ \A d \in Int : GoodConnect(MoveConnectSelection(c, d, known), known)
                               /\ GoodConnect(ChooseSelectedProvider(c, known), known)
         /\ GoodConnect(BackConnectStep(c, known), known)
         /\ GoodConnect(ToggleAction(c), known)
         /\ c.step = "connectedActions" => /\ GoodConnect(ReplaceStep(c, known), known)
                                           /\ GoodConnect(EnterOnAction(c, known), known)
         /\ \A b \in BOOLEAN : GoodConnect([c EXCEPT !.confirm = b], known)
         /\ c.step = "customUrl" => /\ GoodConnect(LeaveUrl(c), known)
                                    /\ \A b \in BOOLEAN : GoodConnect(TypeUrl(c, b), known)
         /\ c.step = "customLabel" => /\ GoodConnect(LeaveLabel(c), known)
                                      /\ \A b \in BOOLEAN : GoodConnect(TypeLabel(c, b), known)
         /\ c.step = "key" /\ SelectedProvider(c, known).id = Custom
              => GoodConnect([c EXCEPT !.step = "customLabel"], known)
         /\ GoodConnect(BeginMutation(c), known) /\ GoodConnect(EndMutation(c), known)
         /\ GoodConnect(EndMutation([c EXCEPT !.step = "list", !.confirm = FALSE]), known)
  <1>1. Custom # None /\ Len(known) \in Nat
    BY CatalogAssumption DEF KnownAgrees
  <1>2. /\ DOMAIN c = {"kind", "selected", "step", "inFlight", "url", "label", "action", "confirm"}
        /\ c.kind = "connect" /\ OwnSteps(c, known)
    BY DEF GoodConnect, PanelShape
  <1>3. ASSUME c.step = "list", NEW d \in Int
        PROVE  GoodConnect(MoveConnectSelection(c, d, known), known)
    BY <1>1, <1>2, <1>3 DEF MoveConnectSelection, Clamp, AtLeast, AtMost, GoodConnect, PanelShape,
       OwnSteps
  <1>4. GoodConnect(ChooseSelectedProvider(c, known), known)
    <2>1. CASE SelectedProvider(c, known) = NoProvider
      BY <2>1 DEF ChooseSelectedProvider
    <2>2. CASE SelectedProvider(c, known) # NoProvider
      <3>1. c.selected \in Nat /\ c.selected < Len(known)
        BY <1>2, <2>2 DEF SelectedProvider, OwnSteps
      <3> QED BY <2>2, <3>1, ConnectEnters DEF ChooseSelectedProvider, GoodConnect
    <2> QED BY <2>1, <2>2
  <1>5. GoodConnect(BackConnectStep(c, known), known)
    <2> DEFINE d == BackConnectStep(c, known)
    <2>1. /\ DOMAIN d = DOMAIN c /\ d.kind = "connect" /\ d.selected = c.selected
          /\ d.url = c.url /\ d.label = c.label
          /\ d.step = CASE c.step = "customLabel" -> "customUrl"
                        [] c.step = "key" /\ SelectedProvider(c, known).id = Custom -> "customLabel"
                        [] OTHER -> "list"
      BY <1>2 DEF BackConnectStep
    <2> HIDE DEF d
    <2>2. \/ d.step = "list"
          \/ d.step = "customUrl" /\ c.step = "customLabel"
          \/ d.step = "customLabel" /\ c.step = "key" /\ SelectedProvider(c, known).id = Custom
      BY <2>1
    <2>3. GoodConnect(d, known)
      BY <1>2, <2>1, <2>2, ConnectStep DEF OwnSteps, DraftsPass
    <2> QED BY <2>3 DEF d
  <1>6. GoodConnect(ToggleAction(c), known) /\ \A b \in BOOLEAN : GoodConnect([c EXCEPT !.confirm = b], known)
    BY <1>2, ConnectStep DEF ToggleAction, OwnSteps, DraftsPass
  <1>7. ASSUME c.step = "connectedActions"
        PROVE  GoodConnect(ReplaceStep(c, known), known)
    BY <1>2, <1>7, ConnectStep DEF ReplaceStep, OwnSteps, DraftsPass
  <1>8. ASSUME c.step = "connectedActions"
        PROVE  GoodConnect(EnterOnAction(c, known), known)
    BY <1>6, <1>7, <1>8 DEF EnterOnAction
  <1>9. ASSUME c.step = "customUrl"
        PROVE  GoodConnect(LeaveUrl(c), known) /\ \A b \in BOOLEAN : GoodConnect(TypeUrl(c, b), known)
    BY <1>2, <1>9, ConnectStep DEF LeaveUrl, TypeUrl, OwnSteps, DraftsPass
  <1>10. ASSUME c.step = "customLabel"
         PROVE  /\ GoodConnect(LeaveLabel(c), known)
                /\ \A b \in BOOLEAN : GoodConnect(TypeLabel(c, b), known)
    BY <1>2, <1>10, ConnectStep DEF LeaveLabel, TypeLabel, OwnSteps, DraftsPass
  <1>11. ASSUME c.step = "key", SelectedProvider(c, known).id = Custom
         PROVE  GoodConnect([c EXCEPT !.step = "customLabel"], known)
    BY <1>2, <1>11, ConnectStep DEF OwnSteps, DraftsPass
  <1>12. GoodConnect(BeginMutation(c), known) /\ GoodConnect(EndMutation(c), known)
    BY <1>2, ConnectStep DEF BeginMutation, EndMutation, OwnSteps, DraftsPass
  <1>13. GoodConnect(EndMutation([c EXCEPT !.step = "list", !.confirm = FALSE]), known)
    <2> DEFINE d == EndMutation([c EXCEPT !.step = "list", !.confirm = FALSE])
    <2>1. /\ DOMAIN d = DOMAIN c /\ d.kind = "connect" /\ d.selected = c.selected
          /\ d.step = "list"
      BY <1>2 DEF EndMutation
    <2> HIDE DEF d
    <2>2. GoodConnect(d, known)
      BY <2>1, ConnectStep
    <2> QED BY <2>2 DEF d
  <1> QED BY <1>3, <1>4, <1>5, <1>6, <1>7, <1>8, <1>9, <1>10, <1>11, <1>12, <1>13

\* What the backend sends: all providers, in the catalog's order.
LEMMA RowsAgree ==
  ASSUME StoreShape(store)
  PROVE  /\ DOMAIN ProviderRows = 1..Len(Providers) /\ Len(Providers) \in Nat
         /\ Len(ProviderRows) = Len(Providers)
         /\ \A k \in 1..Len(Providers) : ProviderRows[k].id = Providers[k]
         /\ KnownAgrees(ProviderRows)
  <1>1. DOMAIN Providers = 1..Len(Providers) /\ Len(Providers) \in Nat
    BY CatalogAssumption
  <1>2. \A k \in 1..Len(Providers) : ProviderRows[k].id = Providers[k]
    BY <1>1 DEF ProviderRows
  <1> DEFINE S == {ProviderRows[k] : k \in 1..Len(Providers)}
  <1>3. ProviderRows \in [1..Len(Providers) -> S]
    BY <1>1 DEF ProviderRows
  <1> HIDE DEF ProviderRows, S
  <1>4. ProviderRows \in Seq(S) /\ Len(ProviderRows) = Len(Providers)
    BY <1>1, <1>3
  <1> QED BY <1>1, <1>2, <1>3, <1>4 DEF KnownAgrees

\* The list of providers arrives, whatever step the panel is at by then.
LEMMA ConnectReads ==
  ASSUME NEW c, NEW old, KnownAgrees(old), GoodConnect(c, old), NEW target, StoreShape(store)
  PROVE  GoodConnect(SetConnectProviders(c, ProviderRows, target), ProviderRows)
  <1>1. /\ DOMAIN ProviderRows = 1..Len(Providers) /\ Len(Providers) \in Nat
        /\ Len(ProviderRows) = Len(Providers)
        /\ \A k \in 1..Len(Providers) : ProviderRows[k].id = Providers[k]
    BY RowsAgree
  <1>2. KnownAgrees(ProviderRows)
    BY RowsAgree
  <1> HIDE DEF ProviderRows
  <1> DEFINE index == TargetIndex(ProviderRows, target)
             rows  == ProviderRows
  <1>3. index = -1 \/ (index \in Nat /\ index < Len(rows))
    <2>1. CASE \E i \in DOMAIN rows : rows[i].id = target
      <3> DEFINE i == CHOOSE i \in DOMAIN rows : rows[i].id = target
      <3>1. i \in DOMAIN rows
        BY <2>1
      <3>2. index = i - 1
        BY <2>1 DEF TargetIndex
      <3> HIDE DEF i
      <3> QED BY <1>1, <3>1, <3>2
    <2>2. CASE ~\E i \in DOMAIN rows : rows[i].id = target
      BY <2>2 DEF TargetIndex
    <2> QED BY <2>1, <2>2
  <1>4. CASE index = -1
    <2> DEFINE d == SetConnectProviders(c, rows, target)
    <2>1. d = [c EXCEPT !.selected = AtMost(@, AtLeast(0, Len(rows) - 1))]
      BY <1>4 DEF SetConnectProviders
    <2> HIDE DEF index, d
    <2>2. /\ c.selected \in Nat /\ (c.selected = 0 \/ c.selected < Len(old))
          /\ c.step # "list" => Len(old) # 0
          /\ Len(old) \in {0, Len(rows)}
      BY <1>1 DEF GoodConnect, OwnSteps, KnownAgrees
    <2>3. /\ DOMAIN d = DOMAIN c /\ d.kind = "connect" /\ d.step = c.step /\ d.url = c.url
          /\ d.label = c.label /\ d.selected = AtMost(c.selected, AtLeast(0, Len(rows) - 1))
      BY <2>1 DEF GoodConnect, PanelShape
    <2>4. /\ d.selected = c.selected
      BY <1>1, <2>2, <2>3 DEF AtMost, AtLeast
    <2>5. ASSUME c.step = "list" PROVE GoodConnect(d, rows)
      BY <1>1, <2>2, <2>3, <2>4, <2>5 DEF GoodConnect, PanelShape, OwnSteps
    <2>6. ASSUME c.step # "list" PROVE GoodConnect(d, rows)
      <3>1. Len(old) = Len(rows) /\ c.selected < Len(rows) /\ c.selected + 1 \in 1..Len(rows)
        BY <1>1, <2>2, <2>6
      <3>2. SelectedProvider(d, rows).id = SelectedProvider(c, old).id
        BY <1>1, <2>4, <3>1 DEF SelectedProvider, KnownAgrees
      <3> QED BY <2>2, <2>3, <2>4, <2>6, <3>1, <3>2
              DEF GoodConnect, PanelShape, OwnSteps, DraftsPass
    <2> QED BY <1>2, <2>5, <2>6 DEF d
  <1>5. CASE index # -1
    <2> DEFINE e == [c EXCEPT !.selected = index]
    <2>1. SetConnectProviders(c, rows, target) = SetProviderFlow(e, rows[index + 1])
      BY <1>3, <1>5 DEF SetConnectProviders
    <2>2. PanelShape(e) /\ e.kind = "connect" /\ e.selected = index
      BY DEF GoodConnect, PanelShape
    <2> HIDE DEF index, e
    <2>3. rows[index + 1] = SelectedProvider(e, rows)
      BY <1>3, <1>5, <2>2 DEF SelectedProvider
    <2> QED BY <1>2, <1>3, <1>5, <2>1, <2>2, <2>3, ConnectEnters
  <1> QED BY <1>2, <1>4, <1>5

GoodModel(m) == "kind" \in DOMAIN m /\ m.kind = "model"

\* No writer of the model panel makes it another panel.
LEMMA ModelKeeps ==
  ASSUME NEW m, GoodModel(m)
  PROVE  /\ \A index, v : GoodModel(EnsureVisible(m, index, v))
         /\ \A visual, v : GoodModel(EnsureHighlight(m, visual, v))
  <1>1. ASSUME NEW n, GoodModel(n), NEW index, NEW v PROVE GoodModel(EnsureVisible(n, index, v))
    BY <1>1 DEF EnsureVisible, GoodModel
  <1>2. ASSUME NEW visual, NEW v PROVE GoodModel(EnsureHighlight(m, visual, v))
    <2> DEFINE h     == EnsureHighlight(m, visual, v)
               rows  == FocusableRows(m)
               present == m.highlight # NoSelection /\ RowIndex(rows, m.highlight) >= 0
               next  == IF present THEN m.highlight ELSE RowIdentity(rows[1])
               moved == [m EXCEPT !.highlight = next]
               index == RowIndex(ModelRows(m), next)
    <2>1. \/ h = [m EXCEPT !.highlight = NoSelection, !.offset = 0]
          \/ h = m
          \/ h = [moved EXCEPT !.offset = Clamp(index - visual, 0, AtLeast(0, Len(ModelRows(m)) - v))]
          \/ h = EnsureVisible(moved, index, v)
      BY DEF EnsureHighlight
    <2>2. GoodModel(moved)
      BY DEF GoodModel
    <2> HIDE DEF h, next, index, moved
    <2> QED BY <1>1, <2>1, <2>2 DEF GoodModel, h
  <1> QED BY <1>1, <1>2

LEMMA ModelWriters ==
  ASSUME NEW m, GoodModel(m)
  PROVE  /\ \A connected, v : GoodModel(SetModelProvidersLoading(m, connected, v))
         /\ \A selection, v : GoodModel(SetModelActiveSelection(m, selection, v))
         /\ \A p, load, v : GoodModel(SetProviderModelLoad(m, p, load, v))
         /\ \A delta, v : GoodModel(MoveModelHighlight(m, delta, v))
         /\ \A v : GoodModel(ScrollModelHighlightIntoView(m, v))
         /\ \A p : GoodModel(StartInlineConnect(m, p))
         /\ GoodModel(CancelInlineConnect(m)) /\ GoodModel(SubmitInlineKey(m))
         /\ GoodModel([m EXCEPT !.inFlight = FALSE])
         /\ GoodModel([m EXCEPT !.outcome = "refused", !.inFlight = FALSE])
         /\ GoodModel([m EXCEPT !.error = TRUE, !.inFlight = FALSE])
  <1>1. ASSUME NEW connected, NEW v PROVE GoodModel(SetModelProvidersLoading(m, connected, v))
    <2> DEFINE n == [m EXCEPT !.listed = TRUE,
                              !.loads = [p \in ProviderSet |->
                                 [status |-> IF p \in connected THEN "loading" ELSE "notConnected",
                                  models |-> <<>>]]]
    <2>1. GoodModel(n)
      BY DEF GoodModel
    <2> HIDE DEF n
    <2>2. GoodModel(EnsureHighlight(n, -1, v))
      BY <2>1, ModelKeeps
    <2> QED BY <2>2 DEF SetModelProvidersLoading, n
  <1>2. ASSUME NEW selection, NEW v PROVE GoodModel(SetModelActiveSelection(m, selection, v))
    <2> DEFINE n == [m EXCEPT !.active = selection,
                              !.highlight = IF selection.provider # None /\ selection.model # None
                                            THEN selection ELSE @]
    <2>1. GoodModel(n)
      BY DEF GoodModel
    <2> HIDE DEF n
    <2>2. GoodModel(EnsureHighlight(n, -1, v))
      BY <2>1, ModelKeeps
    <2> QED BY <2>2 DEF SetModelActiveSelection, n
  <1>3. ASSUME NEW p, NEW load, NEW v PROVE GoodModel(SetProviderModelLoad(m, p, load, v))
    <2> DEFINE n == [m EXCEPT !.loads[p] = load]
    <2>1. GoodModel(n)
      BY DEF GoodModel
    <2> HIDE DEF n
    <2>2. GoodModel(EnsureHighlight(n, VisualRow(m), v))
      BY <2>1, ModelKeeps
    <2> QED BY <2>2 DEF SetProviderModelLoad, n
  <1>4. ASSUME NEW delta, NEW v PROVE GoodModel(MoveModelHighlight(m, delta, v))
    <2> DEFINE rows    == FocusableRows(m)
               current == AtLeast(0, RowIndex(rows, m.highlight))
               next    == RowIdentity(rows[Clamp(current + delta, 0, Len(rows) - 1) + 1])
               n       == [m EXCEPT !.highlight = next]
    <2>1. GoodModel(n)
      BY DEF GoodModel
    <2>2. \/ MoveModelHighlight(m, delta, v) = m
          \/ MoveModelHighlight(m, delta, v) = EnsureVisible(n, RowIndex(ModelRows(m), next), v)
      BY DEF MoveModelHighlight
    <2> HIDE DEF n, next
    <2> QED BY <2>1, <2>2, ModelKeeps
  <1>5. ASSUME NEW v PROVE GoodModel(ScrollModelHighlightIntoView(m, v))
    BY ModelKeeps DEF ScrollModelHighlightIntoView
  <1>6. /\ \A p : GoodModel(StartInlineConnect(m, p))
        /\ GoodModel(CancelInlineConnect(m)) /\ GoodModel(SubmitInlineKey(m))
    BY DEF GoodModel, StartInlineConnect, CancelInlineConnect, SubmitInlineKey
  <1>7. /\ GoodModel([m EXCEPT !.inFlight = FALSE])
        /\ GoodModel([m EXCEPT !.outcome = "refused", !.inFlight = FALSE])
        /\ GoodModel([m EXCEPT !.error = TRUE, !.inFlight = FALSE])
    BY DEF GoodModel
  <1> QED BY <1>1, <1>2, <1>3, <1>4, <1>5, <1>6, <1>7

GoodTheme(t, origin) == t.kind = "theme" /\ PanelShape(t) /\ t.origin = origin

LEMMA ThemeWriters ==
  ASSUME NEW t, NEW origin, GoodTheme(t, origin)
  PROVE  /\ \A v : GoodTheme(ScrollThemeHighlightIntoView(t, v), origin)
         /\ \A delta \in Int : \A v : GoodTheme(MoveThemeHighlight(t, delta, v), origin)
         /\ \A theme : GoodTheme(ConfirmTheme(t, theme), theme)
         /\ GoodTheme([t EXCEPT !.warning = TRUE], origin)
         /\ HighlightedTheme(t) \in Themes
  <1> USE ThemeAssumption DEF GoodTheme, PanelShape
  <1>1. ASSUME NEW s, GoodTheme(s, origin), NEW v
        PROVE  GoodTheme(ScrollThemeHighlightIntoView(s, v), origin)
    BY <1>1 DEF ScrollThemeHighlightIntoView
  <1>2. ASSUME NEW delta \in Int, NEW v PROVE GoodTheme(MoveThemeHighlight(t, delta, v), origin)
    <2> DEFINE s == [t EXCEPT !.highlight = Clamp(@ + delta, 0, Catalog - 1)]
    <2>1. s.highlight = Clamp(t.highlight + delta, 0, Catalog - 1)
      OBVIOUS
    <2>2. s.highlight \in 0..(Catalog - 1)
      BY <2>1 DEF Clamp, AtLeast, AtMost
    <2>3. GoodTheme(s, origin)
      BY <2>2
    <2> HIDE DEF s
    <2>4. GoodTheme(ScrollThemeHighlightIntoView(s, v), origin)
      BY <1>1, <2>3
    <2> QED BY <2>4 DEF MoveThemeHighlight, s
  <1>3. /\ \A theme : GoodTheme(ConfirmTheme(t, theme), theme)
        /\ GoodTheme([t EXCEPT !.warning = TRUE], origin)
    BY DEF ConfirmTheme
  <1>4. HighlightedTheme(t) \in Themes
    BY DEF HighlightedTheme, Themes
  <1> QED BY <1>1, <1>2, <1>3, <1>4

-----------------------------------------------------------------------------
(* What a step may make of the terminal *)

\* p may take the place of the panel that is there.
Fits(p, st) ==
  /\ p.kind = ui.panel.kind /\ PanelShape(p)
  /\ p.kind = "memory"  => GoodMemory(p, ui.opening, st)
  /\ p.kind = "connect" => GoodConnect(p, ui.known)
  /\ p.kind = "theme"   => p.origin = ui.panel.origin

LEMMA PanelIs ==
  ASSUME PanelInv
  PROVE  /\ ui.surface = "memory" <=> ui.panel.kind = "memory"
         /\ ui.panel.kind = "memory"  => GoodMemory(ui.panel, ui.opening, store)
         /\ ui.panel.kind = "connect" => GoodConnect(ui.panel, ui.known)
         /\ Mounted(ui) = "theme" => GoodTheme(ui.panel, ui.chosen)
         /\ Mounted(ui) = "model" => GoodModel(ui.panel)
         /\ Mounted(ui) = "connect" => ui.panel.kind = "connect"
         /\ Mounted(ui) = "memory" => ui.panel.kind = "memory"
         /\ DOMAIN ui = UiFields /\ PanelShape(ui.panel) /\ KnownAgrees(ui.known)
         /\ ui.theme \in Themes /\ ui.chosen \in Themes
  <1>1. TerminalInv(ui, store) /\ Consistent(ui, store)
    BY DEF PanelInv, TerminalInv
  <1>2. ui.surface = "memory" <=> ui.panel.kind = "memory"
    BY <1>1 DEF Consistent, TerminalInv
  <1>3. ui.panel.kind = "memory" => GoodMemory(ui.panel, ui.opening, store)
    BY <1>1, <1>2 DEF Consistent, GoodPanel, GoodMemory
  <1>4. ui.panel.kind = "connect" => GoodConnect(ui.panel, ui.known)
    BY <1>1 DEF Consistent, GoodConnect
  <1>5. Mounted(ui) \in Panelled => ui.panel.kind = Mounted(ui)
    BY <1>1 DEF TerminalInv
  <1>6. Mounted(ui) = "theme" => GoodTheme(ui.panel, ui.chosen)
    BY <1>1 DEF TerminalInv, PreviewOf, Consistent, GoodTheme
  <1>7. Mounted(ui) = "model" => GoodModel(ui.panel)
    BY <1>1, <1>5 DEF Consistent, PanelShape, GoodModel, Panelled
  <1> QED BY <1>1, <1>2, <1>3, <1>4, <1>5, <1>6, <1>7 DEF Consistent, Panelled

\* A step that leaves the themes and the list of providers alone.
LEMMA Frame ==
  ASSUME PanelInv, NEW st, NEW u, DOMAIN u = UiFields,
         u.known = ui.known, u.theme = ui.theme, u.chosen = ui.chosen,
         Fits(u.panel, st) \/ (u.panel = ui.panel /\ u.surface # "memory"),
         u.surface = "memory" => ui.surface = "memory" /\ u.opening = ui.opening
  PROVE  Ready(u, st)
  <1>1. u.panel.kind = ui.panel.kind /\ PanelShape(u.panel)
    BY PanelIs DEF Fits
  <1>2. u.panel.kind = "connect" => OwnSteps(u.panel, u.known)
    BY PanelIs DEF Fits, GoodConnect
  <1>3. u.surface = "memory" => u.panel.kind = "memory" /\ GoodPanel(u.panel, u.opening, u.known, st)
    BY PanelIs, <1>1 DEF Fits, GoodMemory, GoodPanel
  <1>4. Consistent(u, st)
    BY PanelIs, <1>1, <1>2, <1>3 DEF Consistent
  <1>5. PreviewOf(u, Mounted(ui))
    <2>1. PreviewOf(ui, Mounted(ui))
      BY DEF PanelInv, TerminalInv
    <2>2. Mounted(ui) = "theme" => u.panel.kind = "theme" /\ u.panel.origin = ui.panel.origin
      BY PanelIs, <1>1 DEF Fits, GoodTheme
    <2> QED BY <2>1, <2>2 DEF PreviewOf
  <1> QED BY <1>1, <1>4, <1>5 DEF Ready

\* What a terminal keeps besides its panel.
SameFrame(u) ==
  /\ DOMAIN u = UiFields
  /\ u.known = ui.known /\ u.theme = ui.theme /\ u.chosen = ui.chosen
  /\ u.surface = ui.surface /\ u.opening = ui.opening

LEMMA StaysReady ==
  ASSUME PanelInv, NEW u, SameFrame(u), u.panel = ui.panel
  PROVE  Ready(u, store)
  <1>1. Fits(u.panel, store)
    BY PanelIs DEF Fits
  <1> QED BY <1>1, Frame DEF SameFrame

LEMMA PanelReady ==
  ASSUME PanelInv, NEW st, NEW p, Fits(p, st)
  PROVE  Ready(InPanel(p), st) /\ SameFrame(InPanel(p)) /\ InPanel(p).panel = p
  <1>1. DOMAIN ui = UiFields
    BY PanelIs
  <1>2. SameFrame(InPanel(p)) /\ InPanel(p).panel = p
    BY <1>1 DEF InPanel, SameFrame, UiFields
  <1> QED BY <1>2, Frame DEF SameFrame

\* A request that is counted.
LEMMA SentReady ==
  ASSUME NEW u, NEW st, Ready(u, st)
  PROVE  Ready(Sent(u), st)
  <1>1. DOMAIN u = UiFields
    BY DEF Ready, Consistent
  <1>2. /\ DOMAIN Sent(u) = UiFields /\ \A f \in UiFields \ {"sent"} : Sent(u)[f] = u[f]
    BY <1>1 DEF Sent, UiFields
  <1>3. /\ Sent(u).surface = u.surface /\ Sent(u).opening = u.opening /\ Sent(u).known = u.known
        /\ Sent(u).theme = u.theme /\ Sent(u).chosen = u.chosen /\ Sent(u).panel = u.panel
    BY <1>2 DEF UiFields
  <1> QED BY <1>2, <1>3 DEF Ready, Consistent, PreviewOf

LEMMA PressKeeps ==
  ASSUME PanelInv, NEW u, Press(u), Ready(u, store)
  PROVE  PanelInv'
  <1>1. Ready(u, store') /\ StoreShape(store') /\ Commit(u, calls)
    BY DEF Press, PanelInv
  <1> QED BY <1>1, CommitKeeps

LEMMA SendKeeps ==
  ASSUME PanelInv, NEW u, NEW call, Send(u, call), Ready(u, store)
  PROVE  PanelInv'
  <1>1. Ready(Sent(u), store') /\ StoreShape(store') /\ Commit(Sent(u), Append(calls, call))
    BY SentReady DEF Send, PanelInv
  <1> QED BY <1>1, CommitKeeps

LEMMA PressPanel ==
  ASSUME PanelInv, NEW p, Fits(p, store), Press(InPanel(p))
  PROVE  PanelInv'
  BY PanelReady, PressKeeps

LEMMA SendPanel ==
  ASSUME PanelInv, NEW p, Fits(p, store), NEW call, Send(InPanel(p), call)
  PROVE  PanelInv'
  BY PanelReady, SendKeeps

LEMMA SendHere ==
  ASSUME PanelInv, NEW call, Send(ui, call)
  PROVE  PanelInv'
  BY PanelIs, StaysReady, SendKeeps DEF SameFrame

\* A surface other than /memory shows, or none.
LEMMA SurfaceReady ==
  ASSUME NEW u, NEW st, Ready(u, st), NEW c, DOMAIN c = UiFields, c.surface # "memory",
         c.known = u.known, c.theme = u.theme, c.chosen = u.chosen, c.panel = u.panel
  PROVE  Ready(c, st)
  BY DEF Ready, Consistent, PreviewOf

LEMMA OpensReady ==
  ASSUME NEW u, NEW st, Ready(u, st)
  PROVE  /\ Ready(CloseActiveSurface(u), st) /\ Ready(OpenHelpSurface(u), st)
         /\ Ready(OpenModelSurface(u), st) /\ Ready(OpenThemeSurface(u), st)
         /\ \A target, back : Ready(OpenConnectSurface(u, target, back), st)
  <1>1. DOMAIN u = UiFields
    BY DEF Ready, Consistent
  <1>2. Ready(CloseActiveSurface(u), st)
    <2> DEFINE c == CloseActiveSurface(u)
    <2>1. /\ DOMAIN c = UiFields /\ c.surface = "home" /\ c.known = u.known /\ c.theme = u.theme
          /\ c.chosen = u.chosen /\ c.panel = u.panel
      BY <1>1 DEF CloseActiveSurface, UiFields
    <2> HIDE DEF c
    <2>2. Ready(c, st)
      BY <2>1, SurfaceReady
    <2> QED BY <2>2 DEF c
  <1>3. ASSUME NEW k \in {"help", "model", "theme"} PROVE Ready([u EXCEPT !.surface = k], st)
    <2> DEFINE c == [u EXCEPT !.surface = k]
    <2>1. /\ DOMAIN c = UiFields /\ c.surface = k /\ c.known = u.known /\ c.theme = u.theme
          /\ c.chosen = u.chosen /\ c.panel = u.panel
      BY <1>1 DEF UiFields
    <2> HIDE DEF c
    <2>2. Ready(c, st)
      BY <2>1, SurfaceReady
    <2> QED BY <2>2 DEF c
  <1>4. ASSUME NEW target, NEW back PROVE Ready(OpenConnectSurface(u, target, back), st)
    <2> DEFINE c == OpenConnectSurface(u, target, back)
    <2>1. /\ DOMAIN c = UiFields /\ c.surface = "connect" /\ c.known = u.known /\ c.theme = u.theme
          /\ c.chosen = u.chosen /\ c.panel = u.panel
      BY <1>1 DEF OpenConnectSurface, UiFields
    <2> HIDE DEF c
    <2>2. Ready(c, st)
      BY <2>1, SurfaceReady
    <2> QED BY <2>2 DEF c
  <1> QED BY <1>2, <1>3, <1>4 DEF OpenHelpSurface, OpenModelSurface, OpenThemeSurface

\* Esc, as App sees it, of a terminal whose panel a key has replaced or not.
LEMMA EscReady ==
  ASSUME PanelInv, NEW u, Ready(u, store)
  PROVE  Ready(AppEsc(u), store)
  BY OpensReady DEF AppEsc

\* Questions, the resume panel and the size of the terminal.
Aside == {"resuming", "question", "rows", "resume"}

LEMMA AsideReady ==
  ASSUME NEW u, NEW st, Ready(u, st), NEW c, DOMAIN c = UiFields,
         \A f \in UiFields \ Aside : c[f] = u[f]
  PROVE  Ready(c, st)
  <1>1. /\ c.surface = u.surface /\ c.opening = u.opening /\ c.known = u.known
        /\ c.theme = u.theme /\ c.chosen = u.chosen /\ c.panel = u.panel
    BY DEF UiFields, Aside
  <1> QED BY <1>1 DEF Ready, Consistent, PreviewOf

LEMMA Asides ==
  ASSUME NEW u, NEW st, Ready(u, st)
  PROVE  /\ Ready(OpenResumePanel(u), st) /\ Ready(CloseResumePanel(u), st)
         /\ \A kind : Ready(OpenUserQuestion(u, kind), st)
         /\ Ready(CloseUserQuestion(u), st)
         /\ \A r : Ready([u EXCEPT !.resume = r], st)
         /\ \A h : Ready([u EXCEPT !.rows = h], st)
         /\ Ready([u EXCEPT !.resume.resized = TRUE], st)
         /\ \A n : Ready([u EXCEPT !.question.index = n], st)
  <1>1. DOMAIN u = UiFields
    BY DEF Ready, Consistent
  <1>2. ASSUME NEW r PROVE Ready([u EXCEPT !.resume = r], st)
    <2>1. \A f \in UiFields \ Aside : [u EXCEPT !.resume = r][f] = u[f]
      BY <1>1 DEF UiFields, Aside
    <2> QED BY <1>1, <2>1, AsideReady
  <1>3. ASSUME NEW q PROVE Ready([u EXCEPT !.question = q], st)
    <2>1. \A f \in UiFields \ Aside : [u EXCEPT !.question = q][f] = u[f]
      BY <1>1 DEF UiFields, Aside
    <2> QED BY <1>1, <2>1, AsideReady
  <1>4. ASSUME NEW h PROVE Ready([u EXCEPT !.rows = h], st)
    <2>1. \A f \in UiFields \ Aside : [u EXCEPT !.rows = h][f] = u[f]
      BY <1>1 DEF UiFields, Aside
    <2> QED BY <1>1, <2>1, AsideReady
  <1>5. ASSUME NEW b PROVE Ready([u EXCEPT !.resuming = b], st)
    <2>1. \A f \in UiFields \ Aside : [u EXCEPT !.resuming = b][f] = u[f]
      BY <1>1 DEF UiFields, Aside
    <2> QED BY <1>1, <2>1, AsideReady
  <1>6. Ready(OpenResumePanel(u), st) /\ Ready(CloseResumePanel(u), st)
    <2>1. \A f \in UiFields \ Aside : OpenResumePanel(u)[f] = u[f]
      BY <1>1 DEF UiFields, Aside, OpenResumePanel
    <2>2. DOMAIN OpenResumePanel(u) = UiFields
      BY <1>1 DEF OpenResumePanel
    <2> QED BY <2>1, <2>2, <1>5, AsideReady DEF CloseResumePanel
  <1>7. (\A kind : Ready(OpenUserQuestion(u, kind), st)) /\ Ready(CloseUserQuestion(u), st)
    BY <1>3 DEF OpenUserQuestion, CloseUserQuestion
  <1>8. Ready([u EXCEPT !.resume.resized = TRUE], st)
    <2>1. \A f \in UiFields \ Aside : [u EXCEPT !.resume.resized = TRUE][f] = u[f]
      BY <1>1 DEF UiFields, Aside
    <2> QED BY <1>1, <2>1, AsideReady
  <1>9. ASSUME NEW n PROVE Ready([u EXCEPT !.question.index = n], st)
    <2>1. \A f \in UiFields \ Aside : [u EXCEPT !.question.index = n][f] = u[f]
      BY <1>1 DEF UiFields, Aside
    <2> QED BY <1>1, <2>1, AsideReady
  <1> QED BY <1>2, <1>4, <1>6, <1>7, <1>8, <1>9

-----------------------------------------------------------------------------
(* The keys of the composer, of App and of the terminal *)

LEMMA KindFits ==
  ASSUME PanelInv, NEW p, NEW st
  PROVE  /\ ui.panel.kind = "memory" /\ GoodMemory(p, ui.opening, st) => Fits(p, st)
         /\ ui.panel.kind = "connect" /\ GoodConnect(p, ui.known) => Fits(p, st)
         /\ ui.panel.kind = "model" /\ GoodModel(p) => Fits(p, st)
         /\ ui.panel.kind = "theme" /\ GoodTheme(p, ui.panel.origin) => Fits(p, st)
  BY DEF Fits, GoodMemory, GoodConnect, GoodModel, GoodTheme, PanelShape

\* /memory opens from the composer, when no other surface shows.
LEMMA MemoryOpensReady ==
  ASSUME PanelInv, Mounted(ui) = "home", NEW mode, NEW p, NEW u,
         u = [OpenMemory(ui, mode) EXCEPT !.panel = p],
         GoodMemory(p, ui.opening + 1, store)
  PROVE  Ready(u, store)
  <1>1. /\ DOMAIN u = UiFields /\ u.surface = "memory" /\ u.opening = ui.opening + 1
        /\ u.panel = p /\ u.known = ui.known /\ u.theme = ui.theme /\ u.chosen = ui.chosen
    BY PanelIs DEF OpenMemory, UiFields
  <1>2. Consistent(u, store)
    BY <1>1, PanelIs DEF Consistent, GoodMemory, GoodPanel
  <1>3. PreviewOf(u, Mounted(ui))
    BY <1>1 DEF PanelInv, TerminalInv, PreviewOf
  <1> QED BY <1>2, <1>3 DEF Ready

LEMMA KeepExecuteCommand ==
  ASSUME PanelInv, ExecuteCommand
  PROVE  PanelInv'
  <1>1. Ready(ui, store)
    BY PanelIs, StaysReady DEF SameFrame
  <1> QED BY <1>1, OpensReady, Asides, PressKeeps DEF ExecuteCommand

LEMMA KeepExecuteMemoryCommand ==
  ASSUME PanelInv, ExecuteMemoryCommand
  PROVE  PanelInv'
  <1> PICK mode \in MemoryModes :
        LET opened == OpenMemory(ui, mode)
            with(panel) == [opened EXCEPT !.panel = panel]
        IN  \/ Press(opened)
            \/ /\ mode = "active"
               /\ \/ Press(with(OpenAddMemoryForm(opened.panel)))
                  \/ \E pick \in {"edit", "forget"} : Press(with(SetPendingItemAction(opened.panel, pick)))
    BY DEF ExecuteMemoryCommand
  <1> DEFINE opened == OpenMemory(ui, mode)
             with(panel) == [opened EXCEPT !.panel = panel]
             panel == OpenMemorySurface(mode, ui.opening + 1)
  <1>1. Mounted(ui) = "home"
    BY DEF ExecuteMemoryCommand
  <1>2. DOMAIN ui = UiFields
    BY PanelIs
  <1>3. opened = with(panel) /\ opened.panel = panel
    BY <1>2 DEF OpenMemory, UiFields
  <1>4. GoodMemory(panel, ui.opening + 1, store)
    BY MemoryOpens
  <1>5. ASSUME NEW p, GoodMemory(p, ui.opening + 1, store), Press(with(p)) PROVE PanelInv'
    <2>1. Ready(with(p), store)
      BY <1>1, <1>5, MemoryOpensReady
    <2> QED BY <1>5, <2>1, PressKeeps
  <1> HIDE DEF opened, with, panel
  <1>6. CASE Press(opened)
    BY <1>3, <1>4, <1>5, <1>6
  <1>7. CASE Press(with(OpenAddMemoryForm(opened.panel)))
    BY <1>3, <1>4, <1>5, <1>7, MemoryWriters
  <1>8. CASE \E pick \in {"edit", "forget"} : Press(with(SetPendingItemAction(opened.panel, pick)))
    BY <1>3, <1>4, <1>5, <1>8, MemoryWriters
  <1> QED BY <1>6, <1>7, <1>8 DEF opened, with

LEMMA KeepEscOutsidePanels ==
  ASSUME PanelInv, EscOutsidePanels
  PROVE  PanelInv'
  BY PanelIs, StaysReady, EscReady, PressKeeps DEF EscOutsidePanels, SameFrame

LEMMA KeepRerouteSubmit ==
  ASSUME PanelInv, RerouteSubmit
  PROVE  PanelInv'
  <1>1. Ready(ui, store)
    BY PanelIs, StaysReady DEF SameFrame
  <1> QED BY <1>1, OpensReady, PressKeeps, ZenonT(60) DEF RerouteSubmit

LEMMA KeepResize ==
  ASSUME PanelInv, Resize
  PROVE  PanelInv'
  <1> PICK height \in Heights \ {ui.rows} :
        LET u    == [ui EXCEPT !.rows = height]
            stay == IF Mounted(u) = Mounted(ui) THEN Mounted(u) ELSE "none"
        IN  Press(CASE stay = "model" ->
                         [u EXCEPT !.panel = ScrollModelHighlightIntoView(@, ListRows(u, "model"))]
                    [] stay = "theme" ->
                         [u EXCEPT !.panel = ScrollThemeHighlightIntoView(@, ListRows(u, "theme"))]
                    [] stay = "memory" -> [u EXCEPT !.panel.resized = TRUE]
                    [] stay = "resume" -> [u EXCEPT !.resume.resized = TRUE]
                    [] OTHER -> u)
    BY ZenonT(60) DEF Resize
  <1> DEFINE u == [ui EXCEPT !.rows = height]
             toModel  == [u EXCEPT !.panel = ScrollModelHighlightIntoView(@, ListRows(u, "model"))]
             toTheme  == [u EXCEPT !.panel = ScrollThemeHighlightIntoView(@, ListRows(u, "theme"))]
             toMemory == [u EXCEPT !.panel.resized = TRUE]
             toResume == [u EXCEPT !.resume.resized = TRUE]
             stay == IF Mounted(u) = Mounted(ui) THEN Mounted(u) ELSE "none"
             next == CASE stay = "model"  -> toModel
                       [] stay = "theme"  -> toTheme
                       [] stay = "memory" -> toMemory
                       [] stay = "resume" -> toResume
                       [] OTHER -> u
  <1>1. Ready(ui, store) /\ DOMAIN ui = UiFields
    BY PanelIs, StaysReady DEF SameFrame
  <1>2. Ready(u, store) /\ SameFrame(u) /\ u.panel = ui.panel
    <2>1. SameFrame(u) /\ u.panel = ui.panel
      BY <1>1 DEF SameFrame, UiFields
    <2> QED BY <2>1, StaysReady
  <1>3. Press(next)
    OBVIOUS
  <1>4. stay \in {"none", Mounted(ui)}
    OBVIOUS
  <1> HIDE DEF u, toModel, toTheme, toMemory, toResume, stay
  <1>5. \/ next \in {u, toResume}
        \/ stay = "model" /\ next = toModel
        \/ stay = "theme" /\ next = toTheme
        \/ stay = "memory" /\ next = toMemory
    OBVIOUS
  <1>6. \/ next \in {u, toResume}
        \/ Mounted(ui) = "model"  /\ next = toModel
        \/ Mounted(ui) = "theme"  /\ next = toTheme
        \/ Mounted(ui) = "memory" /\ next = toMemory
    BY <1>4, <1>5
  <1> HIDE DEF next
  <1>7. ASSUME NEW p, Fits(p, store) PROVE Ready([u EXCEPT !.panel = p], store)
    <2>1. /\ SameFrame([u EXCEPT !.panel = p]) /\ [u EXCEPT !.panel = p].panel = p
      BY <1>2 DEF SameFrame, UiFields
    <2> QED BY <1>7, <2>1, Frame DEF SameFrame
  <1>8. Ready(next, store)
    <2>1. CASE next = u
      BY <1>2, <2>1
    <2>2. CASE Mounted(ui) = "model" /\ next = toModel
      <3>1. Fits(ScrollModelHighlightIntoView(u.panel, ListRows(u, "model")), store)
        <4>1. GoodModel(u.panel) /\ ui.panel.kind = "model"
          BY <1>2, <2>2, PanelIs DEF GoodModel
        <4>2. GoodModel(ScrollModelHighlightIntoView(u.panel, ListRows(u, "model")))
          BY <4>1, ModelWriters
        <4> QED BY <4>1, <4>2, KindFits
      <3> QED BY <1>7, <2>2, <3>1 DEF toModel
    <2>3. CASE Mounted(ui) = "theme" /\ next = toTheme
      <3>1. Fits(ScrollThemeHighlightIntoView(u.panel, ListRows(u, "theme")), store)
        <4>1. GoodTheme(u.panel, ui.panel.origin) /\ ui.panel.kind = "theme"
          BY <1>2, <2>3, PanelIs DEF GoodTheme
        <4>2. GoodTheme(ScrollThemeHighlightIntoView(u.panel, ListRows(u, "theme")), ui.panel.origin)
          BY <4>1, ThemeWriters
        <4> QED BY <4>1, <4>2, KindFits
      <3> QED BY <1>7, <2>3, <3>1 DEF toTheme
    <2>4. CASE Mounted(ui) = "memory" /\ next = toMemory
      <3>1. Fits([u.panel EXCEPT !.resized = TRUE], store)
        BY <1>2, <2>4, PanelIs, MemoryWriters, KindFits
      <3>2. next = [u EXCEPT !.panel = [u.panel EXCEPT !.resized = TRUE]]
        BY <2>4 DEF toMemory
      <3> QED BY <1>7, <3>1, <3>2
    <2>5. CASE next = toResume
      BY <1>2, <2>5, Asides DEF toResume
    <2> QED BY <1>6, <2>1, <2>2, <2>3, <2>4, <2>5
  <1> QED BY <1>3, <1>8, PressKeeps

-----------------------------------------------------------------------------
(* The keys of /memory *)

LEMMA MemoryPress ==
  ASSUME PanelInv, Mounted(ui) = "memory", NEW p, GoodMemory(p, ui.opening, store)
  PROVE  /\ Press(InPanel(p)) => PanelInv'
         /\ \A call : Send(InPanel(p), call) => PanelInv'
         /\ Press(AppEsc(InPanel(p))) => PanelInv'
  <1>1. Fits(p, store)
    BY PanelIs, KindFits
  <1> QED BY <1>1, PressPanel, SendPanel, PanelReady, EscReady, PressKeeps

LEMMA EscHere ==
  ASSUME PanelInv, Press(AppEsc(ui))
  PROVE  PanelInv'
  BY PanelIs, StaysReady, EscReady, PressKeeps DEF SameFrame

LEMMA KeepMemoryList ==
  ASSUME PanelInv, MemoryListKey
  PROVE  PanelInv'
  <1>1. Mounted(ui) = "memory" /\ GoodMemory(Memory, ui.opening, store)
    BY PanelIs DEF MemoryListKey, Memory
  <1>2. CASE Press(AppEsc(InPanel(SetPendingItemAction(Memory, "none"))))
    BY <1>1, <1>2, MemoryWriters, MemoryPress
  <1>3. CASE Press(AppEsc(ui))
    BY <1>3, EscHere
  <1>4. CASE \E delta \in {-1, 1} : Press(InPanel(MoveMemoryHighlight(Memory, delta, ListRows(ui, "memory"))))
    BY <1>1, <1>4, MemoryWriters, MemoryPress
  <1>5. CASE Press(InPanel(SwitchMemoryMode(Memory)))
    BY <1>1, <1>5, MemoryWriters, MemoryPress
  <1>6. CASE Send(InPanel(ResetMemoryData(Memory)), Call(ui, "list"))
    BY <1>1, <1>6, MemoryReads, MemoryPress
  <1> QED BY <1>2, <1>3, <1>4, <1>5, <1>6 DEF MemoryListKey

LEMMA KeepMemoryItem ==
  ASSUME PanelInv, MemoryItemKey
  PROVE  PanelInv'
  <1>1. Mounted(ui) = "memory" /\ GoodMemory(Memory, ui.opening, store)
    BY PanelIs DEF MemoryItemKey, Memory
  <1>2. CASE \E op \in {"show", "showEdit"} : Send(ui, Call(ui, op))
    BY <1>2, SendHere
  <1>3. CASE Press(InPanel(SetForgetConfirm(Memory, HighlightedItem(Memory))))
    BY <1>1, <1>3, MemoryWriters, MemoryPress
  <1> QED BY <1>2, <1>3 DEF MemoryItemKey

LEMMA KeepMemoryEntry ==
  ASSUME PanelInv, MemoryEntryKey
  PROVE  PanelInv'
  <1>1. Mounted(ui) = "memory" /\ GoodMemory(Memory, ui.opening, store)
    BY PanelIs DEF MemoryEntryKey, Memory
  <1> QED BY <1>1, MemoryWriters, MemoryPress DEF MemoryEntryKey

LEMMA KeepMemoryDetail ==
  ASSUME PanelInv, MemoryDetailKey
  PROVE  PanelInv'
  <1>1. Mounted(ui) = "memory" /\ GoodMemory(Memory, ui.opening, store)
    BY PanelIs DEF MemoryDetailKey, Memory
  <1>2. CASE Press(AppEsc(ui))
    BY <1>2, EscHere
  <1>3. CASE \E delta \in {-1, 1} :
               Press(InPanel(ScrollMemoryDetail(Memory, delta, MemoryBodyRows(Memory, DockedPanelRows(ui)))))
    BY <1>1, <1>3, MemoryWriters, MemoryPress
  <1>4. CASE Press(InPanel(SetMemoryDetail(Memory, 0, 0)))
    <2>1. GoodMemory(SetMemoryDetail(Memory, 0, 0), ui.opening, store)
      BY <1>1 DEF SetMemoryDetail, GoodMemory, PanelShape, OwnMemory, MemoryAgrees
    <2> QED BY <1>1, <1>4, <2>1, MemoryPress
  <1> QED BY <1>2, <1>3, <1>4 DEF MemoryDetailKey

LEMMA KeepMemoryConfirm ==
  ASSUME PanelInv, MemoryConfirmKey
  PROVE  PanelInv'
  <1>1. Mounted(ui) = "memory" /\ GoodMemory(Memory, ui.opening, store)
    BY PanelIs DEF MemoryConfirmKey, Memory
  <1>2. CASE Press(InPanel(SetForgetConfirm(Memory, 0)))
    BY <1>1, <1>2, MemoryWriters, MemoryPress
  <1>3. CASE Send(InPanel(SetForgetConfirm(SetMemoryBusy(Memory), 0)), Call(ui, "forget"))
    <2>1. GoodMemory(SetMemoryBusy(Memory), ui.opening, store)
      BY <1>1, MemoryWriters
    <2>2. GoodMemory(SetForgetConfirm(SetMemoryBusy(Memory), 0), ui.opening, store)
      BY <2>1, MemoryWriters
    <2> QED BY <1>1, <1>3, <2>2, MemoryPress
  <1> QED BY <1>2, <1>3 DEF MemoryConfirmKey

LEMMA KeepMemoryBlockedEsc ==
  ASSUME PanelInv, MemoryBlockedEsc
  PROVE  PanelInv'
  BY EscHere DEF MemoryBlockedEsc

LEMMA KeepMemoryForm ==
  ASSUME PanelInv, MemoryFormKey
  PROVE  PanelInv'
  <1>1. Mounted(ui) = "memory" /\ GoodMemory(Memory, ui.opening, store)
    BY PanelIs DEF MemoryFormKey, Memory
  <1>2. CASE Press(InPanel(CloseMemoryForm(Memory))) \/ Press(InPanel(SetFormField(Memory)))
    BY <1>1, <1>2, MemoryWriters, MemoryPress
  <1>3. CASE \E blank \in BOOLEAN : Press(InPanel(SetFormTitle(Memory, blank)))
    BY <1>1, <1>3, MemoryWriters, MemoryPress
  <1>4. CASE Press(InPanel(SetFormBody(Memory))) \/ Press(InPanel(SetFormError(Memory, "title")))
    BY <1>1, <1>4, MemoryWriters, MemoryPress
  <1>5. CASE Send(ui, Call(ui, IF Memory.form.mode = "edit" THEN "save" ELSE "add"))
    BY <1>5, SendHere
  <1> QED BY <1>2, <1>3, <1>4, <1>5 DEF MemoryFormKey

-----------------------------------------------------------------------------
(* The keys of /model *)

LEMMA ModelPress ==
  ASSUME PanelInv, Mounted(ui) = "model", NEW p, GoodModel(p)
  PROVE  /\ Press(InPanel(p)) => PanelInv'
         /\ \A call : Send(InPanel(p), call) => PanelInv'
         /\ Press(AppEsc(InPanel(p))) => PanelInv'
  <1>1. Fits(p, store)
    BY PanelIs, KindFits DEF GoodModel
  <1> QED BY <1>1, PressPanel, SendPanel, PanelReady, EscReady, PressKeeps

LEMMA KeepModel ==
  ASSUME PanelInv, ModelKey
  PROVE  PanelInv'
  <1> DEFINE row    == HighlightedModelRow(Model)
             shown  == IF Model.outcome # "none" \/ Model.error THEN CancelInlineConnect(Model) ELSE Model
             choose == [Call(ui, "select") EXCEPT !.provider = row.provider, !.model = row.model]
             again  == [Call(ui, "models") EXCEPT !.provider = row.provider]
             reload == SetProviderModelLoad(Model, row.provider, NoLoad, ListRows(ui, "model"))
             inline == StartInlineConnect(Model, row.provider)
  <1>1. Mounted(ui) = "model" /\ GoodModel(Model)
    BY PanelIs DEF ModelKey, Model
  <1>2. \/ \E delta \in {-1, 1} : Press(InPanel(MoveModelHighlight(Model, delta, ListRows(ui, "model"))))
        \/ Press(AppEsc(InPanel(shown)))
        \/ Send(ui, choose)
        \/ Send(InPanel(reload), again)
        \/ Press(OpenConnectSurface(ui, Custom, TRUE))
        \/ Press(InPanel(inline))
    BY DEF ModelKey
  <1>3. GoodModel(shown) /\ GoodModel(reload) /\ GoodModel(inline)
    BY <1>1, ModelWriters
  <1> HIDE DEF row, shown, choose, again, reload, inline
  <1>4. CASE \E delta \in {-1, 1} : Press(InPanel(MoveModelHighlight(Model, delta, ListRows(ui, "model"))))
    BY <1>1, <1>4, ModelWriters, ModelPress
  <1>5. CASE Press(OpenConnectSurface(ui, Custom, TRUE))
    <2>1. Ready(ui, store)
      BY PanelIs, StaysReady DEF SameFrame
    <2> QED BY <1>5, <2>1, OpensReady, PressKeeps
  <1> QED BY <1>1, <1>2, <1>3, <1>4, <1>5, ModelPress, SendHere

LEMMA KeepInlineConnect ==
  ASSUME PanelInv, InlineConnectKey
  PROVE  PanelInv'
  <1>1. Mounted(ui) = "model" /\ GoodModel(Model)
    BY PanelIs DEF InlineConnectKey, Model
  <1>2. GoodModel(CancelInlineConnect(Model)) /\ GoodModel(SubmitInlineKey(Model))
    BY <1>1, ModelWriters
  <1> QED BY <1>1, <1>2, ModelPress DEF InlineConnectKey

-----------------------------------------------------------------------------
(* The keys of /connect *)

LEMMA ConnectPress ==
  ASSUME PanelInv, Mounted(ui) = "connect", NEW p, GoodConnect(p, ui.known)
  PROVE  /\ Press(InPanel(p)) => PanelInv'
         /\ \A call : Send(InPanel(p), call) => PanelInv'
  <1>1. Fits(p, store)
    BY PanelIs, KindFits
  <1> QED BY <1>1, PressPanel, SendPanel

LEMMA KeepConnect ==
  ASSUME PanelInv, ConnectKey
  PROVE  PanelInv'
  <1> DEFINE known == ui.known
  <1>1. /\ Mounted(ui) = "connect" /\ GoodConnect(Connect, known) /\ KnownAgrees(known)
    BY PanelIs DEF ConnectKey, Connect
  <1>2. CASE Press(OpenModelSurface(ui)) \/ Press(CloseActiveSurface(ui))
    <2>1. Ready(ui, store)
      BY PanelIs, StaysReady DEF SameFrame
    <2> QED BY <1>2, <2>1, OpensReady, PressKeeps
  <1>3. CASE /\ Connect.step = "list"
             /\ \/ \E delta \in {-1, 1} : Press(InPanel(MoveConnectSelection(Connect, delta, known)))
                \/ Press(InPanel(ChooseSelectedProvider(Connect, known)))
    <2>1. /\ \A delta \in {-1, 1} : GoodConnect(MoveConnectSelection(Connect, delta, known), known)
          /\ GoodConnect(ChooseSelectedProvider(Connect, known), known)
      <3>1. \A delta \in {-1, 1} : delta \in Int
        OBVIOUS
      <3> QED BY <1>1, <1>3, <3>1, ConnectWriters
    <2> QED BY <1>1, <1>3, <2>1, ConnectPress
  <1>4. CASE /\ Connect.step = "connectedActions"
             /\ \/ Press(InPanel(BackConnectStep(Connect, known)))
                \/ Press(InPanel(ToggleAction(Connect)))
                \/ Press(InPanel(ReplaceStep(Connect, known)))
                \/ Press(InPanel([Connect EXCEPT !.confirm = TRUE]))
                \/ Press(InPanel(EnterOnAction(Connect, known)))
    BY <1>1, <1>4, ConnectWriters, ConnectPress
  <1>5. CASE Press(InPanel([Connect EXCEPT !.confirm = FALSE]))
    BY <1>1, <1>5, ConnectWriters, ConnectPress
  <1>6. CASE \E call : Send(InPanel(BeginMutation(Connect)), call)
    BY <1>1, <1>6, ConnectWriters, ConnectPress
  <1> QED BY <1>2, <1>3, <1>4, <1>5, <1>6 DEF ConnectKey

LEMMA KeepConnectField ==
  ASSUME PanelInv, ConnectFieldKey
  PROVE  PanelInv'
  <1> DEFINE known == ui.known
  <1>1. /\ Mounted(ui) = "connect" /\ GoodConnect(Connect, known) /\ KnownAgrees(known)
    BY PanelIs DEF ConnectFieldKey, Connect
  <1>2. CASE Press(InPanel(BackConnectStep(Connect, known)))
    BY <1>1, <1>2, ConnectWriters, ConnectPress
  <1>3. CASE /\ Connect.step = "customUrl"
             /\ \/ Press(InPanel(LeaveUrl(Connect)))
                \/ \E valid \in BOOLEAN : Press(InPanel(TypeUrl(Connect, valid)))
    BY <1>1, <1>3, ConnectWriters, ConnectPress
  <1>4. CASE /\ Connect.step = "customLabel"
             /\ \/ Press(InPanel(LeaveLabel(Connect)))
                \/ \E valid \in BOOLEAN : Press(InPanel(TypeLabel(Connect, valid)))
    BY <1>1, <1>4, ConnectWriters, ConnectPress
  <1> QED BY <1>2, <1>3, <1>4 DEF ConnectFieldKey

LEMMA KeepConnectKeyField ==
  ASSUME PanelInv, ConnectKeyField
  PROVE  PanelInv'
  <1> DEFINE known == ui.known
  <1>1. /\ Mounted(ui) = "connect" /\ GoodConnect(Connect, known) /\ KnownAgrees(known)
        /\ Connect.step = "key"
    BY PanelIs DEF ConnectKeyField, Connect
  <1>2. CASE Press(InPanel(BackConnectStep(Connect, known)))
    BY <1>1, <1>2, ConnectWriters, ConnectPress
  <1>3. CASE /\ SelectedProvider(Connect, known).id = Custom
             /\ Press(InPanel([Connect EXCEPT !.step = "customLabel"]))
    BY <1>1, <1>3, ConnectWriters, ConnectPress
  <1>4. CASE \E call : Send(InPanel(BeginMutation(Connect)), call)
    BY <1>1, <1>4, ConnectWriters, ConnectPress
  <1> QED BY <1>2, <1>3, <1>4 DEF ConnectKeyField

-----------------------------------------------------------------------------
(* The keys of /theme, of /resume and of a question *)

LEMMA KeepTheme ==
  ASSUME PanelInv, ThemeKey
  PROVE  PanelInv'
  <1> DEFINE chosen == HighlightedTheme(ui.panel)
             confirmed == ConfirmTheme(ui.panel, chosen)
             saved == [Sent(InPanel(confirmed)) EXCEPT !.theme = chosen, !.chosen = chosen]
  <1>1. /\ Mounted(ui) = "theme" /\ GoodTheme(ui.panel, ui.chosen) /\ ui.surface = "theme"
        /\ DOMAIN ui = UiFields /\ KnownAgrees(ui.known) /\ ui.chosen \in Themes
    BY PanelIs, MountedIs DEF ThemeKey, Panelled
  <1>2. ASSUME NEW t, GoodTheme(t, ui.chosen), Press(Preview(ui, t)) PROVE PanelInv'
    <2> DEFINE u == Preview(ui, t)
    <2>1. /\ DOMAIN u = UiFields /\ u.panel = t /\ u.theme = HighlightedTheme(t)
          /\ u.chosen = ui.chosen /\ u.known = ui.known /\ u.surface = "theme"
      BY <1>1 DEF Preview, UiFields
    <2> HIDE DEF u
    <2>2. u.theme \in Themes
      BY <1>2, <2>1, ThemeWriters
    <2>3. Ready(u, store)
      BY <1>1, <1>2, <2>1, <2>2 DEF Ready, Consistent, PreviewOf, GoodTheme
    <2>4. Press(u)
      BY <1>2 DEF u
    <2> QED BY <2>3, <2>4, PressKeeps
  <1>3. CASE \E delta \in {-1, 1} : Press(Preview(ui, MoveThemeHighlight(ui.panel, delta, ListRows(ui, "theme"))))
    <2>1. PICK delta \in {-1, 1} :
            Press(Preview(ui, MoveThemeHighlight(ui.panel, delta, ListRows(ui, "theme"))))
      BY <1>3
    <2>2. GoodTheme(MoveThemeHighlight(ui.panel, delta, ListRows(ui, "theme")), ui.chosen)
      <3>1. delta \in Int
        BY <2>1
      <3> QED BY <1>1, <3>1, ThemeWriters
    <2> QED BY <1>2, <2>1, <2>2
  <1>4. CASE Press(AppEsc(ui))
    BY <1>4, EscHere
  <1>5. ASSUME NEW pending, Commit(saved, pending), UNCHANGED store PROVE PanelInv'
    <2>1. GoodTheme(confirmed, chosen) /\ chosen \in Themes
      BY <1>1, ThemeWriters
    <2> HIDE DEF confirmed, chosen
    <2>2. /\ DOMAIN saved = UiFields /\ saved.panel = confirmed /\ saved.theme = chosen
          /\ saved.chosen = chosen /\ saved.known = ui.known /\ saved.surface = "theme"
      BY <1>1 DEF Sent, InPanel, UiFields
    <2> HIDE DEF saved
    <2>3. Ready(saved, store)
      BY <1>1, <2>1, <2>2 DEF Ready, Consistent, PreviewOf, GoodTheme
    <2>4. Ready(saved, store') /\ StoreShape(store')
      BY <1>5, <2>3 DEF PanelInv
    <2> QED BY <1>5, <2>4, CommitKeeps
  <1> QED BY <1>3, <1>4, <1>5 DEF ThemeKey

\* A resume is sent, or asked about.
LEMMA ResumeSteps ==
  ASSUME PanelInv, NEW u, Ready(u, store), UNCHANGED store, NEW pending
  PROVE  /\ Commit(u, pending) => PanelInv'
         /\ PerformResume(u, pending) => PanelInv'
         /\ ConfirmWorkspaceOrResume(u, pending) => PanelInv'
  <1>1. ASSUME NEW v, Ready(v, store), NEW more, Commit(v, more) PROVE PanelInv'
    <2>1. Ready(v, store') /\ StoreShape(store')
      BY <1>1 DEF PanelInv
    <2> QED BY <1>1, <2>1, CommitKeeps
  <1>2. PerformResume(u, pending) => PanelInv'
    BY <1>1, Asides DEF PerformResume
  <1> QED BY <1>1, <1>2, Asides DEF ConfirmWorkspaceOrResume

LEMMA KeepResume ==
  ASSUME PanelInv, ResumeKey
  PROVE  PanelInv'
  <1>1. Ready(ui, store)
    BY PanelIs, StaysReady DEF SameFrame
  <1>2. CASE Press(AppEsc(CloseResumePanel(ui)))
    BY <1>1, <1>2, Asides, EscReady, PressKeeps
  <1>3. CASE \E delta \in {-1, 1} :
               Press([ui EXCEPT !.resume = MoveResumeHighlight(@, delta, ListRows(ui, "resume"))])
    BY <1>1, <1>3, Asides, PressKeeps
  <1>4. CASE UNCHANGED store /\ Commit(Sent(OpenUserQuestion(ui, "stop")), calls)
    <2>1. Ready(Sent(OpenUserQuestion(ui, "stop")), store)
      BY <1>1, Asides, SentReady
    <2> QED BY <1>4, <2>1, ResumeSteps
  <1>5. CASE UNCHANGED store /\ ConfirmWorkspaceOrResume(Sent(ui), calls)
    BY <1>1, <1>5, SentReady, ResumeSteps
  <1> QED BY <1>2, <1>3, <1>4, <1>5 DEF ResumeKey

LEMMA KeepQuestion ==
  ASSUME PanelInv, QuestionKey
  PROVE  PanelInv'
  <1> DEFINE u == CloseUserQuestion(ui)
  <1>1. Ready(ui, store) /\ UNCHANGED store
    BY PanelIs, StaysReady DEF SameFrame, QuestionKey
  <1>2. Ready(u, store)
    BY <1>1, Asides
  <1>3. CASE \E delta \in {-1, 1} : Commit([ui EXCEPT !.question.index = Clamp(@ + delta, 0, 1)], calls)
    BY <1>1, <1>3, Asides, ResumeSteps
  <1>4. CASE \E yes \in BOOLEAN : Choose(yes)
    <2>1. PICK yes \in BOOLEAN : Choose(yes)
      BY <1>4
    <2> HIDE DEF u
    <2>2. \/ Commit([u EXCEPT !.resume = SetResumeResuming(@)], Append(calls, Call(u, "stop")))
          \/ Commit(u, calls) \/ PerformResume(u, calls) \/ Commit(CloseResumePanel(u), calls)
      BY <2>1 DEF Choose, u
    <2> QED BY <1>1, <1>2, <2>2, Asides, ResumeSteps
  <1> QED BY <1>3, <1>4 DEF QuestionKey

LEMMA KeepKey ==
  ASSUME PanelInv, Key
  PROVE  PanelInv'
  BY KeepExecuteCommand, KeepExecuteMemoryCommand, KeepEscOutsidePanels, KeepResize,
     KeepRerouteSubmit, KeepMemoryList, KeepMemoryItem, KeepMemoryEntry, KeepMemoryDetail,
     KeepMemoryConfirm, KeepMemoryBlockedEsc, KeepMemoryForm, KeepModel, KeepInlineConnect,
     KeepConnect, KeepConnectField, KeepConnectKeyField, KeepTheme, KeepResume, KeepQuestion
  DEF Key

-----------------------------------------------------------------------------
(* The backend's answers *)

LEMMA ThenKeeps ==
  ASSUME PanelInv, NEW i, NEW u, NEW more, Then(i, u, more), Ready(u, store'), StoreShape(store')
  PROVE  PanelInv'
  BY CommitKeeps DEF Then

LEMMA DoneKeeps ==
  ASSUME PanelInv, NEW i, NEW u, Done(i, u), Ready(u, store)
  PROVE  PanelInv'
  <1>1. Then(i, u, <<>>) /\ Ready(u, store') /\ StoreShape(store')
    BY DEF Done, PanelInv
  <1> QED BY <1>1, ThenKeeps

\* A store with the lists of the one there is.
SameLists(st) == StoreShape(st) /\ st.items = store.items /\ st.inbox = store.inbox

LEMMA StoreReady ==
  ASSUME PanelInv, NEW st, SameLists(st)
  PROVE  Fits(ui.panel, st) /\ Ready(ui, st)
  <1>1. Fits(ui.panel, st)
    BY PanelIs DEF Fits, SameLists, GoodMemory, MemoryAgrees
  <1> QED BY <1>1, PanelIs, Frame

LEMMA SameStore ==
  ASSUME PanelInv
  PROVE  SameLists(store)
  BY DEF PanelInv, SameLists

\* An answer to a panel that is there, or no longer.
LEMMA WithReady ==
  ASSUME PanelInv, NEW st, NEW kind, NEW p,
         ui.panel.kind = kind => Fits(p, st), ui.panel.kind # kind => Fits(ui.panel, st)
  PROVE  /\ Ready(With(ui, kind, p), st) /\ SameFrame(With(ui, kind, p))
         /\ With(ui, kind, p).panel = IF ui.panel.kind = kind THEN p ELSE ui.panel
  <1>1. CASE ui.panel.kind = kind
    <2>1. With(ui, kind, p) = InPanel(p)
      BY <1>1 DEF With, InPanel
    <2> QED BY <1>1, <2>1, PanelReady
  <1>2. CASE ui.panel.kind # kind
    <2>1. With(ui, kind, p) = ui /\ SameFrame(ui)
      BY <1>2, PanelIs DEF With, SameFrame
    <2> QED BY <1>2, <2>1, Frame DEF SameFrame
  <1> QED BY <1>1, <1>2

\* What a mutation of the store of /memory may leave behind.
LEMMA MutatedStore ==
  ASSUME PanelInv, NEW op, NEW st \in Mutated(op) \cup {store}
  PROVE  StoreShape(st)
  <1>1. st = store \/ \E items : st = [store EXCEPT !.items = items]
    BY DEF Mutated
  <1> QED BY <1>1 DEF PanelInv, StoreShape

\* A list in doubt, or that could not be read, agrees with whatever the store has become.
LEMMA MemoryAnswer ==
  ASSUME PanelInv, NEW i, NEW p,
         p \in {SetMemoryFailure(ui.panel), SubmitFailed(ui.panel)},
         StoreShape(store'), Then(i, With(ui, "memory", p), <<>>)
  PROVE  PanelInv'
  <1>1. ASSUME NEW st, ui.panel.kind = "memory" PROVE Fits(p, st)
    <2>1. GoodMemory(p, ui.opening, st)
      BY <1>1, PanelIs, MemoryReads
    <2> QED BY <1>1, <2>1, KindFits
  <1>2. ui.panel.kind # "memory" => Fits(ui.panel, store')
    BY PanelIs DEF Fits
  <1>3. Ready(With(ui, "memory", p), store')
    BY <1>1, <1>2, WithReady
  <1> QED BY <1>3, ThenKeeps

LEMMA KeepFailure ==
  ASSUME PanelInv, NEW i, MemoryFailed(i)
  PROVE  PanelInv'
  BY MemoryAnswer DEF MemoryFailed, MemoryFails, PanelInv

LEMMA KeepList ==
  ASSUME PanelInv, NEW i, AnswerList(i)
  PROVE  PanelInv'
  <1> DEFINE p == SetMemoryData(ui.panel, store.items, store.inbox)
  <1>1. ui.panel.kind = "memory" => Fits(p, store)
    BY PanelIs, MemoryReads, KindFits
  <1>2. Ready(With(ui, "memory", p), store)
    BY <1>1, SameStore, StoreReady, WithReady
  <1> QED BY <1>2, DoneKeeps, KeepFailure DEF AnswerList

\* The details and the form of an answer are shown to the opening that asked for them.
LEMMA KeepShow ==
  ASSUME PanelInv, NEW i, AnswerShow(i)
  PROVE  PanelInv'
  <1>1. CASE IsCurrentMemoryRequest(calls[i])
    <2>1. ui.panel.kind = "memory" /\ calls[i].opening = ui.opening
      BY <1>1, PanelIs DEF IsCurrentMemoryRequest
    <2>2. GoodMemory(ui.panel, ui.opening, store)
      BY <2>1, PanelIs
    <2>3. /\ \A lines : GoodMemory(SetMemoryDetail(ui.panel, lines, ui.opening), ui.opening, store)
          /\ GoodMemory(OpenEditMemoryForm(ui.panel, ui.opening), ui.opening, store)
      BY <2>2, MemoryWriters
    <2>4. ASSUME NEW p, GoodMemory(p, ui.opening, store), Done(i, InPanel(p)) PROVE PanelInv'
      BY <2>1, <2>4, KindFits, PanelReady, DoneKeeps
    <2>5. \/ \E lines \in {1, MaxLines} : Done(i, InPanel(SetMemoryDetail(ui.panel, lines, ui.opening)))
          \/ Done(i, InPanel(OpenEditMemoryForm(ui.panel, ui.opening)))
          \/ MemoryFailed(i)
      BY <1>1, <2>1 DEF AnswerShow
    <2> QED BY <2>3, <2>4, <2>5, KeepFailure
  <1>2. CASE ~IsCurrentMemoryRequest(calls[i])
    BY <1>2, SameStore, StoreReady, DoneKeeps DEF AnswerShow
  <1> QED BY <1>1, <1>2

\* A list that changed is read again: none is shown until then.
LEMMA KeepRefresh ==
  ASSUME PanelInv, NEW i, NEW u, SameFrame(u), Fits(u.panel, store), StoreShape(store'),
         RefreshMemory(i, u)
  PROVE  PanelInv'
  <1> DEFINE v == With(u, "memory", ResetMemoryData(u.panel))
  <1>1. CASE u.panel.kind = "memory"
    <2>1. v = [u EXCEPT !.panel = ResetMemoryData(u.panel)]
      BY <1>1 DEF With
    <2>2. SameFrame(v) /\ v.panel = ResetMemoryData(u.panel)
      BY <2>1 DEF SameFrame, UiFields
    <2>3. GoodMemory(ResetMemoryData(u.panel), ui.opening, store') /\ ui.panel.kind = "memory"
      BY <1>1, MemoryReads DEF Fits
    <2>4. Fits(v.panel, store')
      BY <2>2, <2>3, KindFits
    <2> HIDE DEF v
    <2>5. Ready(v, store')
      BY <2>2, <2>4, Frame DEF SameFrame
    <2> QED BY <2>5, ThenKeeps DEF RefreshMemory, v
  <1>2. CASE u.panel.kind # "memory"
    <2>1. v = u
      BY <1>2 DEF With
    <2>2. Fits(u.panel, store')
      BY <1>2 DEF Fits
    <2>3. Ready(u, store')
      BY <2>2, Frame DEF SameFrame
    <2> QED BY <2>1, <2>3, ThenKeeps DEF RefreshMemory
  <1> QED BY <1>1, <1>2

LEMMA KeepForm ==
  ASSUME PanelInv, NEW i, AnswerForm(i)
  PROVE  PanelInv'
  <1> DEFINE closed == CloseMemoryForm(ui.panel)
  <1>1. ui.panel.kind = "memory" => Fits(closed, store)
    BY PanelIs, MemoryWriters, KindFits
  <1>2. Fits(ui.panel, store)
    BY SameStore, StoreReady
  <1>3. SameFrame(With(ui, "memory", closed)) /\ Fits(With(ui, "memory", closed).panel, store)
    BY <1>1, <1>2, WithReady
  <1> HIDE DEF closed
  <1>4. StoreShape(store')
    BY MutatedStore DEF AnswerForm
  <1>5. CASE Then(i, With(ui, "memory", SubmitFailed(ui.panel)), <<>>)
    BY <1>4, <1>5, MemoryAnswer
  <1>6. CASE RefreshMemory(i, With(ui, "memory", closed))
    BY <1>3, <1>4, <1>6, KeepRefresh
  <1> QED BY <1>5, <1>6 DEF AnswerForm, closed

LEMMA KeepMutation ==
  ASSUME PanelInv, NEW i, AnswerMutation(i)
  PROVE  PanelInv'
  <1>1. SameFrame(ui) /\ Fits(ui.panel, store)
    BY PanelIs, SameStore, StoreReady DEF SameFrame
  <1>2. StoreShape(store')
    BY MutatedStore DEF AnswerMutation
  <1>3. CASE RefreshMemory(i, ui)
    BY <1>1, <1>2, <1>3, KeepRefresh
  <1>4. CASE MemoryFails(i)
    BY <1>2, <1>4, MemoryAnswer DEF MemoryFails
  <1> QED BY <1>3, <1>4 DEF AnswerMutation

-----------------------------------------------------------------------------
(* The answers of /model *)

LEMMA ModelAnswer ==
  ASSUME PanelInv, NEW st, SameLists(st), NEW p, GoodModel(ui.panel) => GoodModel(p)
  PROVE  Ready(With(ui, "model", p), st)
  <1>1. ui.panel.kind = "model" => GoodModel(ui.panel)
    BY PanelIs DEF GoodModel, PanelShape
  <1>2. ui.panel.kind = "model" => Fits(p, st)
    BY <1>1, KindFits
  <1> QED BY <1>2, StoreReady, WithReady

LEMMA KeepLoad ==
  ASSUME PanelInv, NEW i, AnswerLoad(i)
  PROVE  PanelInv'
  <1> DEFINE v == ListRows(ui, "model")
             listed(active) ==
               SetModelActiveSelection(SetModelProvidersLoading(ui.panel, store.connected, v),
                                       EffectiveSelection(active, store.connected), v)
             ended(panel) == IF calls[i].then = "idle" THEN [panel EXCEPT !.inFlight = FALSE] ELSE panel
  <1>1. ASSUME NEW p, GoodModel(p) PROVE GoodModel(ended(p))
    BY <1>1, ModelWriters
  <1>2. ASSUME NEW active, GoodModel(ui.panel) PROVE GoodModel(listed(active))
    <2> DEFINE q == SetModelProvidersLoading(ui.panel, store.connected, v)
    <2>1. GoodModel(q)
      BY <1>2, ModelWriters
    <2> HIDE DEF q
    <2>2. \A selection : GoodModel(SetModelActiveSelection(q, selection, v))
      BY <2>1, ModelWriters
    <2> QED BY <2>2 DEF q
  <1>3. \/ Done(i, With(ui, "model", ended(ui.panel)))
        \/ \E active, more : /\ Then(i, With(ui, "model", ended(listed(active))), more)
                             /\ UNCHANGED store
    BY DEF AnswerLoad
  <1> HIDE DEF ended, listed
  <1>4. CASE Done(i, With(ui, "model", ended(ui.panel)))
    <2>1. Ready(With(ui, "model", ended(ui.panel)), store)
      BY <1>1, SameStore, ModelAnswer
    <2> QED BY <1>4, <2>1, DoneKeeps
  <1>5. CASE \E active, more : /\ Then(i, With(ui, "model", ended(listed(active))), more)
                               /\ UNCHANGED store
    <2> PICK active, more : /\ Then(i, With(ui, "model", ended(listed(active))), more)
                            /\ UNCHANGED store
      BY <1>5
    <2>1. Ready(With(ui, "model", ended(listed(active))), store)
      BY <1>1, <1>2, SameStore, ModelAnswer
    <2>2. Ready(With(ui, "model", ended(listed(active))), store') /\ StoreShape(store')
      BY <2>1 DEF PanelInv
    <2> QED BY <2>2, ThenKeeps
  <1> QED BY <1>3, <1>4, <1>5

LEMMA KeepModels ==
  ASSUME PanelInv, NEW i, AnswerModels(i)
  PROVE  PanelInv'
  <1>1. ASSUME NEW status, NEW models, Loaded(i, status, models) PROVE PanelInv'
    <2> DEFINE p == SetProviderModelLoad(ui.panel, calls[i].provider,
                                         [status |-> status, models |-> models], ListRows(ui, "model"))
    <2>1. GoodModel(ui.panel) => GoodModel(p)
      BY ModelWriters
    <2>2. Done(i, With(ui, "model", p))
      BY <1>1 DEF Loaded
    <2> HIDE DEF p
    <2> QED BY <2>1, <2>2, SameStore, ModelAnswer, DoneKeeps
  <1>2. CASE Done(i, ui)
    BY <1>2, SameStore, StoreReady, DoneKeeps
  <1> QED BY <1>1, <1>2 DEF AnswerModels

LEMMA KeepSelect ==
  ASSUME PanelInv, NEW i, AnswerSelect(i)
  PROVE  PanelInv'
  <1> DEFINE selection == [provider |-> calls[i].provider, model |-> calls[i].model]
             p == SetModelActiveSelection(ui.panel, selection, ListRows(ui, "model"))
  <1>1. GoodModel(ui.panel) => GoodModel(p)
    BY ModelWriters
  <1>2. /\ store' \in {[store EXCEPT !.active = selection], store}
        /\ \E u \in {ui, CloseActiveSurface(With(ui, "model", p))} : Then(i, u, <<>>)
    BY DEF AnswerSelect
  <1> HIDE DEF p, selection
  <1>3. SameLists(store')
    BY <1>2 DEF PanelInv, SameLists, StoreShape
  <1>4. Ready(CloseActiveSurface(With(ui, "model", p)), store') /\ Ready(ui, store') /\ StoreShape(store')
    BY <1>1, <1>3, ModelAnswer, StoreReady, OpensReady DEF SameLists
  <1> QED BY <1>2, <1>4, ThenKeeps

LEMMA KeyStored ==
  ASSUME PanelInv, NEW p, Connected(p) \/ Refused(p)
  PROVE  SameLists(store')
  <1>1. SameLists(store) /\ SameLists(Settings(p))
    BY DEF PanelInv, SameLists, StoreShape, Settings
  <1>2. \A st \in Selections(p) : SameLists(st)
    <2> TAKE st \in Selections(p)
    <2>1. \E active : st = [Settings(p) EXCEPT !.active = active]
      BY DEF Selections
    <2> QED BY <1>1, <2>1 DEF SameLists, StoreShape
  <1>3. \A st \in Connections(p) : SameLists(st)
    <2> TAKE st \in Connections(p)
    <2>1. \E stored \in Selections(p) : st = [stored EXCEPT !.connected = @ \cup {p}]
      BY DEF Connections
    <2> QED BY <1>2, <2>1 DEF SameLists, StoreShape
  <1> QED BY <1>1, <1>2, <1>3 DEF Connected, Refused

LEMMA KeepInlineKey ==
  ASSUME PanelInv, NEW i, AnswerInlineKey(i)
  PROVE  PanelInv'
  <1> DEFINE refused == [ui.panel EXCEPT !.outcome = "refused", !.inFlight = FALSE]
             failed  == [ui.panel EXCEPT !.error = TRUE, !.inFlight = FALSE]
  <1>1. GoodModel(ui.panel) => GoodModel(refused) /\ GoodModel(failed)
    BY ModelWriters
  <1>2. GoodModel(ResetModelSurface)
    BY DEF GoodModel, ResetModelSurface
  <1>3. /\ Connected(calls[i].provider) \/ Refused(calls[i].provider)
        /\ \/ \E pending : Commit(With(ui, "model", ResetModelSurface), pending)
           \/ Then(i, With(ui, "model", refused), <<>>)
           \/ Then(i, With(ui, "model", failed), <<>>)
    BY DEF AnswerInlineKey
  <1> HIDE DEF refused, failed
  <1>4. SameLists(store') /\ StoreShape(store')
    BY <1>3, KeyStored DEF SameLists
  <1>5. CASE \E pending : Commit(With(ui, "model", ResetModelSurface), pending)
    BY <1>2, <1>4, <1>5, ModelAnswer, CommitKeeps
  <1>6. CASE Then(i, With(ui, "model", refused), <<>>)
    BY <1>1, <1>4, <1>6, ModelAnswer, ThenKeeps
  <1>7. CASE Then(i, With(ui, "model", failed), <<>>)
    BY <1>1, <1>4, <1>7, ModelAnswer, ThenKeeps
  <1> QED BY <1>3, <1>5, <1>6, <1>7

-----------------------------------------------------------------------------
(* The answers of /connect *)

LEMMA ConnectReady ==
  ASSUME NEW st, NEW u, Ready(u, st), NEW p, u.panel.kind = "connect" => GoodConnect(p, u.known)
  PROVE  Ready(With(u, "connect", p), st)
  <1>1. CASE u.panel.kind # "connect"
    BY <1>1 DEF With
  <1>2. CASE u.panel.kind = "connect"
    <2> DEFINE v == With(u, "connect", p)
    <2>1. v = [u EXCEPT !.panel = p] /\ DOMAIN u = UiFields
      BY <1>2 DEF With, Ready, Consistent
    <2>2. /\ DOMAIN v = UiFields /\ v.panel = p /\ v.surface = u.surface /\ v.opening = u.opening
          /\ v.known = u.known /\ v.theme = u.theme /\ v.chosen = u.chosen
      BY <2>1 DEF UiFields
    <2> HIDE DEF v
    <2>3. Ready(v, st)
      BY <1>2, <2>2 DEF Ready, Consistent, PreviewOf, GoodConnect
    <2> QED BY <2>3 DEF v
  <1> QED BY <1>1, <1>2

\* What a connection does once it has its list, or has gone without.
LEMMA AfterReady ==
  ASSUME NEW st, NEW u, Ready(u, st), NEW then
  PROVE  Ready(AfterProviders(u, then), st)
  <1> DEFINE ended == CASE then = "none" -> u.panel
                        [] then = "list" -> EndMutation([u.panel EXCEPT !.step = "list", !.confirm = FALSE])
                        [] OTHER -> EndMutation(u.panel)
             idle == With(u, "connect", ended)
  <1>1. u.panel.kind = "connect" => GoodConnect(u.panel, u.known) /\ KnownAgrees(u.known)
    BY DEF Ready, Consistent, GoodConnect
  <1>2. u.panel.kind = "connect" => GoodConnect(ended, u.known)
    BY <1>1, ConnectWriters
  <1>3. AfterProviders(u, then) = IF then = "openModel" THEN OpenModelSurface(idle) ELSE idle
    BY DEF AfterProviders
  <1> HIDE DEF ended
  <1>4. Ready(idle, st)
    BY <1>2, ConnectReady
  <1> HIDE DEF idle
  <1> QED BY <1>3, <1>4, OpensReady

LEMMA KeepProviders ==
  ASSUME PanelInv, NEW i, AnswerProviders(i)
  PROVE  PanelInv'
  <1> DEFINE p    == SetConnectProviders(ui.panel, ProviderRows, ui.target)
             next == With(ui, "connect", p)
             target == IF TargetIndex(ProviderRows, ui.target) >= 0 THEN None ELSE next.target
             read == [next EXCEPT !.known = ProviderRows, !.target = target]
  <1>1. \E u \in {read, ui} : Done(i, AfterProviders(u, calls[i].then))
    BY DEF AnswerProviders
  <1>2. Ready(ui, store)
    BY SameStore, StoreReady
  <1>3. /\ KnownAgrees(ui.known) /\ StoreShape(store) /\ DOMAIN ui = UiFields
        /\ ui.panel.kind = "connect" => GoodConnect(ui.panel, ui.known)
    BY PanelIs DEF PanelInv
  <1>4. /\ KnownAgrees(ProviderRows)
        /\ ui.panel.kind = "connect" => GoodConnect(p, ProviderRows)
    <2>1. KnownAgrees(ProviderRows)
      BY <1>3, RowsAgree
    <2> QED BY <1>3, <2>1, ConnectReads
  <1>5. next = IF ui.panel.kind = "connect" THEN [ui EXCEPT !.panel = p] ELSE ui
    BY DEF With
  <1> HIDE DEF p, target
  <1>6. /\ DOMAIN next = UiFields /\ next.surface = ui.surface /\ next.opening = ui.opening
        /\ next.theme = ui.theme /\ next.chosen = ui.chosen
        /\ next.panel = IF ui.panel.kind = "connect" THEN p ELSE ui.panel
    BY <1>3, <1>5 DEF UiFields
  <1> HIDE DEF next
  <1>7. /\ DOMAIN read = UiFields /\ read.surface = ui.surface /\ read.opening = ui.opening
        /\ read.theme = ui.theme /\ read.chosen = ui.chosen /\ read.panel = next.panel
        /\ read.known = ProviderRows
    BY <1>6 DEF UiFields
  <1> HIDE DEF read
  <1>8. Ready(read, store)
    <2>1. CASE ui.panel.kind = "connect"
      <3>1. read.panel = p /\ GoodConnect(p, ProviderRows) /\ ui.surface # "memory"
        BY <1>4, <1>6, <1>7, <2>1, PanelIs
      <3> QED BY <1>2, <1>4, <1>7, <2>1, <3>1 DEF Ready, Consistent, PreviewOf, GoodConnect
    <2>2. CASE ui.panel.kind # "connect"
      BY <1>2, <1>4, <1>6, <1>7, <2>2 DEF Ready, Consistent, PreviewOf, GoodPanel
    <2> QED BY <2>1, <2>2
  <1> QED BY <1>1, <1>2, <1>8, AfterReady, DoneKeeps

LEMMA KeepConnectFailure ==
  ASSUME PanelInv, NEW i, NEW panel, ConnectFailed(i, panel), SameLists(store'),
         ui.panel.kind = "connect" => GoodConnect(panel, ui.known)
  PROVE  PanelInv'
  <1>1. ui.panel.kind = "connect" => GoodConnect(EndMutation(panel), ui.known)
    BY PanelIs, ConnectWriters
  <1>2. Ready(With(ui, "connect", EndMutation(panel)), store') /\ StoreShape(store')
    BY <1>1, StoreReady, ConnectReady DEF SameLists
  <1> QED BY <1>2, ThenKeeps DEF ConnectFailed

LEMMA KeepSetKey ==
  ASSUME PanelInv, NEW i, AnswerSetKey(i)
  PROVE  PanelInv'
  <1>1. SameLists(store') /\ StoreShape(store')
    BY KeyStored DEF SameLists, AnswerSetKey
  <1>2. ASSUME NEW more, Then(i, ui, more)
        PROVE  PanelInv'
    BY <1>1, <1>2, StoreReady, ThenKeeps
  <1>3. CASE ConnectFailed(i, ui.panel)
    BY <1>1, <1>3, PanelIs, KeepConnectFailure
  <1> QED BY <1>2, <1>3 DEF AnswerSetKey

LEMMA KeepClear ==
  ASSUME PanelInv, NEW i, AnswerClear(i)
  PROVE  PanelInv'
  <1>1. SameLists(store') /\ StoreShape(store')
    <2>1. store' = store \/ \E connected : store' = [store EXCEPT !.connected = connected]
      BY DEF AnswerClear
    <2> QED BY <2>1 DEF PanelInv, SameLists, StoreShape
  <1>2. ASSUME NEW more, Then(i, ui, more)
        PROVE  PanelInv'
    BY <1>1, <1>2, StoreReady, ThenKeeps
  <1>3. CASE ConnectFailed(i, [ui.panel EXCEPT !.confirm = FALSE])
    <2>1. ui.panel.kind = "connect" => GoodConnect([ui.panel EXCEPT !.confirm = FALSE], ui.known)
      BY PanelIs, ConnectWriters
    <2> QED BY <1>1, <1>3, <2>1, KeepConnectFailure
  <1> QED BY <1>2, <1>3 DEF AnswerClear

-----------------------------------------------------------------------------
(* The answers of /theme and /resume *)

LEMMA KeepSaveTheme ==
  ASSUME PanelInv, NEW i, AnswerSaveTheme(i)
  PROVE  PanelInv'
  <1> DEFINE warned == [ui.panel EXCEPT !.warning = TRUE]
  <1>1. Ready(ui, store)
    BY SameStore, StoreReady
  <1>2. ui.panel.kind = "theme" => Fits(warned, store)
    <2>1. ui.panel.kind = "theme" => GoodTheme(ui.panel, ui.panel.origin)
      BY PanelIs DEF GoodTheme
    <2> QED BY <2>1, ThemeWriters, KindFits
  <1>3. Ready(With(ui, "theme", warned), store)
    BY <1>2, SameStore, StoreReady, WithReady
  <1> QED BY <1>1, <1>3, OpensReady, DoneKeeps DEF AnswerSaveTheme

LEMMA KeepSessions ==
  ASSUME PanelInv, NEW i, AnswerSessions(i) \/ ResumeFailed(i) \/ AnswerResume(i)
  PROVE  PanelInv'
  <1>1. Ready(ui, store)
    BY SameStore, StoreReady
  <1> QED BY <1>1, Asides, DoneKeeps DEF AnswerSessions, ResumeFailed, AnswerResume

LEMMA KeepStop ==
  ASSUME PanelInv, NEW i, AnswerStop(i)
  PROVE  PanelInv'
  <1>1. Ready(ui, store)
    BY SameStore, StoreReady
  <1>2. CASE ConfirmWorkspaceOrResume(ui, RemoveAt(calls, i)) /\ UNCHANGED store
    BY <1>1, <1>2, ResumeSteps
  <1>3. ASSUME NEW more, Then(i, ui, more), UNCHANGED store PROVE PanelInv'
    <2>1. Ready(ui, store') /\ StoreShape(store')
      BY <1>1, <1>3 DEF PanelInv
    <2> QED BY <1>3, <2>1, ThenKeeps
  <1> QED BY <1>2, <1>3, KeepSessions DEF AnswerStop

LEMMA KeepAnswer ==
  ASSUME PanelInv, NEW i, Answer(i)
  PROVE  PanelInv'
  BY KeepList, KeepShow, KeepForm, KeepMutation, KeepLoad, KeepModels, KeepSelect,
     KeepInlineKey, KeepProviders, KeepSetKey, KeepClear, KeepSaveTheme, KeepSessions, KeepStop
  DEF Answer

-----------------------------------------------------------------------------
(* The invariant *)

LEMMA PanelStart ==
  ASSUME Init
  PROVE  PanelInv
  <1> PICK height \in Heights, connected \in ConnectedAtStart :
         /\ ui = [Start(height) EXCEPT !.sent = Cardinality(connected)]
         /\ store = [items |-> 1, inbox |-> 1, sessions |-> MaxSessions, active |-> NoSelection,
                     connected |-> connected, url |-> Custom \in connected]
    BY DEF Init
  <1>1. /\ DOMAIN ui = UiFields /\ ui.surface = "home" /\ ui.panel = NoPanel /\ ui.known = <<>>
        /\ ui.theme = 1 /\ ui.chosen = 1 /\ ui.question = NoQuestion /\ ui.resuming = FALSE
    BY DEF Start, UiFields
  <1>2. Mounted(ui) \in {"tooSmall", "home"}
    BY <1>1 DEF Mounted, ActiveDockedPanel, NoQuestion
  <1>3. KnownAgrees(<<>>)
    BY DEF KnownAgrees
  <1>4. Consistent(ui, store)
    BY <1>1, <1>3, ThemeAssumption DEF Consistent, NoPanel, PanelShape, Themes
  <1>5. StoreShape(store)
    BY DEF StoreShape
  <1> QED BY <1>1, <1>2, <1>4, <1>5 DEF PanelInv, TerminalInv, PreviewOf, NoPanel, Panelled

LEMMA PanelStep ==
  ASSUME PanelInv, [Next]_vars
  PROVE  PanelInv'
  <1>1. CASE Next
    BY <1>1, KeepKey, KeepAnswer DEF Next
  <1>2. CASE UNCHANGED vars
    BY <1>2 DEF PanelInv, vars
  <1> QED BY <1>1, <1>2

LEMMA PanelsHold == Spec => []PanelInv
  <1>1. Init => PanelInv
    BY PanelStart
  <1>2. PanelInv /\ [Next]_vars => PanelInv'
    BY PanelStep
  <1> QED BY <1>1, <1>2, PTL DEF Spec

(* A theme that was only previewed is not in force once the picker is gone, whether a key, a     *)
(* resize, a late answer or a reroute to /connect took it away: the hook's cleanup finds the     *)
(* theme to fall back to, as every confirmation moved it (revertThemePreviewAtom).               *)
THEOREM PreviewsEnd == Spec => []PreviewUndone
  <1>1. PanelInv => PreviewUndone
    BY DEF PanelInv, TerminalInv, PreviewOf, PreviewUndone
  <1> QED BY <1>1, PanelsHold, PTL

(* What covers a panel was asked for by this opening of it: a detail and an edit form that       *)
(* arrive after /memory was closed, or opened again, are dropped (isCurrentMemoryRequest), and    *)
(* the endpoint's fields and the key of a provider are shown only once the steps before them     *)
(* have passed, however the list of providers was read in the meantime.                          *)
THEOREM OverlaysAreOwn == Spec => []OwnOverlay
  <1>1. PanelInv => OwnOverlay
    BY PanelIs DEF OwnOverlay, GoodMemory, OwnMemory, GoodConnect, OwnSteps
  <1> QED BY <1>1, PanelsHold, PTL

(* A memory list that is shown is the backend's, for any order in which adds, forgets,           *)
(* approvals, refreshes and reopenings are answered, and though a request that fails may have    *)
(* been carried out: every answer that may have changed the store takes the list away until it   *)
(* has been read again (refreshMemory, setMemoryFailure), but for one, the failure of a form's   *)
(* submit, which is told in the form alone (setMemoryFormErrorAtom).                           *)
THEOREM ListsAgree == Spec => []QuietMemoryAgrees
  <1>1. PanelInv => QuietMemoryAgrees
    BY PanelIs DEF QuietMemoryAgrees, MemoryListAgrees, GoodMemory, MemoryAgrees
  <1> QED BY <1>1, PanelsHold, PTL

-----------------------------------------------------------------------------
(* The lists and their windows *)

\* Rows of the lists of /memory, when nothing covers it, /theme and /resume.
MemoryRows(rows) == AtLeast(1, CommandSurfaceBodyRows(ResolveDockedPanelRows(rows, DockedRows), 6, 1) - 1)
ThemeRows(rows)  == CommandSurfaceBodyRows(ResolveDockedPanelRows(rows, DockedRows), 4, 0)
ResumeRows(rows) ==
  AtLeast(1, AtMost(10, CommandSurfaceBodyRows(ResolveDockedPanelRows(rows, DockedRows), 5, 0)))

MemoryShows(m, rows) ==
  /\ m.items \in Nat /\ m.inbox \in Nat /\ m.highlight \in Nat /\ m.offset \in Nat
  /\ ~m.resized /\ CurrentListLength(m) > 0
       => /\ m.highlight < CurrentListLength(m)
          /\ InWindow(m.highlight, DrawnOffset(m, MemoryRows(rows)), MemoryRows(rows))

ThemeShows(t, rows) ==
  /\ t.offset \in Nat /\ t.highlight \in 0..(Catalog - 1)
  /\ InWindow(t.highlight, t.offset, ThemeRows(rows))

ResumeShows(r, rows) ==
  /\ DOMAIN r = {"kind", "sessions", "status", "highlight", "offset", "resized"}
  /\ r.sessions \in Nat /\ r.highlight \in Nat /\ r.offset \in Nat
  /\ ~r.resized /\ r.sessions > 0
       => HasHighlightedSession(r) /\ InWindow(r.highlight, r.offset, ResumeRows(rows))

\* The list of the panel that is mounted, if it is one of the three.
Shows(u, mounted) ==
  /\ mounted = "memory" => MemoryShows(u.panel, u.rows)
  /\ mounted = "theme"  => ThemeShows(u.panel, u.rows)
  /\ mounted = "resume" => ResumeShows(u.resume, u.rows)

ViewInv ==
  /\ Shows(ui, Mounted(ui)) /\ ui.rows \in Nat
  /\ store.items \in Nat /\ store.inbox \in Nat /\ store.sessions \in Nat

\* What the other invariant says of a step, and this one of its start.
Scene == PanelInv /\ PanelInv' /\ ViewInv

-----------------------------------------------------------------------------
\* A list has rows, as the terminal has.
LEMMA RowsThere ==
  ASSUME NEW rows \in Nat
  PROVE  /\ MemoryRows(rows) \in Nat \ {0} /\ ThemeRows(rows) \in Nat \ {0}
         /\ ResumeRows(rows) \in Nat \ {0}
  <1> DEFINE p == ResolveDockedPanelRows(rows, DockedRows)
  <1>1. p \in Int
    BY DEF ResolveDockedPanelRows, Clamp, AtMost, AtLeast, DockedRows, MaxHeightDivisor, HeaderRows
  <1> HIDE DEF p
  <1>2. \A chrome \in Nat, reserved \in Nat : CommandSurfaceBodyRows(p, chrome, reserved) \in Nat \ {0}
    BY <1>1 DEF CommandSurfaceBodyRows, AtLeast
  <1>3. \A n \in Nat \ {0} : AtLeast(1, n - 1) \in Nat \ {0} /\ AtLeast(1, AtMost(10, n)) \in Nat \ {0}
    BY DEF AtLeast, AtMost
  <1>4. /\ CommandSurfaceBodyRows(p, 6, 1) \in Nat \ {0} /\ CommandSurfaceBodyRows(p, 4, 0) \in Nat \ {0}
        /\ CommandSurfaceBodyRows(p, 5, 0) \in Nat \ {0}
    BY <1>2
  <1> QED BY <1>3, <1>4 DEF MemoryRows, ThemeRows, ResumeRows, p

\* The highlighted entry of a list is in its window once the window has followed it.
LEMMA WindowFollows ==
  ASSUME NEW total \in Nat, NEW visible \in Nat \ {0}, NEW index \in 0..(total - 1),
         NEW offset \in Nat
  PROVE  LET next == ResolveWindowOffset(index, offset, visible, total)
         IN  /\ next \in Nat /\ InWindow(index, next, visible)
             /\ AtMost(next, AtLeast(0, total - visible)) = next
  BY DEF ResolveWindowOffset, InWindow, Clamp, AtMost, AtLeast

\* The top of a list is in the window at its top.
LEMMA TopShows ==
  ASSUME NEW visible \in Nat \ {0}
  PROVE  /\ InWindow(0, 0, visible)
         /\ \A total \in Nat : InWindow(0, AtMost(0, AtLeast(0, total - visible)), visible)
  BY DEF InWindow, AtMost, AtLeast

LEMMA RowsOfLists ==
  ASSUME NEW u
  PROVE  /\ ~SubStateActive(u.panel) => ListRows(u, "memory") = MemoryRows(u.rows)
         /\ ListRows(u, "theme") = ThemeRows(u.rows)
         /\ ListRows(u, "resume") = ResumeRows(u.rows)
  BY DEF ListRows, DockedPanelRows, MemoryListRows, MemoryBodyRows, MemoryRows, ThemeRows, ResumeRows

\* What the lists of a terminal show depends on its height, its panel and its resume panel.
LEMMA SameShows ==
  ASSUME NEW u, NEW v, NEW mounted, v.rows = u.rows, v.panel = u.panel, v.resume = u.resume
  PROVE  Shows(v, mounted) <=> Shows(u, mounted)
  BY DEF Shows

\* What comes into view shows the top of its list.
LEMMA MountShows ==
  ASSUME NEW u, DOMAIN u = UiFields, u.rows \in Nat, Mounted(u) \in PanelKinds,
         PanelShape(Mount(u).panel), Mount(u).theme \in Themes,
         Mounted(u) = "memory" => Mount(u).panel.kind = "memory"
  PROVE  Shows(Mount(u), Mounted(u))
  <1> DEFINE m == Mount(u)
  <1>1. /\ m.rows = u.rows /\ m.theme = u.theme
        /\ m.panel = CASE Mounted(u) = "memory"  -> ResetMemoryData(u.panel)
                       [] Mounted(u) = "model"   -> ResetModelSurface
                       [] Mounted(u) = "connect" -> ResetConnectSurface
                       [] Mounted(u) = "theme"   ->
                            ScrollThemeHighlightIntoView(ResetThemeSurface(u.theme), ListRows(u, "theme"))
                       [] OTHER -> u.panel
        /\ m.resume = IF Mounted(u) = "resume" THEN ResetResumeSurface ELSE u.resume
    BY DEF Mount, UiFields
  <1>2. u.theme \in Themes
    BY <1>1
  <1> HIDE DEF m
  <1>3. CASE Mounted(u) = "memory"
    <2>1. m.panel = ResetMemoryData(u.panel) /\ m.panel.kind = "memory" /\ PanelShape(m.panel)
      BY <1>1, <1>3 DEF m
    <2>2. DOMAIN u.panel = DOMAIN m.panel
      BY <2>1 DEF ResetMemoryData
    <2>3. m.panel.items = 0 /\ m.panel.inbox = 0 /\ m.panel.highlight = 0 /\ m.panel.offset = 0
      BY <2>1, <2>2 DEF ResetMemoryData, PanelShape
    <2>4. MemoryShows(m.panel, m.rows)
      BY <2>3 DEF MemoryShows, CurrentListLength
    <2> QED BY <1>3, <2>4 DEF Shows, m
  <1>4. CASE Mounted(u) = "theme"
    <2> DEFINE rows == ThemeRows(u.rows)
    <2>1. m.panel = ScrollThemeHighlightIntoView(ResetThemeSurface(u.theme), rows)
      BY <1>1, <1>4, RowsOfLists
    <2>2. u.theme - 1 \in 0..(Catalog - 1) /\ Catalog \in Nat
      BY <1>2, ThemeAssumption DEF Themes
    <2>3. /\ m.panel.highlight = u.theme - 1
          /\ m.panel.offset = ResolveWindowOffset(u.theme - 1, 0, rows, Catalog)
      BY <2>1 DEF ScrollThemeHighlightIntoView, ResetThemeSurface
    <2>4. rows \in Nat \ {0}
      BY RowsThere
    <2> HIDE DEF rows
    <2>5. m.panel.offset \in Nat /\ InWindow(m.panel.highlight, m.panel.offset, rows)
      <3> DEFINE index == u.theme - 1
      <3>1. index \in 0..(Catalog - 1) /\ 0 \in Nat
        BY <2>2
      <3> HIDE DEF index
      <3>2. /\ ResolveWindowOffset(index, 0, rows, Catalog) \in Nat
            /\ InWindow(index, ResolveWindowOffset(index, 0, rows, Catalog), rows)
        BY <2>2, <2>4, <3>1, WindowFollows
      <3> QED BY <2>3, <3>2 DEF index
    <2>6. ThemeShows(m.panel, m.rows)
      BY <1>1, <2>2, <2>3, <2>5 DEF ThemeShows, rows
    <2> QED BY <1>4, <2>6 DEF Shows, m
  <1>5. CASE Mounted(u) = "resume"
    <2>1. ResumeShows(m.resume, m.rows)
      BY <1>1, <1>5 DEF ResumeShows, ResetResumeSurface
    <2> QED BY <1>5, <2>1 DEF Shows, m
  <1>6. CASE Mounted(u) \in {"model", "connect"}
    BY <1>6 DEF Shows
  <1> QED BY <1>3, <1>4, <1>5, <1>6 DEF PanelKinds

\* A step that comes to the terminal u: what stays in view still shows its list, and what
\* comes into view is reset.
LEMMA CommitShows ==
  ASSUME Scene, NEW u, DOMAIN u = UiFields, u.rows \in Nat, NEW pending, Commit(u, pending),
         Mounted(u) = Mounted(ui) => Shows(u, Mounted(ui))
  PROVE  Shows(ui, Mounted(ui))' /\ ui'.rows \in Nat
  <1> DEFINE was  == Mounted(ui)
             bare == IF Mounted(u) # was THEN Unmount(u, was) ELSE u
             left == Forget(bare)
  <1>1. ui' = IF Mounted(u) # was /\ Mounted(u) \in PanelKinds THEN Mount(left) ELSE left
    BY DEF Commit, Rendered
  <1>2. /\ DOMAIN bare = UiFields /\ bare.surface = u.surface /\ bare.question = u.question
        /\ bare.resuming = u.resuming /\ bare.rows = u.rows
    BY DEF Unmount, UiFields
  <1>3. Mounted(u) = was => bare = u
    OBVIOUS
  <1> HIDE DEF bare
  <1>4. /\ DOMAIN left = UiFields /\ left.surface = u.surface /\ left.question = u.question
        /\ left.resuming = u.resuming /\ left.rows = u.rows
        /\ left.panel = IF bare.panel.kind = u.surface THEN bare.panel ELSE NoPanel
        /\ u.resuming => left.resume = bare.resume
    BY <1>2 DEF Forget, UiFields
  <1> HIDE DEF left
  <1>5. Mounted(left) = Mounted(u)
    BY <1>4 DEF Mounted, TooSmall, ActiveDockedPanel
  <1>6. /\ PanelShape(ui'.panel) /\ ui'.theme \in Themes
        /\ Mounted(ui)' \in Panelled => ui'.panel.kind = Mounted(ui)'
    BY DEF Scene, PanelInv, TerminalInv, Consistent
  <1>7. CASE Mounted(u) = was
    <2>1. ui' = left /\ Mounted(ui)' = was
      BY <1>1, <1>5, <1>7
    <2>2. Shows(u, was)
      BY <1>7
    <2>3. was \in {"memory", "theme"} => left.panel = u.panel
      BY <1>3, <1>4, <1>6, <1>7, <2>1 DEF Panelled, NoPanel
    <2>4. was = "resume" => left.resume = u.resume
      BY <1>3, <1>4, <1>7 DEF Mounted, ActiveDockedPanel
    <2> QED BY <1>4, <2>1, <2>2, <2>3, <2>4 DEF Shows
  <1>8. CASE Mounted(u) # was /\ Mounted(u) \in PanelKinds
    <2>1. ui' = Mount(left)
      BY <1>1, <1>8
    <2>2. /\ ui'.surface = u.surface /\ ui'.question = u.question
          /\ ui'.resuming = u.resuming /\ ui'.rows = u.rows
      BY <1>4, <2>1 DEF Mount, UiFields
    <2>3. Mounted(ui)' = Mounted(u)
      BY <2>2 DEF Mounted, TooSmall, ActiveDockedPanel
    <2>4. Shows(Mount(left), Mounted(u))
      BY <1>4, <1>5, <1>6, <1>8, <2>1, <2>3, MountShows DEF Panelled
    <2>5. Shows(ui', Mounted(ui)')
      BY <2>1, <2>3, <2>4
    <2> QED BY <2>2, <2>5 DEF Shows
  <1>9. CASE Mounted(u) # was /\ Mounted(u) \notin PanelKinds
    <2>1. ui' = left /\ Mounted(ui)' = Mounted(u)
      BY <1>1, <1>5, <1>9
    <2> QED BY <1>4, <1>9, <2>1 DEF Shows, PanelKinds
  <1> QED BY <1>7, <1>8, <1>9

-----------------------------------------------------------------------------
(* What a step may make of the terminal *)

\* A terminal that shows what the one before shows, or as well.
Fine(u) == DOMAIN u = UiFields /\ u.rows \in Nat /\ Shows(u, Mounted(ui))

Seen == Shows(ui, Mounted(ui))' /\ ui'.rows \in Nat

LEMMA FineSelf ==
  ASSUME Scene
  PROVE  Fine(ui)
  BY PanelIs DEF Scene, ViewInv, Fine

LEMMA FineCommit ==
  ASSUME Scene, NEW u, Fine(u)
  PROVE  /\ \A pending : Commit(u, pending) => Seen
         /\ Press(u) => Seen
         /\ \A i, more : Then(i, u, more) => Seen
         /\ \A i : Done(i, u) => Seen
  <1>1. \A pending : Commit(u, pending) => Seen
    BY CommitShows DEF Fine, Seen
  <1> QED BY <1>1 DEF Press, Then, Done

\* What else may change.
Beside == {"surface", "resuming", "question", "opening", "known", "target", "back", "theme",
           "chosen", "mount", "sent"}

LEMMA FineBeside ==
  ASSUME NEW u, Fine(u), NEW v, DOMAIN v = UiFields, \A f \in UiFields \ Beside : v[f] = u[f]
  PROVE  Fine(v)
  <1>1. v.rows = u.rows /\ v.panel = u.panel /\ v.resume = u.resume
    BY DEF UiFields, Beside
  <1> QED BY <1>1, SameShows DEF Fine

LEMMA FineFrames ==
  ASSUME NEW u, Fine(u)
  PROVE  /\ Fine(Sent(u)) /\ Fine(CloseActiveSurface(u)) /\ Fine(AppEsc(u))
         /\ Fine(OpenHelpSurface(u)) /\ Fine(OpenModelSurface(u)) /\ Fine(OpenThemeSurface(u))
         /\ \A target, back : Fine(OpenConnectSurface(u, target, back))
         /\ Fine(CloseResumePanel(u)) /\ Fine(CloseUserQuestion(u))
         /\ \A kind : Fine(OpenUserQuestion(u, kind))
         /\ \A n : Fine([u EXCEPT !.question.index = n])
         /\ \A theme : Fine([u EXCEPT !.theme = theme])
         /\ \A known, target : Fine([u EXCEPT !.known = known, !.target = target])
         /\ \A theme, chosen : Fine([u EXCEPT !.theme = theme, !.chosen = chosen])
  <1>1. DOMAIN u = UiFields
    BY DEF Fine
  <1>2. Fine(Sent(u)) /\ Fine(CloseActiveSurface(u))
    <2>1. /\ DOMAIN Sent(u) = UiFields /\ DOMAIN CloseActiveSurface(u) = UiFields
          /\ \A f \in UiFields \ Beside : Sent(u)[f] = u[f] /\ CloseActiveSurface(u)[f] = u[f]
      BY <1>1 DEF Sent, CloseActiveSurface, UiFields, Beside
    <2> QED BY <2>1, FineBeside
  <1>3. Fine(AppEsc(u))
    BY <1>2 DEF AppEsc
  <1>4. \A k : Fine([u EXCEPT !.surface = k]) /\ Fine([u EXCEPT !.resuming = k])
                /\ Fine([u EXCEPT !.question = k]) /\ Fine([u EXCEPT !.question.index = k])
                /\ Fine([u EXCEPT !.theme = k])
    <2> SUFFICES ASSUME NEW k
                 PROVE  /\ Fine([u EXCEPT !.surface = k]) /\ Fine([u EXCEPT !.resuming = k])
                        /\ Fine([u EXCEPT !.question = k]) /\ Fine([u EXCEPT !.question.index = k])
                        /\ Fine([u EXCEPT !.theme = k])
      OBVIOUS
    <2>1. \A f \in UiFields \ Beside :
            /\ [u EXCEPT !.surface = k][f] = u[f] /\ [u EXCEPT !.resuming = k][f] = u[f]
            /\ [u EXCEPT !.question = k][f] = u[f] /\ [u EXCEPT !.question.index = k][f] = u[f]
            /\ [u EXCEPT !.theme = k][f] = u[f]
      BY <1>1 DEF UiFields, Beside
    <2>2. /\ DOMAIN [u EXCEPT !.surface = k] = UiFields /\ DOMAIN [u EXCEPT !.resuming = k] = UiFields
          /\ DOMAIN [u EXCEPT !.question = k] = UiFields
          /\ DOMAIN [u EXCEPT !.question.index = k] = UiFields
          /\ DOMAIN [u EXCEPT !.theme = k] = UiFields
      BY <1>1
    <2> QED BY <2>1, <2>2, FineBeside
  <1>5. \A a, b :
          /\ Fine(OpenConnectSurface(u, a, b))
          /\ Fine([u EXCEPT !.known = a, !.target = b]) /\ Fine([u EXCEPT !.theme = a, !.chosen = b])
    <2> SUFFICES ASSUME NEW a, NEW b
                 PROVE  /\ Fine(OpenConnectSurface(u, a, b)) /\ Fine([u EXCEPT !.known = a, !.target = b])
                        /\ Fine([u EXCEPT !.theme = a, !.chosen = b])
      OBVIOUS
    <2>1. \A f \in UiFields \ Beside :
            /\ OpenConnectSurface(u, a, b)[f] = u[f]
            /\ [u EXCEPT !.known = a, !.target = b][f] = u[f]
            /\ [u EXCEPT !.theme = a, !.chosen = b][f] = u[f]
      BY <1>1 DEF UiFields, Beside, OpenConnectSurface
    <2>2. /\ DOMAIN OpenConnectSurface(u, a, b) = UiFields
          /\ DOMAIN [u EXCEPT !.known = a, !.target = b] = UiFields
          /\ DOMAIN [u EXCEPT !.theme = a, !.chosen = b] = UiFields
      BY <1>1 DEF OpenConnectSurface
    <2> QED BY <2>1, <2>2, FineBeside
  <1> QED BY <1>2, <1>3, <1>4, <1>5
          DEF OpenHelpSurface, OpenModelSurface, OpenThemeSurface, CloseResumePanel,
              CloseUserQuestion, OpenUserQuestion

LEMMA FinePanel ==
  ASSUME NEW u, Fine(u), NEW p,
         Mounted(ui) = "memory" => MemoryShows(p, u.rows),
         Mounted(ui) = "theme" => ThemeShows(p, u.rows)
  PROVE  Fine([u EXCEPT !.panel = p])
  <1>1. DOMAIN u = UiFields
    BY DEF Fine
  <1>2. /\ DOMAIN [u EXCEPT !.panel = p] = UiFields /\ [u EXCEPT !.panel = p].panel = p
        /\ [u EXCEPT !.panel = p].rows = u.rows /\ [u EXCEPT !.panel = p].resume = u.resume
    BY <1>1 DEF UiFields
  <1> QED BY <1>2 DEF Fine, Shows

LEMMA FineResume ==
  ASSUME NEW u, Fine(u), NEW r, Mounted(ui) = "resume" => ResumeShows(r, u.rows)
  PROVE  Fine([u EXCEPT !.resume = r])
  <1>1. DOMAIN u = UiFields
    BY DEF Fine
  <1>2. /\ DOMAIN [u EXCEPT !.resume = r] = UiFields /\ [u EXCEPT !.resume = r].panel = u.panel
        /\ [u EXCEPT !.resume = r].rows = u.rows /\ [u EXCEPT !.resume = r].resume = r
    BY <1>1 DEF UiFields
  <1> QED BY <1>2 DEF Fine, Shows

\* The panel mounted is the one whose state is kept.
LEMMA MountedKind ==
  ASSUME Scene
  PROVE  \A k \in {"memory", "theme", "model", "connect"} : Mounted(ui) = k => ui.panel.kind = k
  BY DEF Scene, PanelInv, TerminalInv, Panelled

\* An answer to a panel that is there, or no longer.
LEMMA FineWith ==
  ASSUME Scene, NEW u, Fine(u), u.panel.kind = ui.panel.kind, NEW kind, NEW p,
         Mounted(ui) = "memory" /\ kind = "memory" => MemoryShows(p, u.rows),
         Mounted(ui) = "theme" /\ kind = "theme" => ThemeShows(p, u.rows)
  PROVE  Fine(With(u, kind, p))
  <1>1. CASE u.panel.kind = kind
    <2>1. With(u, kind, p) = [u EXCEPT !.panel = p]
      BY <1>1 DEF With
    <2>2. /\ Mounted(ui) = "memory" => MemoryShows(p, u.rows)
          /\ Mounted(ui) = "theme" => ThemeShows(p, u.rows)
      BY <1>1, MountedKind
    <2> QED BY <2>1, <2>2, FinePanel
  <1>2. CASE u.panel.kind # kind
    BY <1>2 DEF With
  <1> QED BY <1>1, <1>2

-----------------------------------------------------------------------------
(* The operators of the three panels *)

AMemory(m) == m.kind = "memory" /\ PanelShape(m)

\* A list that is not touched shows what it did.
SameMemory(m, n) ==
  /\ n.items = m.items /\ n.inbox = m.inbox /\ n.highlight = m.highlight /\ n.offset = m.offset
  /\ n.mode = m.mode /\ n.resized = m.resized

LEMMA SameMemoryShows ==
  ASSUME NEW m, NEW n, NEW rows, MemoryShows(m, rows), SameMemory(m, n)
  PROVE  MemoryShows(n, rows)
  BY DEF MemoryShows, SameMemory, CurrentListLength, DrawnOffset

\* A list put back to its top shows it.
LEMMA TopMemoryShows ==
  ASSUME NEW m, NEW rows \in Nat, m.items \in Nat, m.inbox \in Nat, m.highlight = 0, m.offset = 0
  PROVE  MemoryShows(m, rows)
  <1>1. CurrentListLength(m) \in Nat
    BY DEF CurrentListLength
  <1>2. MemoryRows(rows) \in Nat \ {0}
    BY RowsThere
  <1> QED BY <1>1, <1>2, TopShows DEF MemoryShows, DrawnOffset

LEMMA MemoryAsides ==
  ASSUME NEW m, AMemory(m)
  PROVE  /\ SameMemory(m, SetMemoryFailure(m)) /\ SameMemory(m, SetMemoryBusy(m))
         /\ \A delta, v : SameMemory(m, ScrollMemoryDetail(m, delta, v))
         /\ \A lines, by : SameMemory(m, SetMemoryDetail(m, lines, by))
         /\ \A by : SameMemory(m, OpenEditMemoryForm(m, by))
         /\ SameMemory(m, CloseMemoryForm(m)) /\ SameMemory(m, SetFormField(m))
         /\ \A item : SameMemory(m, SetForgetConfirm(m, item))
         /\ \A item : SameMemory(m, SetForgetConfirm(SetMemoryBusy(m), item))
         /\ \A blank : SameMemory(m, SetFormTitle(m, blank))
         /\ SameMemory(m, SetFormBody(m)) /\ \A error : SameMemory(m, SetFormError(m, error))
         /\ SameMemory(m, SubmitFailed(m))
  BY DEF AMemory, PanelShape, SameMemory, SetMemoryFailure, SetMemoryBusy, ScrollMemoryDetail,
         SetMemoryDetail, OpenEditMemoryForm, CloseMemoryForm, SetFormField, SetForgetConfirm,
         SetFormTitle, SetFormBody, SetFormError, SubmitFailed

LEMMA MemoryTops ==
  ASSUME NEW m, AMemory(m), NEW rows \in Nat
  PROVE  /\ MemoryShows(ResetMemoryData(m), rows)
         /\ \A items \in Nat, inbox \in Nat : MemoryShows(SetMemoryData(m, items, inbox), rows)
         /\ m.items \in Nat /\ m.inbox \in Nat =>
              /\ MemoryShows(SwitchMemoryMode(m), rows)
              /\ \A pick : MemoryShows(SetPendingItemAction(m, pick), rows)
  <1>1. LET n == ResetMemoryData(m)
        IN  n.items = 0 /\ n.inbox = 0 /\ n.highlight = 0 /\ n.offset = 0
    BY DEF AMemory, PanelShape, ResetMemoryData
  <1>2. \A items, inbox :
          LET n == SetMemoryData(m, items, inbox)
          IN  n.items = items /\ n.inbox = inbox /\ n.highlight = 0 /\ n.offset = 0
    BY DEF AMemory, PanelShape, SetMemoryData
  <1>3. LET n == SwitchMemoryMode(m)
        IN  n.items = m.items /\ n.inbox = m.inbox /\ n.highlight = 0 /\ n.offset = 0
    BY DEF AMemory, PanelShape, SwitchMemoryMode
  <1>4. \A pick : LET n == SetPendingItemAction(m, pick)
                  IN  n.items = m.items /\ n.inbox = m.inbox /\ n.highlight = 0 /\ n.offset = 0
    BY DEF AMemory, PanelShape, SetPendingItemAction
  <1> QED BY <1>1, <1>2, <1>3, <1>4, TopMemoryShows

LEMMA MoveMemoryShows ==
  ASSUME NEW m, AMemory(m), NEW rows \in Nat, MemoryShows(m, rows), NEW delta \in Int
  PROVE  MemoryShows(MoveMemoryHighlight(m, delta, MemoryRows(rows)), rows)
  <1> DEFINE n     == MoveMemoryHighlight(m, delta, MemoryRows(rows))
             total == CurrentListLength(m)
             next  == Clamp(m.highlight + delta, 0, total - 1)
             top   == ResolveWindowOffset(next, m.offset, MemoryRows(rows), total)
  <1>1. CASE total = 0 \/ m.status # "loaded"
    BY <1>1 DEF MoveMemoryHighlight
  <1>2. CASE ~(total = 0 \/ m.status # "loaded")
    <2>1. /\ n.items = m.items /\ n.inbox = m.inbox /\ n.mode = m.mode
          /\ n.highlight = next /\ n.offset = top
      BY <1>2 DEF MoveMemoryHighlight, AMemory, PanelShape
    <2>2. total \in Nat \ {0} /\ m.highlight \in Nat /\ m.offset \in Nat
      BY <1>2 DEF MemoryShows, CurrentListLength
    <2>3. CurrentListLength(n) = total
      BY <2>1 DEF CurrentListLength
    <2>4. MemoryRows(rows) \in Nat \ {0}
      BY RowsThere
    <2> HIDE DEF n, total
    <2>5. next \in 0..(total - 1)
      BY <2>2 DEF Clamp, AtMost, AtLeast
    <2> HIDE DEF next
    <2>6. /\ top \in Nat /\ InWindow(next, top, MemoryRows(rows))
          /\ AtMost(top, AtLeast(0, total - MemoryRows(rows))) = top
      BY <2>2, <2>4, <2>5, WindowFollows
    <2> HIDE DEF top
    <2>7. n.items \in Nat /\ n.inbox \in Nat /\ n.highlight \in Nat /\ n.highlight < total
      BY <2>1, <2>2, <2>5 DEF MemoryShows
    <2>8. MemoryShows(n, rows)
      BY <2>1, <2>3, <2>6, <2>7 DEF MemoryShows, DrawnOffset
    <2> QED BY <2>8 DEF n
  <1> QED BY <1>1, <1>2

LEMMA ThemeScrolls ==
  ASSUME NEW t, t.kind = "theme", PanelShape(t), NEW rows \in Nat, t.offset \in Nat
  PROVE  /\ ThemeShows(ScrollThemeHighlightIntoView(t, ThemeRows(rows)), rows)
         /\ \A delta \in Int : ThemeShows(MoveThemeHighlight(t, delta, ThemeRows(rows)), rows)
  <1>1. ASSUME NEW s, s.kind = "theme", PanelShape(s), s.offset \in Nat
        PROVE  ThemeShows(ScrollThemeHighlightIntoView(s, ThemeRows(rows)), rows)
    <2> DEFINE v   == ScrollThemeHighlightIntoView(s, ThemeRows(rows))
               top == ResolveWindowOffset(s.highlight, s.offset, ThemeRows(rows), Catalog)
    <2>1. v.highlight = s.highlight /\ v.offset = top
      BY <1>1 DEF ScrollThemeHighlightIntoView, PanelShape
    <2> HIDE DEF v
    <2>2. ThemeRows(rows) \in Nat \ {0} /\ Catalog \in Nat /\ s.highlight \in 0..(Catalog - 1)
      BY <1>1, RowsThere, ThemeAssumption DEF PanelShape
    <2>3. top \in Nat /\ InWindow(s.highlight, top, ThemeRows(rows))
      BY <1>1, <2>2, WindowFollows
    <2>4. ThemeShows(v, rows)
      BY <2>1, <2>2, <2>3 DEF ThemeShows
    <2> QED BY <2>4 DEF v
  <1>2. ASSUME NEW delta \in Int
        PROVE  LET s == [t EXCEPT !.highlight = Clamp(@ + delta, 0, Catalog - 1)]
               IN  s.kind = "theme" /\ PanelShape(s) /\ s.offset \in Nat
    <2>1. Clamp(t.highlight + delta, 0, Catalog - 1) \in 0..(Catalog - 1)
      BY ThemeAssumption DEF Clamp, AtMost, AtLeast, PanelShape
    <2> QED BY <2>1 DEF PanelShape
  <1>3. \A delta \in Int : ThemeShows(MoveThemeHighlight(t, delta, ThemeRows(rows)), rows)
    BY <1>1, <1>2 DEF MoveThemeHighlight
  <1> QED BY <1>1, <1>3

LEMMA ThemeAsides ==
  ASSUME NEW t, t.kind = "theme", PanelShape(t), NEW rows, ThemeShows(t, rows)
  PROVE  /\ \A theme : ThemeShows(ConfirmTheme(t, theme), rows)
         /\ ThemeShows([t EXCEPT !.warning = TRUE], rows)
  BY DEF ThemeShows, ConfirmTheme, PanelShape

LEMMA ResumeWriters ==
  ASSUME NEW r, NEW rows \in Nat, ResumeShows(r, rows)
  PROVE  /\ ResumeShows(SetResumeFailure(r), rows) /\ ResumeShows(SetResumeResuming(r), rows)
         /\ \A sessions \in Nat : ResumeShows(SetResumeRows(r, sessions), rows)
         /\ \A height : ResumeShows([r EXCEPT !.resized = TRUE], height)
         /\ \A delta \in Int : ResumeShows(MoveResumeHighlight(r, delta, ResumeRows(rows)), rows)
  <1>1. ResumeRows(rows) \in Nat \ {0}
    BY RowsThere
  <1>2. ResumeShows(SetResumeFailure(r), rows) /\ ResumeShows(SetResumeResuming(r), rows)
    BY DEF ResumeShows, SetResumeFailure, SetResumeResuming, HasHighlightedSession
  <1>3. \A sessions \in Nat : ResumeShows(SetResumeRows(r, sessions), rows)
    BY <1>1, TopShows DEF ResumeShows, SetResumeRows, HasHighlightedSession
  <1>4. \A height : ResumeShows([r EXCEPT !.resized = TRUE], height)
    BY DEF ResumeShows, HasHighlightedSession
  <1>5. ASSUME NEW delta \in Int
        PROVE  ResumeShows(MoveResumeHighlight(r, delta, ResumeRows(rows)), rows)
    <2> DEFINE n    == MoveResumeHighlight(r, delta, ResumeRows(rows))
               next == Clamp(r.highlight + delta, 0, r.sessions - 1)
               top  == ResolveWindowOffset(next, r.offset, ResumeRows(rows), r.sessions)
    <2>1. CASE r.sessions = 0 \/ r.status # "loaded"
      BY <2>1 DEF MoveResumeHighlight
    <2>2. CASE ~(r.sessions = 0 \/ r.status # "loaded")
      <3>1. DOMAIN n = DOMAIN r /\ n.sessions = r.sessions /\ n.highlight = next /\ n.offset = top
        BY <2>2 DEF MoveResumeHighlight, ResumeShows
      <3>2. r.sessions \in Nat \ {0} /\ r.highlight \in Nat /\ r.offset \in Nat
        BY <2>2 DEF ResumeShows
      <3> HIDE DEF n
      <3>3. next \in 0..(r.sessions - 1)
        BY <3>2 DEF Clamp, AtMost, AtLeast
      <3> HIDE DEF next
      <3>4. top \in Nat /\ InWindow(next, top, ResumeRows(rows))
        BY <1>1, <3>2, <3>3, WindowFollows
      <3>5. ResumeShows(n, rows)
        BY <3>1, <3>2, <3>3, <3>4 DEF ResumeShows, HasHighlightedSession
      <3> QED BY <3>5 DEF n
    <2> QED BY <2>1, <2>2
  <1> QED BY <1>2, <1>3, <1>4, <1>5

-----------------------------------------------------------------------------
(* The keys, and the lists *)

\* No list is in view.
Apart == Mounted(ui) \notin {"memory", "theme", "resume"}

LEMMA FineApart ==
  ASSUME Scene, Apart, NEW u, DOMAIN u = UiFields, u.rows = ui.rows
  PROVE  Fine(u)
  BY DEF Scene, ViewInv, Apart, Fine, Shows

LEMMA FineSend ==
  ASSUME Scene, NEW u, Fine(u), NEW call, Send(u, call)
  PROVE  Seen
  BY FineFrames, FineCommit DEF Send

LEMMA SeeExecuteCommand ==
  ASSUME Scene, ExecuteCommand
  PROVE  Seen
  <1>1. Fine(OpenResumePanel(ui))
    <2>1. DOMAIN ui = UiFields /\ Apart
      BY FineSelf DEF Fine, ExecuteCommand, Apart
    <2>2. DOMAIN OpenResumePanel(ui) = UiFields /\ OpenResumePanel(ui).rows = ui.rows
      BY <2>1 DEF OpenResumePanel, UiFields
    <2> QED BY <2>1, <2>2, FineApart
  <1> QED BY <1>1, FineSelf, FineFrames, FineCommit DEF ExecuteCommand

LEMMA SeeExecuteMemoryCommand ==
  ASSUME Scene, ExecuteMemoryCommand
  PROVE  Seen
  <1>1. DOMAIN ui = UiFields /\ Apart
    BY FineSelf DEF Fine, ExecuteMemoryCommand, Apart
  <1>2. PICK mode \in MemoryModes :
          LET opened == OpenMemory(ui, mode)
              with(panel) == [opened EXCEPT !.panel = panel]
          IN  \/ Press(opened)
              \/ Press(with(OpenAddMemoryForm(opened.panel)))
              \/ \E pick \in {"edit", "forget"} : Press(with(SetPendingItemAction(opened.panel, pick)))
    BY DEF ExecuteMemoryCommand
  <1> DEFINE opened == OpenMemory(ui, mode)
  <1>3. DOMAIN opened = UiFields /\ opened.rows = ui.rows
    BY <1>1 DEF OpenMemory, UiFields
  <1> HIDE DEF opened
  <1>4. \A p : DOMAIN [opened EXCEPT !.panel = p] = UiFields /\ [opened EXCEPT !.panel = p].rows = ui.rows
    BY <1>3 DEF UiFields
  <1>5. Fine(opened) /\ \A p : Fine([opened EXCEPT !.panel = p])
    BY <1>1, <1>3, <1>4, FineApart
  <1> QED BY <1>2, <1>5, FineCommit DEF opened

LEMMA SeeEsc ==
  ASSUME Scene, EscOutsidePanels \/ RerouteSubmit \/ MemoryBlockedEsc
  PROVE  Seen
  BY FineSelf, FineFrames, FineCommit DEF EscOutsidePanels, RerouteSubmit, MemoryBlockedEsc

\* A panel of a list that is in view is scrolled by the resize, or it is noted that it was not.
LEMMA SeeResize ==
  ASSUME Scene, Resize
  PROVE  Seen
  <1>1. PICK height \in Heights \ {ui.rows} :
        LET u    == [ui EXCEPT !.rows = height]
            stay == IF Mounted(u) = Mounted(ui) THEN Mounted(u) ELSE "none"
        IN  Press(CASE stay = "model" ->
                         [u EXCEPT !.panel = ScrollModelHighlightIntoView(@, ListRows(u, "model"))]
                    [] stay = "theme" ->
                         [u EXCEPT !.panel = ScrollThemeHighlightIntoView(@, ListRows(u, "theme"))]
                    [] stay = "memory" -> [u EXCEPT !.panel.resized = TRUE]
                    [] stay = "resume" -> [u EXCEPT !.resume.resized = TRUE]
                    [] OTHER -> u)
    BY ZenonT(60) DEF Resize
  <1> DEFINE u == [ui EXCEPT !.rows = height]
             toModel  == [u EXCEPT !.panel = ScrollModelHighlightIntoView(@, ListRows(u, "model"))]
             toTheme  == [u EXCEPT !.panel = ScrollThemeHighlightIntoView(@, ListRows(u, "theme"))]
             toMemory == [u EXCEPT !.panel.resized = TRUE]
             toResume == [u EXCEPT !.resume.resized = TRUE]
             stay == IF Mounted(u) = Mounted(ui) THEN Mounted(u) ELSE "none"
             next == CASE stay = "model"  -> toModel
                       [] stay = "theme"  -> toTheme
                       [] stay = "memory" -> toMemory
                       [] stay = "resume" -> toResume
                       [] OTHER -> u
  <1>2. DOMAIN ui = UiFields /\ Shows(ui, Mounted(ui)) /\ height \in Nat
    BY SizesAssumption, FineSelf DEF Fine
  <1>3. /\ DOMAIN u = UiFields /\ u.rows = height
        /\ \A f \in UiFields \ {"rows"} : u[f] = ui[f]
    BY <1>2 DEF UiFields
  <1>4. Press(next)
    BY <1>1
  <1> HIDE DEF u
  <1>5. u.panel = ui.panel /\ u.resume = ui.resume
    BY <1>3 DEF UiFields
  <1>6. /\ DOMAIN toModel = UiFields /\ DOMAIN toTheme = UiFields /\ DOMAIN toMemory = UiFields
        /\ DOMAIN toResume = UiFields
        /\ \A v \in {toModel, toTheme, toMemory, toResume} :
             v.rows = height /\ \A f \in UiFields \ {"panel", "resume"} : v[f] = u[f]
        /\ toTheme.panel = ScrollThemeHighlightIntoView(ui.panel, ThemeRows(height))
        /\ toMemory.panel = [ui.panel EXCEPT !.resized = TRUE]
        /\ toResume.resume = [ui.resume EXCEPT !.resized = TRUE]
    BY <1>3, <1>5, RowsOfLists DEF UiFields
  <1> HIDE DEF toModel, toTheme, toMemory, toResume, stay
  <1>7. \/ next \in {u, toModel} /\ stay \notin {"theme", "memory", "resume"}
        \/ stay = "theme" /\ next = toTheme
        \/ stay = "memory" /\ next = toMemory
        \/ stay = "resume" /\ next = toResume
    OBVIOUS
  <1> HIDE DEF next
  <1>8. DOMAIN next = UiFields /\ next.rows = height
        /\ \A f \in UiFields \ {"panel", "resume"} : next[f] = u[f]
    BY <1>3, <1>6, <1>7
  <1>9. Mounted(next) = Mounted(u)
    <2>1. next.surface = u.surface /\ next.question = u.question /\ next.resuming = u.resuming
          /\ next.rows = u.rows
      BY <1>3, <1>8 DEF UiFields
    <2> QED BY <2>1 DEF Mounted, TooSmall, ActiveDockedPanel
  <1>10. Mounted(next) = Mounted(ui) => Shows(next, Mounted(ui))
    <2> SUFFICES ASSUME Mounted(next) = Mounted(ui) PROVE Shows(next, Mounted(ui))
      OBVIOUS
    <2>1. stay = Mounted(ui)
      BY <1>9 DEF stay
    <2>2. CASE stay = "theme"
      <3>1. /\ ui.panel.kind = "theme" /\ PanelShape(ui.panel) /\ ui.panel.offset \in Nat
        BY <1>2, <2>1, <2>2, PanelIs, MountedKind DEF Scene, Shows, ThemeShows
      <3>2. ThemeShows(next.panel, height)
        BY <1>2, <1>6, <1>7, <2>2, <3>1, ThemeScrolls
      <3> QED BY <1>8, <2>1, <2>2, <3>2 DEF Shows
    <2>3. CASE stay = "memory"
      <3>1. ui.panel.kind = "memory" /\ PanelShape(ui.panel) /\ MemoryShows(ui.panel, ui.rows)
        BY <1>2, <2>1, <2>3, PanelIs, MountedKind DEF Scene, Shows
      <3>2. next.panel = [ui.panel EXCEPT !.resized = TRUE]
        BY <1>6, <1>7, <2>3
      <3>3. MemoryShows(next.panel, height)
        BY <3>1, <3>2 DEF MemoryShows, PanelShape
      <3> QED BY <1>8, <2>1, <2>3, <3>3 DEF Shows
    <2>4. CASE stay = "resume"
      <3>1. ResumeShows(ui.resume, ui.rows) /\ ui.rows \in Nat
        BY <1>2, <2>1, <2>4 DEF Shows, Scene, ViewInv
      <3>2. ResumeShows(next.resume, height)
        BY <1>6, <1>7, <2>4, <3>1, ResumeWriters
      <3> QED BY <1>8, <2>1, <2>4, <3>2 DEF Shows
    <2> QED BY <2>1, <2>2, <2>3, <2>4 DEF Shows
  <1>11. Commit(next, calls)
    BY <1>4 DEF Press
  <1> QED BY <1>2, <1>8, <1>10, <1>11, CommitShows DEF Seen

\* A key of /memory leaves its panel with p.
LEMMA SeeMemory ==
  ASSUME Scene, Mounted(ui) = "memory", NEW p, MemoryShows(p, ui.rows)
  PROVE  /\ Press(InPanel(p)) => Seen
         /\ \A call : Send(InPanel(p), call) => Seen
         /\ Press(AppEsc(InPanel(p))) => Seen
  <1>1. Fine(InPanel(p))
    BY FineSelf, FinePanel DEF InPanel
  <1> QED BY <1>1, FineFrames, FineCommit, FineSend

LEMMA MemoryHere ==
  ASSUME Scene, Mounted(ui) = "memory"
  PROVE  AMemory(ui.panel) /\ MemoryShows(ui.panel, ui.rows) /\ ui.rows \in Nat
  BY MountedKind, PanelIs DEF Scene, ViewInv, Shows, AMemory

LEMMA SeeMemoryList ==
  ASSUME Scene, MemoryListKey
  PROVE  Seen
  <1> DEFINE m == ui.panel
  <1>1. Mounted(ui) = "memory" /\ AMemory(m) /\ MemoryShows(m, ui.rows) /\ ui.rows \in Nat
    BY MemoryHere DEF MemoryListKey
  <1>2. ListRows(ui, "memory") = MemoryRows(ui.rows)
    BY RowsOfLists DEF MemoryListKey, SubStateActive, Memory
  <1>3. \A delta \in {-1, 1} : MemoryShows(MoveMemoryHighlight(m, delta, ListRows(ui, "memory")), ui.rows)
    BY <1>1, <1>2, MoveMemoryShows
  <1>4. /\ MemoryShows(SetPendingItemAction(m, "none"), ui.rows)
        /\ MemoryShows(SwitchMemoryMode(m), ui.rows) /\ MemoryShows(ResetMemoryData(m), ui.rows)
    BY <1>1, MemoryTops DEF MemoryShows
  <1>5. Press(AppEsc(ui)) => Seen
    BY FineSelf, FineFrames, FineCommit
  <1> QED BY <1>1, <1>3, <1>4, <1>5, SeeMemory DEF MemoryListKey, Memory

LEMMA SeeMemoryItem ==
  ASSUME Scene, MemoryItemKey \/ MemoryEntryKey
  PROVE  Seen
  <1>1. Mounted(ui) = "memory" /\ AMemory(ui.panel) /\ MemoryShows(ui.panel, ui.rows)
    BY MemoryHere DEF MemoryItemKey, MemoryEntryKey
  <1>2. /\ MemoryShows(SetForgetConfirm(ui.panel, HighlightedItem(ui.panel)), ui.rows)
        /\ MemoryShows(SetMemoryBusy(ui.panel), ui.rows)
    BY <1>1, MemoryAsides, SameMemoryShows
  <1>3. \A call : Send(ui, call) => Seen
    BY FineSelf, FineSend
  <1> QED BY <1>1, <1>2, <1>3, SeeMemory DEF MemoryItemKey, MemoryEntryKey, Memory

LEMMA SeeMemoryDetail ==
  ASSUME Scene, MemoryDetailKey \/ MemoryConfirmKey
  PROVE  Seen
  <1>1. Mounted(ui) = "memory" /\ AMemory(ui.panel) /\ MemoryShows(ui.panel, ui.rows)
    BY MemoryHere DEF MemoryDetailKey, MemoryConfirmKey
  <1>2. /\ \A delta, v : MemoryShows(ScrollMemoryDetail(ui.panel, delta, v), ui.rows)
        /\ MemoryShows(SetMemoryDetail(ui.panel, 0, 0), ui.rows)
        /\ MemoryShows(SetForgetConfirm(ui.panel, 0), ui.rows)
        /\ MemoryShows(SetForgetConfirm(SetMemoryBusy(ui.panel), 0), ui.rows)
    BY <1>1, MemoryAsides, SameMemoryShows
  <1>3. Press(AppEsc(ui)) => Seen
    BY FineSelf, FineFrames, FineCommit
  <1> QED BY <1>1, <1>2, <1>3, SeeMemory DEF MemoryDetailKey, MemoryConfirmKey, Memory

LEMMA SeeMemoryForm ==
  ASSUME Scene, MemoryFormKey
  PROVE  Seen
  <1>1. Mounted(ui) = "memory" /\ AMemory(ui.panel) /\ MemoryShows(ui.panel, ui.rows)
    BY MemoryHere DEF MemoryFormKey
  <1>2. /\ MemoryShows(CloseMemoryForm(ui.panel), ui.rows)
        /\ MemoryShows(SetFormField(ui.panel), ui.rows)
        /\ \A blank : MemoryShows(SetFormTitle(ui.panel, blank), ui.rows)
        /\ MemoryShows(SetFormBody(ui.panel), ui.rows)
        /\ MemoryShows(SetFormError(ui.panel, "title"), ui.rows)
    BY <1>1, MemoryAsides, SameMemoryShows
  <1>3. \A call : Send(ui, call) => Seen
    BY FineSelf, FineSend
  <1> QED BY <1>1, <1>2, <1>3, SeeMemory DEF MemoryFormKey, Memory

\* A key of a panel that is none of the three.
LEMMA SeeApart ==
  ASSUME Scene, Apart, NEW p
  PROVE  /\ Press(InPanel(p)) => Seen
         /\ \A call : Send(InPanel(p), call) => Seen
         /\ Press(AppEsc(InPanel(p))) => Seen
  <1>1. Fine(InPanel(p))
    BY FineSelf, FinePanel DEF InPanel, Apart
  <1> QED BY <1>1, FineFrames, FineCommit, FineSend

LEMMA SeeModel ==
  ASSUME Scene, ModelKey \/ InlineConnectKey
  PROVE  Seen
  <1>1. Apart
    BY DEF ModelKey, InlineConnectKey, Apart
  <1>2. /\ \A call : Send(ui, call) => Seen
        /\ Press(OpenConnectSurface(ui, Custom, TRUE)) => Seen
    BY FineSelf, FineFrames, FineCommit, FineSend
  <1>3. CASE InlineConnectKey
    BY <1>1, <1>3, SeeApart DEF InlineConnectKey
  <1>4. CASE ModelKey
    BY <1>1, <1>2, <1>4, SeeApart DEF ModelKey
  <1> QED BY <1>3, <1>4

LEMMA SeeConnect ==
  ASSUME Scene, ConnectKey \/ ConnectFieldKey \/ ConnectKeyField
  PROVE  Seen
  <1>1. Apart
    BY DEF ConnectKey, ConnectFieldKey, ConnectKeyField, Apart
  <1>2. (Press(OpenModelSurface(ui)) => Seen) /\ (Press(CloseActiveSurface(ui)) => Seen)
    BY FineSelf, FineFrames, FineCommit
  <1>3. CASE ConnectKey
    BY <1>1, <1>2, <1>3, SeeApart DEF ConnectKey
  <1>4. CASE ConnectFieldKey
    BY <1>1, <1>4, SeeApart DEF ConnectFieldKey
  <1>5. CASE ConnectKeyField
    BY <1>1, <1>5, SeeApart DEF ConnectKeyField
  <1> QED BY <1>3, <1>4, <1>5

LEMMA SeeTheme ==
  ASSUME Scene, ThemeKey
  PROVE  Seen
  <1> DEFINE t == ui.panel
             chosen == HighlightedTheme(t)
  <1>1. Mounted(ui) = "theme" /\ t.kind = "theme" /\ PanelShape(t) /\ ThemeShows(t, ui.rows)
        /\ ui.rows \in Nat /\ t.offset \in Nat
    BY MountedKind, PanelIs DEF Scene, ViewInv, Shows, ThemeKey, ThemeShows
  <1>2. ASSUME NEW p, ThemeShows(p, ui.rows) PROVE Fine(InPanel(p)) /\ Fine(Preview(ui, p))
    <2>1. Fine(InPanel(p))
      BY <1>1, <1>2, FineSelf, FinePanel DEF InPanel
    <2>2. Preview(ui, p) = [InPanel(p) EXCEPT !.theme = HighlightedTheme(p)]
      BY FineSelf DEF Preview, InPanel, Fine, UiFields
    <2> HIDE DEF t, chosen
    <2>3. \A theme : Fine([InPanel(p) EXCEPT !.theme = theme])
      BY <2>1, FineFrames
    <2>4. Fine([InPanel(p) EXCEPT !.theme = HighlightedTheme(p)])
      BY <2>3
    <2> QED BY <2>1, <2>2, <2>4
  <1>3. CASE \E delta \in {-1, 1} : Press(Preview(ui, MoveThemeHighlight(t, delta, ListRows(ui, "theme"))))
    <2>1. \A delta \in {-1, 1} : ThemeShows(MoveThemeHighlight(t, delta, ListRows(ui, "theme")), ui.rows)
      BY <1>1, RowsOfLists, ThemeScrolls
    <2> QED BY <1>2, <1>3, <2>1, FineCommit
  <1>4. CASE Press(AppEsc(ui))
    BY <1>4, FineSelf, FineFrames, FineCommit
  <1>5. CASE \E pending : Commit([Sent(InPanel(ConfirmTheme(t, chosen))) EXCEPT !.theme = chosen, !.chosen = chosen],
                                 pending)
    <2>1. Fine(InPanel(ConfirmTheme(t, chosen)))
      BY <1>1, <1>2, ThemeAsides
    <2> QED BY <1>5, <2>1, FineFrames, FineCommit
  <1> QED BY <1>3, <1>4, <1>5 DEF ThemeKey

\* The resume panel, whether it is in view or under a question.
LEMMA FineResuming ==
  ASSUME Scene, NEW u, Fine(u)
  PROVE  /\ Fine([u EXCEPT !.resume = SetResumeResuming(u.resume)])
         /\ Fine([u EXCEPT !.resume = SetResumeFailure(u.resume)])
         /\ \A sessions \in Nat : Fine([u EXCEPT !.resume = SetResumeRows(u.resume, sessions)])
  <1>1. u.rows \in Nat /\ (Mounted(ui) = "resume" => ResumeShows(u.resume, u.rows))
    BY DEF Fine, Shows
  <1> QED BY <1>1, ResumeWriters, FineResume

LEMMA SeeResuming ==
  ASSUME Scene, NEW u, Fine(u), NEW pending
  PROVE  (PerformResume(u, pending) => Seen) /\ (ConfirmWorkspaceOrResume(u, pending) => Seen)
  BY FineResuming, FineFrames, FineCommit DEF PerformResume, ConfirmWorkspaceOrResume

LEMMA SeeResume ==
  ASSUME Scene, ResumeKey
  PROVE  Seen
  <1>1. Fine(ui) /\ ResumeShows(ui.resume, ui.rows) /\ ui.rows \in Nat
    BY FineSelf DEF ResumeKey, Fine, Shows
  <1>2. CASE Press(AppEsc(CloseResumePanel(ui)))
    BY <1>1, <1>2, FineFrames, FineCommit
  <1>3. CASE \E delta \in {-1, 1} :
               Press([ui EXCEPT !.resume = MoveResumeHighlight(@, delta, ListRows(ui, "resume"))])
    <2>1. ListRows(ui, "resume") = ResumeRows(ui.rows)
      BY RowsOfLists
    <2>2. \A delta \in Int : ResumeShows(MoveResumeHighlight(ui.resume, delta, ResumeRows(ui.rows)), ui.rows)
      BY <1>1, ResumeWriters
    <2>3. \A delta \in {-1, 1} : delta \in Int
      OBVIOUS
    <2>4. \A delta \in {-1, 1} :
            ResumeShows(MoveResumeHighlight(ui.resume, delta, ListRows(ui, "resume")), ui.rows)
      BY <2>1, <2>2, <2>3
    <2> QED BY <1>1, <1>3, <2>4, FineResume, FineCommit
  <1>4. CASE Commit(Sent(OpenUserQuestion(ui, "stop")), calls)
    BY <1>1, <1>4, FineFrames, FineCommit
  <1>5. CASE ConfirmWorkspaceOrResume(Sent(ui), calls)
    BY <1>1, <1>5, FineFrames, SeeResuming
  <1> QED BY <1>2, <1>3, <1>4, <1>5 DEF ResumeKey

LEMMA SeeQuestion ==
  ASSUME Scene, QuestionKey
  PROVE  Seen
  <1> DEFINE u == CloseUserQuestion(ui)
  <1>1. Fine(ui) /\ Fine(u) /\ Fine(CloseResumePanel(u))
    BY FineSelf, FineFrames
  <1>2. CASE \E delta \in {-1, 1} : Commit([ui EXCEPT !.question.index = Clamp(@ + delta, 0, 1)], calls)
    BY <1>1, <1>2, FineFrames, FineCommit
  <1>3. CASE \E yes \in BOOLEAN : Choose(yes)
    <2> HIDE DEF u
    <2>1. \/ Commit([u EXCEPT !.resume = SetResumeResuming(@)], Append(calls, Call(u, "stop")))
          \/ Commit(u, calls) \/ PerformResume(u, calls) \/ Commit(CloseResumePanel(u), calls)
      BY <1>3 DEF Choose, u
    <2> QED BY <1>1, <2>1, FineResuming, SeeResuming, FineCommit
  <1> QED BY <1>2, <1>3 DEF QuestionKey

LEMMA SeeKey ==
  ASSUME Scene, Key
  PROVE  Seen
  BY SeeExecuteCommand, SeeExecuteMemoryCommand, SeeEsc, SeeResize, SeeMemoryList, SeeMemoryItem,
     SeeMemoryDetail, SeeMemoryForm, SeeModel, SeeConnect, SeeTheme, SeeResume, SeeQuestion
  DEF Key


-----------------------------------------------------------------------------
(* The answers, and the lists *)

LEMMA SeeMemoryAnswer ==
  ASSUME Scene, NEW p, Mounted(ui) = "memory" => MemoryShows(p, ui.rows)
  PROVE  /\ Fine(With(ui, "memory", p))
         /\ \A i : Done(i, With(ui, "memory", p)) => Seen
         /\ \A i, more : Then(i, With(ui, "memory", p), more) => Seen
  BY FineSelf, FineWith, FineCommit

\* An answer to /model or /connect changes none of the three lists.
LEMMA SeeOther ==
  ASSUME Scene, NEW kind \in {"model", "connect"}, NEW p
  PROVE  /\ Fine(With(ui, kind, p))
         /\ \A i : Done(i, With(ui, kind, p)) => Seen
         /\ \A i, more : Then(i, With(ui, kind, p), more) => Seen
         /\ \A pending : Commit(With(ui, kind, p), pending) => Seen
  BY FineSelf, FineWith, FineCommit

LEMMA SeeMemoryFailed ==
  ASSUME Scene, NEW i, MemoryFails(i) \/ MemoryFailed(i)
  PROVE  Seen
  <1>1. Mounted(ui) = "memory" => MemoryShows(SetMemoryFailure(ui.panel), ui.rows)
    BY MemoryHere, MemoryAsides, SameMemoryShows
  <1> QED BY <1>1, SeeMemoryAnswer DEF MemoryFailed, MemoryFails

LEMMA SeeList ==
  ASSUME Scene, NEW i, AnswerList(i)
  PROVE  Seen
  <1> DEFINE p == SetMemoryData(ui.panel, store.items, store.inbox)
  <1>1. Mounted(ui) = "memory" => MemoryShows(p, ui.rows)
    BY MemoryHere, MemoryTops DEF Scene, ViewInv
  <1>2. Done(i, With(ui, "memory", p)) \/ MemoryFailed(i)
    BY DEF AnswerList
  <1> HIDE DEF p
  <1> QED BY <1>1, <1>2, SeeMemoryAnswer, SeeMemoryFailed

LEMMA SeeShow ==
  ASSUME Scene, NEW i, AnswerShow(i)
  PROVE  Seen
  <1>1. CASE IsCurrentMemoryRequest(calls[i])
    <2>1. ui.panel.kind = "memory"
      BY <1>1, PanelIs DEF IsCurrentMemoryRequest, Scene
    <2>2. ASSUME NEW p, Mounted(ui) = "memory" => MemoryShows(p, ui.rows), Done(i, InPanel(p))
          PROVE  Seen
      <3>1. InPanel(p) = With(ui, "memory", p)
        BY <2>1 DEF InPanel, With
      <3> QED BY <2>2, <3>1, SeeMemoryAnswer
    <2>3. Mounted(ui) = "memory" =>
            /\ \A lines, by : MemoryShows(SetMemoryDetail(ui.panel, lines, by), ui.rows)
            /\ \A by : MemoryShows(OpenEditMemoryForm(ui.panel, by), ui.rows)
      BY MemoryHere, MemoryAsides, SameMemoryShows
    <2>4. \/ \E lines, by : Done(i, InPanel(SetMemoryDetail(ui.panel, lines, by)))
          \/ \E by : Done(i, InPanel(OpenEditMemoryForm(ui.panel, by)))
          \/ MemoryFailed(i)
      BY <1>1 DEF AnswerShow
    <2> QED BY <2>2, <2>3, <2>4, SeeMemoryFailed
  <1>2. CASE ~IsCurrentMemoryRequest(calls[i])
    BY <1>2, FineSelf, FineCommit DEF AnswerShow
  <1> QED BY <1>1, <1>2

\* A list that is read again is empty until then.
LEMMA SeeRefresh ==
  ASSUME Scene, NEW i, NEW u, Fine(u), u.panel.kind = ui.panel.kind, u.rows \in Nat,
         u.panel.kind = "memory" => AMemory(u.panel), RefreshMemory(i, u)
  PROVE  Seen
  <1> DEFINE p == ResetMemoryData(u.panel)
  <1>1. Mounted(ui) = "memory" => MemoryShows(p, u.rows)
    BY MountedKind, MemoryTops
  <1>2. \E more : Then(i, With(u, "memory", p), more)
    BY DEF RefreshMemory
  <1> HIDE DEF p
  <1>3. Fine(With(u, "memory", p))
    BY <1>1, FineWith
  <1> QED BY <1>2, <1>3, FineCommit

LEMMA SeeForm ==
  ASSUME Scene, NEW i, AnswerForm(i)
  PROVE  Seen
  <1> DEFINE closed == CloseMemoryForm(ui.panel)
             wrong  == SubmitFailed(ui.panel)
             u      == With(ui, "memory", closed)
  <1>1. Mounted(ui) = "memory" => MemoryShows(closed, ui.rows) /\ MemoryShows(wrong, ui.rows)
    BY MemoryHere, MemoryAsides, SameMemoryShows
  <1>2. Fine(u)
    BY <1>1, SeeMemoryAnswer
  <1>3. u.panel.kind = ui.panel.kind /\ (u.panel.kind = "memory" => AMemory(u.panel))
    <2>1. CASE ui.panel.kind = "memory"
      <3>1. u.panel = closed
        BY <2>1, FineSelf DEF With, Fine, UiFields
      <3>2. AMemory(ui.panel)
        BY <2>1, PanelIs DEF AMemory, Scene
      <3>3. AMemory(closed)
        BY <3>2 DEF AMemory, PanelShape, CloseMemoryForm, NoForm
      <3> QED BY <2>1, <3>1, <3>3 DEF AMemory
    <2>2. CASE ui.panel.kind # "memory"
      BY <2>2 DEF With
    <2> QED BY <2>1, <2>2
  <1>4. RefreshMemory(i, u) \/ Then(i, With(ui, "memory", wrong), <<>>)
    BY DEF AnswerForm
  <1> HIDE DEF wrong, closed, u
  <1> QED BY <1>1, <1>2, <1>3, <1>4, SeeMemoryAnswer, SeeRefresh DEF Fine

LEMMA SeeStored ==
  ASSUME Scene, NEW i, AnswerMutation(i)
  PROVE  Seen
  <1>1. ui.panel.kind = "memory" => AMemory(ui.panel)
    BY PanelIs DEF AMemory, Scene
  <1>2. RefreshMemory(i, ui) \/ MemoryFails(i)
    BY DEF AnswerMutation
  <1> QED BY <1>1, <1>2, FineSelf, SeeRefresh, SeeMemoryFailed DEF Fine

LEMMA SeeModelAnswer ==
  ASSUME Scene, NEW i, AnswerLoad(i) \/ AnswerModels(i) \/ AnswerSelect(i) \/ AnswerInlineKey(i)
  PROVE  Seen
  <1>1. /\ \A p : Done(i, With(ui, "model", p)) => Seen
        /\ \A p, more : Then(i, With(ui, "model", p), more) => Seen
        /\ \A p, pending : Commit(With(ui, "model", p), pending) => Seen
    BY SeeOther
  <1>2. \A p, more : Then(i, CloseActiveSurface(With(ui, "model", p)), more) => Seen
    BY SeeOther, FineFrames, FineCommit
  <1>3. (Done(i, ui) => Seen) /\ (Then(i, ui, <<>>) => Seen)
    BY FineSelf, FineCommit
  <1>4. CASE AnswerLoad(i)
    BY <1>1, <1>4 DEF AnswerLoad
  <1>5. CASE AnswerModels(i)
    BY <1>1, <1>3, <1>5 DEF AnswerModels, Loaded
  <1>6. CASE AnswerSelect(i)
    BY <1>2, <1>3, <1>6 DEF AnswerSelect
  <1>7. CASE AnswerInlineKey(i)
    BY <1>1, <1>7 DEF AnswerInlineKey
  <1> QED BY <1>4, <1>5, <1>6, <1>7

LEMMA SeeAfterProviders ==
  ASSUME Scene, NEW u, Fine(u), u.panel.kind = ui.panel.kind, NEW then
  PROVE  Fine(AfterProviders(u, then))
  <1>1. \A p : Fine(With(u, "connect", p))
    BY FineWith
  <1>2. \E p : AfterProviders(u, then) \in {With(u, "connect", p), OpenModelSurface(With(u, "connect", p))}
    BY DEF AfterProviders
  <1> QED BY <1>1, <1>2, FineFrames

LEMMA SeeProviders ==
  ASSUME Scene, NEW i, AnswerProviders(i)
  PROVE  Seen
  <1> DEFINE p      == SetConnectProviders(ui.panel, ProviderRows, ui.target)
             next   == With(ui, "connect", p)
             target == IF TargetIndex(ProviderRows, ui.target) >= 0 THEN None ELSE next.target
             read   == [next EXCEPT !.known = ProviderRows, !.target = target]
  <1>1. \E u \in {read, ui} : Done(i, AfterProviders(u, calls[i].then))
    BY DEF AnswerProviders
  <1>2. Fine(ui) /\ Fine(next)
    BY FineSelf, SeeOther
  <1>3. Fine(read)
    <2>1. \A known, aim : Fine([next EXCEPT !.known = known, !.target = aim])
      BY <1>2, FineFrames
    <2> HIDE DEF next, target
    <2> QED BY <2>1
  <1>4. read.panel.kind = ui.panel.kind
    <2>1. next.panel.kind = ui.panel.kind
      <3>1. ui.panel.kind = "connect" => p.kind = "connect"
        BY PanelIs, ConnectReads DEF GoodConnect, Scene, PanelInv
      <3> HIDE DEF p
      <3> QED BY <1>2, <3>1 DEF With, Fine, UiFields
    <2> HIDE DEF next, target
    <2>2. read.panel = next.panel
      BY <1>2 DEF Fine, UiFields
    <2> QED BY <2>1, <2>2
  <1> HIDE DEF read
  <1> QED BY <1>1, <1>2, <1>3, <1>4, SeeAfterProviders, FineCommit

LEMMA SeeConnectAnswer ==
  ASSUME Scene, NEW i, AnswerSetKey(i) \/ AnswerClear(i)
  PROVE  Seen
  <1>1. \A p, more : Then(i, With(ui, "connect", p), more) => Seen
    BY SeeOther
  <1>2. \A more : Then(i, ui, more) => Seen
    BY FineSelf, FineCommit
  <1> QED BY <1>1, <1>2 DEF AnswerSetKey, AnswerClear, ConnectFailed

LEMMA SeeSaveTheme ==
  ASSUME Scene, NEW i, AnswerSaveTheme(i)
  PROVE  Seen
  <1> DEFINE warned == [ui.panel EXCEPT !.warning = TRUE]
  <1>1. Mounted(ui) = "theme" => ThemeShows(warned, ui.rows)
    BY MountedKind, PanelIs, ThemeAsides DEF Scene, ViewInv, Shows
  <1>2. Done(i, CloseActiveSurface(ui)) \/ Done(i, With(ui, "theme", warned)) \/ Done(i, ui)
    BY DEF AnswerSaveTheme
  <1> HIDE DEF warned
  <1>3. Fine(With(ui, "theme", warned))
    BY <1>1, FineSelf, FineWith
  <1> QED BY <1>2, <1>3, FineSelf, FineFrames, FineCommit

LEMMA SeeResumeAnswer ==
  ASSUME Scene, NEW i, AnswerSessions(i) \/ AnswerStop(i) \/ AnswerResume(i)
  PROVE  Seen
  <1>1. Fine(ui)
    BY FineSelf
  <1>2. /\ Fine([ui EXCEPT !.resume = SetResumeFailure(@)])
        /\ Fine([ui EXCEPT !.resume = SetResumeRows(@, store.sessions)])
    BY <1>1, FineResuming DEF Scene, ViewInv
  <1>3. \A pending : ConfirmWorkspaceOrResume(ui, pending) => Seen
    BY <1>1, SeeResuming
  <1>4. /\ Done(i, [ui EXCEPT !.resume = SetResumeFailure(@)]) => Seen
        /\ Done(i, [ui EXCEPT !.resume = SetResumeRows(@, store.sessions)]) => Seen
        /\ Done(i, CloseResumePanel(ui)) => Seen
        /\ \A more : Then(i, ui, more) => Seen
    BY <1>1, <1>2, FineFrames, FineCommit
  <1> QED BY <1>3, <1>4 DEF AnswerSessions, AnswerStop, AnswerResume, ResumeFailed

LEMMA SeeAnswer ==
  ASSUME Scene, NEW i, Answer(i)
  PROVE  Seen
  BY SeeList, SeeShow, SeeForm, SeeStored, SeeModelAnswer, SeeProviders, SeeConnectAnswer,
     SeeSaveTheme, SeeResumeAnswer
  DEF Answer

-----------------------------------------------------------------------------
(* The backend's lists have lengths, and the invariant holds *)

Counts(st) == st.items \in Nat /\ st.inbox \in Nat /\ st.sessions \in Nat

LEMMA KeyUnstored ==
  ASSUME Key
  PROVE  store' = store
  <1>1. (\A u : Press(u) => store' = store) /\ (\A u, call : Send(u, call) => store' = store)
    BY DEF Press, Send
  <1>2. ExecuteCommand \/ ExecuteMemoryCommand \/ EscOutsidePanels \/ Resize \/ RerouteSubmit
          => store' = store
    BY <1>1, Zenon DEF ExecuteCommand, ExecuteMemoryCommand, EscOutsidePanels, Resize, RerouteSubmit
  <1>3. MemoryListKey \/ MemoryItemKey \/ MemoryEntryKey \/ MemoryDetailKey \/ MemoryConfirmKey
          \/ MemoryBlockedEsc \/ MemoryFormKey => store' = store
    BY <1>1, Zenon DEF MemoryListKey, MemoryItemKey, MemoryEntryKey, MemoryDetailKey, MemoryConfirmKey,
                MemoryBlockedEsc, MemoryFormKey
  <1>4. ModelKey \/ InlineConnectKey => store' = store
    BY <1>1 DEF ModelKey, InlineConnectKey
  <1>5. ConnectKey \/ ConnectFieldKey \/ ConnectKeyField => store' = store
    BY <1>1 DEF ConnectKey, ConnectFieldKey, ConnectKeyField
  <1>6. ThemeKey \/ ResumeKey \/ QuestionKey => store' = store
    BY <1>1 DEF ThemeKey, ResumeKey, QuestionKey
  <1> QED BY <1>2, <1>3, <1>4, <1>5, <1>6 DEF Key

LEMMA StoredCounts ==
  ASSUME StoreShape(store), Counts(store)
  PROVE  /\ \A n \in Nat : Counts([store EXCEPT !.items = n])
         /\ \A active : Counts([store EXCEPT !.active = active])
         /\ \A connected : Counts([store EXCEPT !.connected = connected])
  BY DEF Counts, StoreShape

\* What a mutation of the store of /memory may leave behind has lengths.
LEMMA MutatedCounts ==
  ASSUME StoreShape(store), Counts(store), NEW op, NEW st \in Mutated(op) \cup {store}
  PROVE  Counts(st)
  <1>1. /\ store.items \in Nat /\ store.items + 1 \in Nat
        /\ AtLeast(0, store.items - 1) \in Nat /\ AtMost(store.items + 1, MaxItems) \in Nat
    BY ItemsAssumption DEF Counts, AtMost, AtLeast
  <1>2. ItemsAfter(op) \subseteq {store.items, store.items + 1, AtLeast(0, store.items - 1),
                                 AtMost(store.items + 1, MaxItems)}
    BY DEF ItemsAfter
  <1>3. st = store \/ \E items \in ItemsAfter(op) : st = [store EXCEPT !.items = items]
    BY DEF Mutated
  <1>4. \A items \in ItemsAfter(op) : items \in Nat
    BY <1>1, <1>2
  <1> QED BY <1>3, <1>4, StoredCounts

LEMMA AnswerCounts ==
  ASSUME StoreShape(store), Counts(store), NEW i, Answer(i)
  PROVE  Counts(store')
  <1>1. /\ \A u : Done(i, u) => store' = store
        /\ MemoryFailed(i) \/ ResumeFailed(i) => store' = store
    BY DEF Done, MemoryFailed, ResumeFailed
  <1>2. ASSUME NEW p, Connected(p) \/ Refused(p) PROVE Counts(store')
    <2>1. Counts(Settings(p)) /\ StoreShape(Settings(p))
      BY DEF Counts, StoreShape, Settings
    <2>2. \A st \in Selections(p) : Counts(st) /\ StoreShape(st)
      BY <2>1 DEF Selections, Counts, StoreShape
    <2>3. \A st \in Connections(p) : Counts(st)
      BY <2>2 DEF Connections, Counts, StoreShape
    <2> QED BY <1>2, <2>1, <2>2, <2>3 DEF Connected, Refused
  <1>3. CASE AnswerForm(i) \/ AnswerMutation(i)
    <2>1. store' \in Mutated(calls[i].op) \cup {store}
      BY <1>3 DEF AnswerForm, AnswerMutation
    <2> QED BY <2>1, MutatedCounts
  <1>4. CASE AnswerSelect(i)
    <2>1. (\E active : store' = [store EXCEPT !.active = active]) \/ store' = store
      BY <1>4 DEF AnswerSelect
    <2> QED BY <2>1, StoredCounts
  <1>5. CASE AnswerInlineKey(i) \/ AnswerSetKey(i)
    <2>1. \E p : Connected(p) \/ Refused(p)
      BY <1>5 DEF AnswerInlineKey, AnswerSetKey
    <2> QED BY <1>2, <2>1
  <1>6. CASE AnswerClear(i)
    <2>1. (\E connected : store' = [store EXCEPT !.connected = connected]) \/ store' = store
      BY <1>6 DEF AnswerClear
    <2> QED BY <2>1, StoredCounts
  <1>7. CASE AnswerList(i) \/ AnswerShow(i) \/ AnswerLoad(i) \/ AnswerModels(i) \/ AnswerProviders(i)
             \/ AnswerSaveTheme(i) \/ AnswerSessions(i) \/ AnswerStop(i) \/ AnswerResume(i)
    <2>1. store' = store
      BY <1>1, <1>7 DEF AnswerList, AnswerShow, AnswerLoad, AnswerModels, Loaded, AnswerProviders,
                        AnswerSaveTheme, AnswerSessions, AnswerStop, AnswerResume
    <2> QED BY <2>1
  <1> QED BY <1>3, <1>4, <1>5, <1>6, <1>7 DEF Answer

LEMMA ViewStart ==
  ASSUME Init
  PROVE  ViewInv
  <1> PICK height \in Heights, connected \in ConnectedAtStart :
         /\ ui = [Start(height) EXCEPT !.sent = Cardinality(connected)]
         /\ store = [items |-> 1, inbox |-> 1, sessions |-> MaxSessions, active |-> NoSelection,
                     connected |-> connected, url |-> Custom \in connected]
    BY DEF Init
  <1>1. /\ ui.surface = "home" /\ ui.question = NoQuestion /\ ui.resuming = FALSE /\ ui.rows = height
    BY DEF Start
  <1>2. Mounted(ui) \in {"tooSmall", "home"}
    BY <1>1 DEF Mounted, ActiveDockedPanel, NoQuestion
  <1> QED BY <1>1, <1>2, SizesAssumption DEF ViewInv, Shows

LEMMA ViewStep ==
  ASSUME PanelInv, ViewInv, [Next]_vars
  PROVE  ViewInv'
  <1>1. CASE Next
    <2>1. Scene /\ StoreShape(store) /\ Counts(store)
      BY <1>1, PanelStep DEF Scene, PanelInv, ViewInv, Counts
    <2>2. Seen
      BY <1>1, <2>1, SeeKey, SeeAnswer DEF Next
    <2>3. Counts(store')
      BY <1>1, <2>1, KeyUnstored, AnswerCounts DEF Next
    <2> QED BY <2>2, <2>3 DEF Seen, Counts, ViewInv
  <1>2. CASE UNCHANGED vars
    BY <1>2 DEF ViewInv, Shows, Mounted, TooSmall, ActiveDockedPanel, vars
  <1> QED BY <1>1, <1>2

LEMMA ViewHolds == Spec => [](PanelInv /\ ViewInv)
  <1>1. Init => PanelInv /\ ViewInv
    BY PanelStart, ViewStart
  <1>2. (PanelInv /\ ViewInv) /\ [Next]_vars => (PanelInv /\ ViewInv)'
    BY PanelStep, ViewStep
  <1> QED BY <1>1, <1>2, PTL DEF Spec

(* The highlighted entry of the lists of /memory, /theme and /resume is drawn, for any heights   *)
(* of the terminal, any lengths of the lists and any order of keys, resizes and answers: every   *)
(* writer that moves the highlight windows the list again, or puts both back to the top           *)
(* (moveMemoryHighlightAtom, switchMemoryModeAtom, setMemoryDataAtom, moveThemeHighlightAtom,    *)
(* moveResumeHighlightAtom).                                                                     *)
THEOREM ListsShowHighlight == Spec => []ListsInView
  <1>1. PanelInv /\ ViewInv => ListsInView
    <2> SUFFICES ASSUME PanelInv, ViewInv PROVE ListsInView
      OBVIOUS
    <2>1. Shows(ui, Mounted(ui))
      BY DEF ViewInv
    <2>2. MemoryInView
      BY <2>1, RowsOfLists DEF MemoryInView, Shows, MemoryShows
    <2>3. ThemeInView
      BY <2>1, RowsOfLists DEF ThemeInView, Shows, ThemeShows
    <2>4. ResumeInView
      BY <2>1, RowsOfLists DEF ResumeInView, Shows, ResumeShows
    <2> QED BY <2>2, <2>3, <2>4 DEF ListsInView
  <1> QED BY <1>1, ViewHolds, PTL

-----------------------------------------------------------------------------
(* The rows of /model *)

ModelFields == {"kind", "listed", "loads", "active", "highlight", "offset", "inline", "inFlight",
                "outcome", "error"}

\* A list of models that was loaded has one.
Load == {l \in [status : LoadStatuses, models : Seq(ModelSet)] :
           l.status = "loaded" => l.models # <<>>}

ModelShape(m) ==
  /\ DOMAIN m = ModelFields /\ m.kind = "model"
  /\ m.loads \in [ProviderSet -> Load] /\ m.offset \in Nat

Row == [type : {"provider", "model", "status"}, provider : ProviderSet,
        model : ModelSet \cup {None}, status : LoadStatuses]

\* Below a header is a row that can be chosen.
Headed(rows) ==
  \A k \in 1..Len(rows) : ~Focusable(rows[k]) => k < Len(rows) /\ Focusable(rows[k + 1])

LEMMA Joined ==
  ASSUME NEW S, NEW a \in Seq(S), NEW b \in Seq(S)
  PROVE  /\ a \o b \in Seq(S) /\ Len(a \o b) = Len(a) + Len(b)
         /\ \A k \in 1..Len(a \o b) : (a \o b)[k] = IF k <= Len(a) THEN a[k] ELSE b[k - Len(a)]
  OBVIOUS

LEMMA GroupRows ==
  ASSUME NEW m, ModelShape(m), NEW p \in ProviderSet
  PROVE  GroupProviderModels(m, p) \in Seq(Row) /\ Headed(GroupProviderModels(m, p))
  <1> DEFINE load == m.loads[p]
             row(type, model) == [type |-> type, provider |-> p, model |-> model, status |-> load.status]
             head == <<row("provider", None)>>
             mid  == [i \in DOMAIN load.models |-> row("model", load.models[i])]
             tail == IF load.status = "loaded" THEN <<>> ELSE <<row("status", None)>>
             g    == (head \o mid) \o tail
  <1>1. GroupProviderModels(m, p) = g
    BY DEF GroupProviderModels
  <1>2. load.status \in LoadStatuses /\ load.models \in Seq(ModelSet)
        /\ (load.status = "loaded" => load.models # <<>>)
    BY DEF ModelShape, Load
  <1> HIDE DEF load
  <1>3. row("provider", None) \in Row /\ row("status", None) \in Row
        /\ \A model \in ModelSet : row("model", model) \in Row
    BY <1>2 DEF Row
  <1>4. /\ ~Focusable(row("provider", None)) /\ Focusable(row("status", None))
        /\ \A model : Focusable(row("model", model))
    BY DEF Focusable
  <1> HIDE DEF row
  <1>5. head \in Seq(Row) /\ Len(head) = 1 /\ head[1] = row("provider", None)
    BY <1>3
  <1>6. mid \in Seq(Row) /\ Len(mid) = Len(load.models) /\ \A i \in 1..Len(mid) : Focusable(mid[i])
    <2>1. DOMAIN load.models = 1..Len(load.models) /\ Len(load.models) \in Nat
          /\ \A i \in 1..Len(load.models) : load.models[i] \in ModelSet
      BY <1>2
    <2>2. mid = [i \in 1..Len(load.models) |-> mid[i]]
          /\ \A i \in 1..Len(load.models) : mid[i] \in Row /\ Focusable(mid[i])
      BY <1>3, <1>4, <2>1
    <2> HIDE DEF mid
    <2> QED BY <2>1, <2>2, SeqOfN
  <1>7. /\ tail \in Seq(Row) /\ Len(tail) \in {0, 1} /\ \A i \in 1..Len(tail) : Focusable(tail[i])
        /\ Len(mid) + Len(tail) >= 1
    <2>1. CASE load.status = "loaded"
      <3>1. tail = <<>> /\ Len(load.models) >= 1
        BY <1>2, <2>1
      <3> QED BY <1>6, <3>1
    <2>2. CASE load.status # "loaded"
      <3>1. tail = <<row("status", None)>>
        BY <2>2
      <3> QED BY <1>3, <1>4, <1>6, <3>1
    <2> QED BY <2>1, <2>2
  <1> HIDE DEF head, mid, tail
  <1>8. /\ g \in Seq(Row) /\ Len(g) = 1 + Len(mid) + Len(tail) /\ Len(g) >= 2
        /\ \A k \in 2..Len(g) : g[k] = IF k <= 1 + Len(mid) THEN mid[k - 1] ELSE tail[k - 1 - Len(mid)]
    <2> DEFINE a == head \o mid
    <2>1. a \in Seq(Row) /\ Len(a) = 1 + Len(mid) /\ \A k \in 2..Len(a) : a[k] = mid[k - 1]
      <3>1. head \in Seq(Row) /\ mid \in Seq(Row) /\ Len(head) = 1
        BY <1>5, <1>6
      <3>2. /\ a \in Seq(Row) /\ Len(a) = Len(head) + Len(mid)
            /\ \A k \in 1..Len(a) : a[k] = IF k <= Len(head) THEN head[k] ELSE mid[k - Len(head)]
        BY <3>1, Joined
      <3> HIDE DEF a
      <3> QED BY <3>1, <3>2
    <2> HIDE DEF a
    <2>2. /\ a \o tail \in Seq(Row) /\ Len(a \o tail) = Len(a) + Len(tail)
          /\ \A k \in 1..Len(a \o tail) : (a \o tail)[k] = IF k <= Len(a) THEN a[k] ELSE tail[k - Len(a)]
      BY <1>7, <2>1
    <2>3. Len(mid) \in Nat /\ Len(tail) \in Nat
      BY <1>6, <1>7
    <2>4. ASSUME NEW k \in 2..Len(a \o tail)
          PROVE  (a \o tail)[k] = IF k <= 1 + Len(mid) THEN mid[k - 1] ELSE tail[k - 1 - Len(mid)]
      <3>1. k \in 1..Len(a \o tail) /\ k - Len(a) = k - 1 - Len(mid)
        BY <2>1, <2>2, <2>3
      <3>2. k <= Len(a) => k \in 2..Len(a)
        BY <2>1, <2>3
      <3> QED BY <2>1, <2>2, <3>1, <3>2
    <2>5. g = a \o tail
      BY DEF a
    <2> QED BY <1>7, <2>1, <2>2, <2>3, <2>4, <2>5
  <1>9. \A k \in 2..Len(g) : Focusable(g[k])
    BY <1>6, <1>7, <1>8
  <1> HIDE DEF g
  <1>10. Headed(g)
    BY <1>8, <1>9 DEF Headed
  <1> QED BY <1>1, <1>8, <1>10

LEMMA HeadedBoth ==
  ASSUME NEW S, NEW a \in Seq(S), NEW b \in Seq(S), Headed(a), Headed(b)
  PROVE  Headed(a \o b)
  <1>1. /\ Len(a \o b) = Len(a) + Len(b) /\ Len(a) \in Nat /\ Len(b) \in Nat
        /\ \A k \in 1..Len(a) : (a \o b)[k] = a[k]
        /\ \A k \in 1..Len(b) : (a \o b)[k + Len(a)] = b[k]
    OBVIOUS
  <1> SUFFICES ASSUME NEW k \in 1..Len(a \o b), ~Focusable((a \o b)[k])
               PROVE  k < Len(a \o b) /\ Focusable((a \o b)[k + 1])
    BY DEF Headed
  <1>2. CASE k <= Len(a)
    <2>1. k \in 1..Len(a) /\ ~Focusable(a[k])
      BY <1>1, <1>2
    <2>2. k < Len(a) /\ Focusable(a[k + 1])
      BY <2>1 DEF Headed
    <2> QED BY <1>1, <2>1, <2>2
  <1>3. CASE k > Len(a)
    <2> DEFINE j == k - Len(a)
    <2>1. j \in 1..Len(b) /\ k = j + Len(a)
      BY <1>1, <1>3
    <2>2. ~Focusable(b[j])
      BY <1>1, <2>1
    <2>3. j < Len(b) /\ Focusable(b[j + 1]) /\ j + 1 \in 1..Len(b)
      BY <1>1, <2>1, <2>2 DEF Headed
    <2>4. (a \o b)[k + 1] = b[j + 1] /\ k < Len(a) + Len(b)
      BY <1>1, <2>1, <2>3
    <2> QED BY <1>1, <2>3, <2>4
  <1> QED BY <1>1, <1>2, <1>3

LEMMA ModelRowsAre ==
  ASSUME NEW m, ModelShape(m)
  PROVE  ModelRows(m) \in Seq(Row) /\ Headed(ModelRows(m))
  <1> DEFINE n  == Len(Providers)
             ss == [i \in DOMAIN Providers |-> GroupProviderModels(m, Providers[i])]
  <1>1. n \in Nat /\ DOMAIN Providers = 1..n /\ \A i \in 1..n : Providers[i] \in ProviderSet
    BY CatalogAssumption
  <1>2. ss \in Seq(Seq(Row)) /\ Len(ss) = n /\ \A i \in 1..n : Headed(ss[i])
    <2>1. ss = [i \in 1..n |-> ss[i]] /\ \A i \in 1..n : ss[i] \in Seq(Row) /\ Headed(ss[i])
      BY <1>1, GroupRows
    <2> HIDE DEF ss, n
    <2> QED BY <1>1, <2>1, SeqOfN
  <1>3. ModelRows(m) = IF m.listed THEN FlattenSeq(ss) ELSE <<>>
    BY DEF ModelRows
  <1> HIDE DEF ss
  <1>4. <<>> \in Seq(Row) /\ Headed(<<>>)
    BY DEF Headed
  <1>5. CASE n = 0
    <2>1. ss = <<>> /\ FlattenSeq(ss) = ss
      BY <1>2, <1>5 DEF FlattenSeq
    <2> QED BY <1>3, <1>4, <2>1
  <1>6. CASE n # 0
    <2>1. PICK flat \in [1..n -> Seq(Row)] :
           /\ FlattenSeq(ss) = flat[n] /\ flat[1] = ss[1]
           /\ \A i \in 2..n : flat[i] = flat[i - 1] \o ss[i]
      <3>1. \E flat \in [1..Len(ss) -> Seq(Row)] :
             /\ FlattenSeq(ss) = flat[Len(ss)] /\ flat[1] = ss[1]
             /\ \A i \in 2..Len(ss) : flat[i] = flat[i - 1] \o ss[i]
        <4>1. ss \in Seq(Seq(Row)) /\ Len(ss) # 0
          BY <1>2, <1>6
        <4> HIDE DEF n
        <4> QED BY <4>1, FlattenSteps
      <3> QED BY <1>2, <3>1, Zenon
    <2> HIDE DEF n
    <2> DEFINE T == {i \in 0..n : i = 0 \/ Headed(flat[i])}
    <2>2. ASSUME NEW i \in 1..n, i - 1 \in T PROVE i \in T
      <3>1. CASE i = 1
        BY <1>2, <2>1, <3>1
      <3>2. CASE i # 1
        <4>1. i - 1 \in 1..n /\ i \in 2..n /\ i - 1 # 0
          BY <1>1, <3>2
        <4>2. Headed(flat[i - 1]) /\ flat[i - 1] \in Seq(Row)
          BY <2>1, <2>2, <4>1
        <4>3. ss[i] \in Seq(Row) /\ Headed(ss[i])
          BY <1>2
        <4>4. Headed(flat[i - 1] \o ss[i])
          BY <4>2, <4>3, HeadedBoth
        <4>5. flat[i] = flat[i - 1] \o ss[i]
          BY <2>1, <4>1
        <4>6. Headed(flat[i]) /\ i \in 0..n
          BY <4>4, <4>5
        <4> QED BY <4>6
      <3> QED BY <3>1, <3>2
    <2>3. 0..n \subseteq T
      <3>1. 0 \in T
        BY <1>1
      <3> HIDE DEF T
      <3> QED BY <1>1, <2>2, <3>1, InductionUpTo
    <2>4. n \in 0..n /\ n \in 1..n
      BY <1>1, <1>6
    <2>5. Headed(flat[n]) /\ flat[n] \in Seq(Row)
      BY <1>6, <2>1, <2>3, <2>4
    <2> QED BY <1>3, <1>4, <2>1, <2>5
  <1> QED BY <1>5, <1>6

\* Where a row is: the first one with its identity.
LEMMA RowIndexIs ==
  ASSUME NEW rows \in Seq(Row), NEW id
  PROVE  /\ RowIndex(rows, id) \in -1..(Len(rows) - 1)
         /\ RowIndex(rows, id) >= 0 => IdentityEquals(rows[RowIndex(rows, id) + 1], id)
         /\ RowIndex(rows, id) < 0 => \A k \in 1..Len(rows) : ~IdentityEquals(rows[k], id)
  <1> DEFINE I == {k \in 1..Len(rows) : IdentityEquals(rows[k], id)}
  <1>1. RowIndex(rows, id) = (IF I # {} THEN Min(I) ELSE 0) - 1
    BY DEF RowIndex, SelectInSeq
  <1>2. Len(rows) \in Nat
    OBVIOUS
  <1>3. CASE I # {}
    <2>1. I \in SUBSET Nat
      OBVIOUS
    <2>2. Min(I) \in I
      <3> HIDE DEF I
      <3> QED BY <1>3, <2>1, MinIs
    <2>3. RowIndex(rows, id) = Min(I) - 1 /\ Min(I) \in 1..Len(rows)
      BY <1>1, <1>3, <2>2
    <2>4. RowIndex(rows, id) + 1 = Min(I)
      BY <2>3
    <2>5. IdentityEquals(rows[Min(I)], id)
      BY <2>2
    <2> HIDE DEF I
    <2> QED BY <1>2, <2>3, <2>4, <2>5
  <1>4. CASE I = {}
    BY <1>1, <1>2, <1>4
  <1> QED BY <1>3, <1>4

\* No row is the absent one's.
LEMMA NoRowOfNone ==
  ASSUME NEW rows \in Seq(Row)
  PROVE  RowIndex(rows, NoSelection) = -1
  <1>1. ASSUME NEW k \in 1..Len(rows) PROVE ~IdentityEquals(rows[k], NoSelection)
    <2>1. rows[k] \in Row
      OBVIOUS
    <2>2. rows[k].provider \in ProviderSet
      BY <2>1 DEF Row
    <2>3. RowIdentity(rows[k]).provider = rows[k].provider /\ NoSelection.provider = None
      BY DEF RowIdentity, NoSelection
    <2> QED BY <2>2, <2>3, CatalogAssumption DEF IdentityEquals
  <1>2. RowIndex(rows, NoSelection) \in -1..(Len(rows) - 1) /\ Len(rows) \in Nat
    BY RowIndexIs
  <1>3. ~(RowIndex(rows, NoSelection) >= 0)
    <2> SUFFICES ASSUME RowIndex(rows, NoSelection) >= 0 PROVE FALSE
      OBVIOUS
    <2>1. RowIndex(rows, NoSelection) + 1 \in 1..Len(rows)
      BY <1>2
    <2> QED BY <1>1, <2>1, RowIndexIs
  <1> QED BY <1>2, <1>3

\* The rows that can be chosen are those of the list.
LEMMA FocusableAre ==
  ASSUME NEW m, ModelShape(m)
  PROVE  /\ FocusableRows(m) \in Seq(Row)
         /\ \A i \in DOMAIN FocusableRows(m) :
              RowIndex(ModelRows(m), RowIdentity(FocusableRows(m)[i])) >= 0
         /\ \A id : RowIndex(FocusableRows(m), id) >= 0 <=> RowIndex(ModelRows(m), id) >= 0
         /\ FocusableRows(m) = <<>> <=> \A k \in 1..Len(ModelRows(m)) : ~Focusable(ModelRows(m)[k])
  <1> DEFINE R == ModelRows(m)
             K == {row \in ToSet(R) : Focusable(row)}
             F == Only(R, K)
  <1>1. R \in Seq(Row)
    BY ModelRowsAre
  <1>2. F = FocusableRows(m)
    BY DEF FocusableRows
  <1> HIDE DEF R
  <1>3. /\ F \in Seq(Row)
        /\ \A i \in DOMAIN F : F[i] \in K /\ \E j \in DOMAIN R : R[j] = F[i]
        /\ \A j \in DOMAIN R : R[j] \in K => \E i \in DOMAIN F : F[i] = R[j]
    <2> HIDE DEF K
    <2> QED BY <1>1, OnlyIs
  <1>4. \A j \in DOMAIN R : R[j] \in K <=> Focusable(R[j])
    BY DEF ToSet
  <1>5. \A i \in DOMAIN F : Focusable(F[i])
    BY <1>3
  <1> HIDE DEF F, K
  <1>6. DOMAIN F = 1..Len(F) /\ DOMAIN R = 1..Len(R) /\ Len(F) \in Nat /\ Len(R) \in Nat
    BY <1>1, <1>3
  <1>7. ASSUME NEW id, NEW a \in Seq(Row), NEW j \in DOMAIN a, IdentityEquals(a[j], id)
        PROVE  RowIndex(a, id) >= 0
    <2>1. j \in 1..Len(a) /\ Len(a) \in Nat
      BY <1>7
    <2>2. RowIndex(a, id) \in -1..(Len(a) - 1) /\ ~(RowIndex(a, id) < 0)
      BY <1>7, <2>1, RowIndexIs
    <2> QED BY <2>1, <2>2
  <1>8. ASSUME NEW i \in DOMAIN F PROVE RowIndex(R, RowIdentity(F[i])) >= 0
    <2>1. PICK j \in DOMAIN R : R[j] = F[i]
      BY <1>3
    <2>2. IdentityEquals(R[j], RowIdentity(F[i]))
      BY <1>5, <2>1 DEF IdentityEquals
    <2> QED BY <1>1, <1>7, <2>2
  <1>9. ASSUME NEW id PROVE RowIndex(F, id) >= 0 <=> RowIndex(R, id) >= 0
    <2>1. ASSUME RowIndex(F, id) >= 0 PROVE RowIndex(R, id) >= 0
      <3>1. RowIndex(F, id) + 1 \in DOMAIN F /\ IdentityEquals(F[RowIndex(F, id) + 1], id)
        <4>1. F \in Seq(Row)
          BY <1>3
        <4>2. RowIndex(F, id) \in -1..(Len(F) - 1) /\ IdentityEquals(F[RowIndex(F, id) + 1], id)
          BY <2>1, <4>1, RowIndexIs
        <4> QED BY <1>6, <2>1, <4>2
      <3>2. PICK j \in DOMAIN R : R[j] = F[RowIndex(F, id) + 1]
        BY <1>3, <3>1
      <3> QED BY <1>1, <1>7, <3>1, <3>2
    <2>2. ASSUME RowIndex(R, id) >= 0 PROVE RowIndex(F, id) >= 0
      <3>1. RowIndex(R, id) + 1 \in DOMAIN R /\ IdentityEquals(R[RowIndex(R, id) + 1], id)
        <4>1. RowIndex(R, id) \in -1..(Len(R) - 1) /\ IdentityEquals(R[RowIndex(R, id) + 1], id)
          BY <1>1, <2>2, RowIndexIs
        <4> QED BY <1>6, <2>2, <4>1
      <3>2. PICK i \in DOMAIN F : F[i] = R[RowIndex(R, id) + 1]
        BY <1>3, <1>4, <3>1 DEF IdentityEquals
      <3> QED BY <1>3, <1>7, <3>1, <3>2
    <2> QED BY <2>1, <2>2
  <1>10. F = <<>> <=> \A k \in 1..Len(R) : ~Focusable(R[k])
    <2>1. ASSUME F = <<>>, NEW k \in 1..Len(R), Focusable(R[k]) PROVE FALSE
      BY <1>3, <1>4, <1>6, <2>1
    <2>2. ASSUME F # <<>> PROVE \E k \in 1..Len(R) : Focusable(R[k])
      <3>1. 1 \in DOMAIN F
        BY <1>3, <1>6, <2>2
      <3> QED BY <1>3, <1>5, <1>6, <3>1
    <2> QED BY <2>1, <2>2
  <1> QED BY <1>2, <1>3, <1>8, <1>9, <1>10 DEF R

-----------------------------------------------------------------------------
(* The highlight of /model and its window of v rows *)

\* The highlighted row is in the window, or what it was comes back when its list has loaded.
Sees(m, v) ==
  /\ ModelShape(m)
  /\ RowIndex(ModelRows(m), m.highlight) >= 0
       => InWindow(RowIndex(ModelRows(m), m.highlight), m.offset, v)
  /\ RowIndex(ModelRows(m), m.highlight) < 0 /\ FocusableRows(m) # <<>>
       => m.loads[m.highlight.provider].status = "loading"

\* The rows are made of the lists.
LEMMA SameLoads ==
  ASSUME NEW m, NEW n, n.listed = m.listed, n.loads = m.loads
  PROVE  ModelRows(n) = ModelRows(m) /\ FocusableRows(n) = FocusableRows(m)
  <1>1. ModelRows(n) = ModelRows(m)
    BY DEF ModelRows, GroupProviderModels
  <1> QED BY <1>1 DEF FocusableRows

LEMMA SameSees ==
  ASSUME NEW m, NEW v, Sees(m, v), NEW n, DOMAIN n = ModelFields, n.kind = m.kind,
         n.listed = m.listed, n.loads = m.loads, n.highlight = m.highlight, n.offset = m.offset
  PROVE  Sees(n, v)
  <1>1. ModelRows(n) = ModelRows(m) /\ FocusableRows(n) = FocusableRows(m)
    BY SameLoads
  <1>2. ModelShape(n)
    BY DEF Sees, ModelShape
  <1> QED BY <1>1, <1>2 DEF Sees

\* A row that keeps its place on the screen is still in the window.
LEMMA AnchorKeeps ==
  ASSUME NEW total \in Nat, NEW v \in Nat \ {0}, NEW index \in 0..(total - 1), NEW visual \in 0..(v - 1)
  PROVE  LET offset == Clamp(index - visual, 0, AtLeast(0, total - v))
         IN  /\ offset \in Nat /\ InWindow(index, offset, v)
             /\ index - offset = visual \/ offset \in {0, total - v}
  BY DEF Clamp, AtMost, AtLeast, InWindow

LEMMA FollowSees ==
  ASSUME NEW m, ModelShape(m), NEW v \in Nat \ {0},
         RowIndex(ModelRows(m), m.highlight) >= 0
  PROVE  Sees(EnsureVisible(m, RowIndex(ModelRows(m), m.highlight), v), v)
  <1> DEFINE index == RowIndex(ModelRows(m), m.highlight)
             total == Len(ModelRows(m))
             next  == ResolveWindowOffset(index, m.offset, v, total)
             n     == EnsureVisible(m, index, v)
  <1>1. total \in Nat /\ index \in 0..(total - 1) /\ m.offset \in Nat
    BY ModelRowsAre, RowIndexIs DEF ModelShape
  <1>2. n = [m EXCEPT !.offset = next]
    BY <1>1 DEF EnsureVisible
  <1>3. next \in Nat /\ InWindow(index, next, v)
    <2> HIDE DEF index, total
    <2> QED BY <1>1, WindowFollows
  <1> HIDE DEF n, next
  <1>4. /\ DOMAIN n = ModelFields /\ n.offset = next /\ n.kind = m.kind /\ n.listed = m.listed
        /\ n.loads = m.loads /\ n.highlight = m.highlight
    BY <1>2 DEF ModelShape, ModelFields
  <1>5. ModelRows(n) = ModelRows(m) /\ FocusableRows(n) = FocusableRows(m)
    BY <1>4, SameLoads
  <1>6. ModelShape(n)
    BY <1>3, <1>4 DEF ModelShape
  <1>7. Sees(n, v)
    BY <1>1, <1>3, <1>4, <1>5, <1>6 DEF Sees
  <1> QED BY <1>7 DEF n

LEMMA EnsureSees ==
  ASSUME NEW m, ModelShape(m), NEW v \in Nat \ {0}, NEW visual \in -1..(v - 1)
  PROVE  Sees(EnsureHighlight(m, visual, v), v)
  <1> DEFINE h       == EnsureHighlight(m, visual, v)
             rows    == FocusableRows(m)
             present == m.highlight # NoSelection /\ RowIndex(rows, m.highlight) >= 0
             next    == IF present THEN m.highlight ELSE RowIdentity(rows[1])
             moved   == [m EXCEPT !.highlight = next]
             index   == RowIndex(ModelRows(m), next)
             total   == Len(ModelRows(m))
             back    == /\ ~present /\ m.highlight.model # None
                        /\ m.loads[m.highlight.provider].status = "loading"
             none    == [m EXCEPT !.highlight = NoSelection, !.offset = 0]
             offset  == Clamp(index - visual, 0, AtLeast(0, total - v))
  <1>1. h = IF rows = <<>> THEN none
            ELSE IF back THEN m
            ELSE IF visual >= 0 THEN [moved EXCEPT !.offset = offset]
            ELSE EnsureVisible(moved, index, v)
    BY DEF EnsureHighlight
  <1>2. rows \in Seq(Row) /\ ModelRows(m) \in Seq(Row) /\ total \in Nat
    BY FocusableAre, ModelRowsAre
  <1>3. CASE rows = <<>>
    <2>1. h = none
      BY <1>1, <1>3
    <2>2. /\ DOMAIN none = ModelFields /\ none.kind = m.kind /\ none.listed = m.listed
          /\ none.loads = m.loads /\ none.highlight = NoSelection /\ none.offset = 0
      BY DEF ModelShape, ModelFields
    <2> HIDE DEF none
    <2>3. ModelRows(none) = ModelRows(m) /\ FocusableRows(none) = rows
      BY <2>2, SameLoads
    <2>4. RowIndex(ModelRows(none), none.highlight) = -1
      BY <1>2, <2>2, <2>3, NoRowOfNone
    <2>5. ModelShape(none)
      BY <2>2 DEF ModelShape
    <2>6. Sees(none, v)
      BY <1>3, <2>3, <2>4, <2>5 DEF Sees
    <2> QED BY <2>1, <2>6
  <1>4. CASE rows # <<>> /\ back
    <2>1. h = m
      BY <1>1, <1>4
    <2>2. m.highlight # NoSelection
      BY <1>4 DEF NoSelection
    <2>3. ~(RowIndex(rows, m.highlight) >= 0)
      BY <1>4, <2>2
    <2>4. ~(RowIndex(ModelRows(m), m.highlight) >= 0)
      BY <2>3, FocusableAre
    <2>5. m.loads[m.highlight.provider].status = "loading"
      BY <1>4
    <2>6. Sees(m, v)
      BY <2>4, <2>5 DEF Sees
    <2> QED BY <2>1, <2>6
  <1>5. CASE rows # <<>> /\ ~back
    <2>1. index >= 0
      <3>1. CASE present
        BY <3>1, FocusableAre
      <3>2. CASE ~present
        <4>1. 1 \in DOMAIN rows
          BY <1>2, <1>5
        <4>2. RowIndex(ModelRows(m), RowIdentity(rows[1])) >= 0
          BY <4>1, FocusableAre
        <4> QED BY <3>2, <4>2
      <3> QED BY <3>1, <3>2
    <2>2. index \in 0..(total - 1)
      BY <1>2, <2>1, RowIndexIs
    <2> HIDE DEF present, back, next, none
    <2>3. /\ DOMAIN moved = ModelFields /\ moved.kind = m.kind /\ moved.listed = m.listed
          /\ moved.loads = m.loads /\ moved.highlight = next /\ moved.offset = m.offset
      BY DEF ModelShape, ModelFields
    <2>4. ModelRows(moved) = ModelRows(m) /\ FocusableRows(moved) = rows /\ ModelShape(moved)
      BY <2>3, SameLoads DEF ModelShape
    <2>5. CASE visual >= 0
      <3> DEFINE n == [moved EXCEPT !.offset = offset]
      <3>1. h = n
        BY <1>1, <1>5, <2>5
      <3>2. visual \in 0..(v - 1)
        BY <2>5
      <3>3. offset \in Nat /\ InWindow(index, offset, v)
        <4> HIDE DEF index, total
        <4> QED BY <1>2, <2>2, <3>2, AnchorKeeps
      <3> HIDE DEF moved, offset
      <3>4. /\ DOMAIN n = ModelFields /\ n.offset = offset /\ n.kind = moved.kind /\ n.listed = moved.listed
            /\ n.loads = moved.loads /\ n.highlight = moved.highlight
        BY <2>3 DEF ModelFields
      <3> HIDE DEF n
      <3>5. ModelRows(n) = ModelRows(moved) /\ FocusableRows(n) = FocusableRows(moved)
        BY <3>4, SameLoads
      <3>6. ModelShape(n)
        BY <2>4, <3>3, <3>4 DEF ModelShape
      <3>7. RowIndex(ModelRows(n), n.highlight) = index
        BY <2>3, <2>4, <3>4, <3>5
      <3> HIDE DEF index
      <3>8. Sees(n, v)
        BY <2>2, <3>3, <3>4, <3>6, <3>7 DEF Sees
      <3> QED BY <3>1, <3>8
    <2>6. CASE ~(visual >= 0)
      <3>1. h = EnsureVisible(moved, index, v)
        BY <1>1, <1>5, <2>6
      <3> HIDE DEF moved
      <3>2. RowIndex(ModelRows(moved), moved.highlight) = index
        BY <2>3, <2>4
      <3> HIDE DEF index
      <3>3. Sees(EnsureVisible(moved, RowIndex(ModelRows(moved), moved.highlight), v), v)
        BY <2>1, <2>4, <3>2, FollowSees
      <3> QED BY <3>1, <3>2, <3>3
    <2> QED BY <2>5, <2>6
  <1> QED BY <1>3, <1>4, <1>5

LEMMA VisualIs ==
  ASSUME NEW m, NEW v \in Nat \ {0}, Sees(m, v)
  PROVE  VisualRow(m) \in -1..(v - 1)
  <1> DEFINE index == RowIndex(ModelRows(m), m.highlight)
  <1>1. index \in -1..(Len(ModelRows(m)) - 1) /\ Len(ModelRows(m)) \in Nat /\ m.offset \in Nat
    BY ModelRowsAre, RowIndexIs DEF Sees, ModelShape
  <1>2. index >= 0 => InWindow(index, m.offset, v)
    BY DEF Sees
  <1>3. VisualRow(m) = IF index < 0 THEN -1 ELSE index - m.offset
    BY DEF VisualRow
  <1> HIDE DEF index
  <1> QED BY <1>1, <1>2, <1>3 DEF InWindow

\* What the panel's writers leave behind.
LEMMA LoadsSee ==
  ASSUME NEW m, NEW v \in Nat \ {0}, Sees(m, v)
  PROVE  /\ \A connected : Sees(SetModelProvidersLoading(m, connected, v), v)
         /\ \A selection : Sees(SetModelActiveSelection(m, selection, v), v)
         /\ \A p : \A load \in Load : Sees(SetProviderModelLoad(m, p, load, v), v)
  <1>1. ModelShape(m) /\ DOMAIN m = ModelFields
    BY DEF Sees, ModelShape
  <1>2. -1 \in -1..(v - 1)
    OBVIOUS
  <1>3. ASSUME NEW connected PROVE Sees(SetModelProvidersLoading(m, connected, v), v)
    <2> DEFINE load(p) == [status |-> IF p \in connected THEN "loading" ELSE "notConnected",
                           models |-> <<>>]
               loads   == [p \in ProviderSet |-> load(p)]
               n       == [m EXCEPT !.listed = TRUE, !.loads = loads]
    <2>1. \A p : load(p) \in Load
      <3>1. <<>> \in Seq(ModelSet)
        OBVIOUS
      <3> QED BY <3>1 DEF Load, LoadStatuses
    <2> HIDE DEF load
    <2>2. loads \in [ProviderSet -> Load]
      BY <2>1
    <2> HIDE DEF loads
    <2>3. /\ DOMAIN n = ModelFields /\ n.kind = m.kind /\ n.loads = loads /\ n.offset = m.offset
      BY <1>1 DEF ModelFields
    <2>4. ModelShape(n)
      BY <1>1, <2>2, <2>3 DEF ModelShape
    <2>5. SetModelProvidersLoading(m, connected, v) = EnsureHighlight(n, -1, v)
      BY DEF SetModelProvidersLoading, loads, load
    <2> HIDE DEF n
    <2> QED BY <1>2, <2>4, <2>5, EnsureSees
  <1>4. ASSUME NEW selection PROVE Sees(SetModelActiveSelection(m, selection, v), v)
    <2> DEFINE n == [m EXCEPT !.active = selection,
                              !.highlight = IF selection.provider # None /\ selection.model # None
                                            THEN selection ELSE @]
    <2>1. /\ DOMAIN n = ModelFields /\ n.kind = m.kind /\ n.loads = m.loads /\ n.offset = m.offset
      BY <1>1 DEF ModelFields
    <2>2. SetModelActiveSelection(m, selection, v) = EnsureHighlight(n, -1, v)
      BY DEF SetModelActiveSelection
    <2> HIDE DEF n
    <2>3. ModelShape(n)
      BY <1>1, <2>1 DEF ModelShape
    <2> QED BY <1>2, <2>2, <2>3, EnsureSees
  <1>5. ASSUME NEW p, NEW load \in Load PROVE Sees(SetProviderModelLoad(m, p, load, v), v)
    <2> DEFINE n == [m EXCEPT !.loads[p] = load]
    <2>1. /\ DOMAIN n = ModelFields /\ n.kind = m.kind /\ n.offset = m.offset
          /\ n.loads = [m.loads EXCEPT ![p] = load]
      BY <1>1 DEF ModelFields
    <2>2. SetProviderModelLoad(m, p, load, v) = EnsureHighlight(n, VisualRow(m), v)
      BY DEF SetProviderModelLoad
    <2> HIDE DEF n
    <2>3. n.loads \in [ProviderSet -> Load]
      BY <1>1, <2>1 DEF ModelShape
    <2>4. ModelShape(n)
      BY <1>1, <2>1, <2>3 DEF ModelShape
    <2> QED BY <2>2, <2>4, VisualIs, EnsureSees
  <1> QED BY <1>3, <1>4, <1>5

LEMMA MovesSee ==
  ASSUME NEW m, NEW v \in Nat \ {0}, Sees(m, v)
  PROVE  /\ \A delta \in Int : Sees(MoveModelHighlight(m, delta, v), v)
         /\ \A w \in Nat \ {0} : Sees(ScrollModelHighlightIntoView(m, w), w)
  <1>1. ModelShape(m) /\ DOMAIN m = ModelFields
    BY DEF Sees, ModelShape
  <1>2. ASSUME NEW delta \in Int PROVE Sees(MoveModelHighlight(m, delta, v), v)
    <2> DEFINE rows    == FocusableRows(m)
               current == AtLeast(0, RowIndex(rows, m.highlight))
               at      == Clamp(current + delta, 0, Len(rows) - 1) + 1
               next    == RowIdentity(rows[at])
               n       == [m EXCEPT !.highlight = next]
    <2>1. MoveModelHighlight(m, delta, v) =
            IF rows = <<>> THEN m ELSE EnsureVisible(n, RowIndex(ModelRows(m), next), v)
      BY DEF MoveModelHighlight
    <2>2. CASE rows = <<>>
      BY <2>1, <2>2
    <2>3. CASE rows # <<>>
      <3>1. rows \in Seq(Row) /\ Len(rows) \in Nat \ {0} /\ DOMAIN rows = 1..Len(rows)
        <4>1. rows \in Seq(Row)
          BY <1>1, FocusableAre
        <4> QED BY <2>3, <4>1
      <3>2. current \in Nat
        <4>1. RowIndex(rows, m.highlight) \in -1..(Len(rows) - 1)
          BY <3>1, RowIndexIs
        <4> HIDE DEF rows
        <4> QED BY <3>1, <4>1 DEF AtLeast
      <3>3. at \in DOMAIN rows
        <4> HIDE DEF rows, current
        <4> QED BY <3>1, <3>2 DEF Clamp, AtLeast, AtMost
      <3>4. RowIndex(ModelRows(m), next) >= 0
        <4> HIDE DEF at
        <4> QED BY <1>1, <3>3, FocusableAre
      <3> HIDE DEF next
      <3>5. /\ DOMAIN n = ModelFields /\ n.kind = m.kind /\ n.listed = m.listed /\ n.loads = m.loads
            /\ n.offset = m.offset /\ n.highlight = next
        BY <1>1 DEF ModelFields
      <3> HIDE DEF n
      <3>6. ModelRows(n) = ModelRows(m) /\ ModelShape(n)
        BY <1>1, <3>5, SameLoads DEF ModelShape
      <3>7. Sees(EnsureVisible(n, RowIndex(ModelRows(n), n.highlight), v), v)
        BY <3>4, <3>5, <3>6, FollowSees
      <3>8. MoveModelHighlight(m, delta, v) = EnsureVisible(n, RowIndex(ModelRows(n), n.highlight), v)
        BY <2>1, <2>3, <3>5, <3>6
      <3> QED BY <3>7, <3>8
    <2> QED BY <2>2, <2>3
  <1>3. ASSUME NEW w \in Nat \ {0} PROVE Sees(ScrollModelHighlightIntoView(m, w), w)
    <2> DEFINE index == RowIndex(ModelRows(m), m.highlight)
    <2>1. ScrollModelHighlightIntoView(m, w) = EnsureVisible(m, index, w)
      BY DEF ScrollModelHighlightIntoView
    <2>2. index \in Int
      BY <1>1, ModelRowsAre, RowIndexIs
    <2>3. CASE index >= 0
      BY <1>1, <2>1, <2>3, FollowSees
    <2>4. CASE index < 0
      <3>1. ScrollModelHighlightIntoView(m, w) = m
        BY <2>1, <2>4 DEF EnsureVisible
      <3>2. ~(index >= 0)
        BY <2>2, <2>4
      <3>3. Sees(m, w)
        BY <1>1, <2>4, <3>2 DEF Sees
      <3> QED BY <3>1, <3>3
    <2> HIDE DEF index
    <2> QED BY <2>2, <2>3, <2>4
  <1> QED BY <1>2, <1>3

LEMMA InlineSees ==
  ASSUME NEW m, NEW v, Sees(m, v)
  PROVE  /\ \A p : Sees(StartInlineConnect(m, p), v)
         /\ Sees(CancelInlineConnect(m), v) /\ Sees(SubmitInlineKey(m), v)
         /\ Sees([m EXCEPT !.inFlight = FALSE], v)
         /\ Sees([m EXCEPT !.outcome = "refused", !.inFlight = FALSE], v)
         /\ Sees([m EXCEPT !.error = TRUE, !.inFlight = FALSE], v)
  <1>1. DOMAIN m = ModelFields
    BY DEF Sees, ModelShape
  <1> DEFINE Still(n) == /\ DOMAIN n = ModelFields /\ n.kind = m.kind /\ n.listed = m.listed
                         /\ n.loads = m.loads /\ n.highlight = m.highlight /\ n.offset = m.offset
  <1>2. \A n : Still(n) => Sees(n, v)
    BY SameSees
  <1>3. /\ \A p : Still(StartInlineConnect(m, p))
        /\ Still(CancelInlineConnect(m)) /\ Still(SubmitInlineKey(m))
    BY <1>1 DEF StartInlineConnect, CancelInlineConnect, SubmitInlineKey, ModelFields
  <1>4. /\ Still([m EXCEPT !.inFlight = FALSE])
        /\ Still([m EXCEPT !.outcome = "refused", !.inFlight = FALSE])
        /\ Still([m EXCEPT !.error = TRUE, !.inFlight = FALSE])
    BY <1>1 DEF ModelFields
  <1> HIDE DEF Still
  <1> QED BY <1>2, <1>3, <1>4

LEMMA ResetSees ==
  ASSUME NEW v
  PROVE  Sees(ResetModelSurface, v)
  <1> DEFINE m == ResetModelSurface
  <1>1. NoLoad \in Load
    <2>1. <<>> \in Seq(ModelSet)
      OBVIOUS
    <2> QED BY <2>1 DEF NoLoad, Load, LoadStatuses
  <1>2. /\ DOMAIN m = ModelFields /\ m.kind = "model" /\ m.listed = FALSE /\ m.offset = 0
        /\ m.loads = [p \in ProviderSet |-> NoLoad]
    BY DEF ResetModelSurface, ModelFields
  <1>3. ModelShape(m)
    BY <1>1, <1>2 DEF ModelShape
  <1> HIDE DEF m
  <1>4. ModelRows(m) = <<>>
    BY <1>2 DEF ModelRows
  <1>5. FocusableRows(m) = <<>>
    BY <1>3, <1>4, FocusableAre
  <1>6. ~(RowIndex(ModelRows(m), m.highlight) >= 0)
    BY <1>3, <1>4, ModelRowsAre, RowIndexIs
  <1>7. Sees(m, v)
    BY <1>3, <1>5, <1>6 DEF Sees
  <1> QED BY <1>7 DEF m

-----------------------------------------------------------------------------
(* The list of /model from step to step *)

ModelSeen == Mounted(ui) = "model" => Sees(ui.panel, ThemeRows(ui.rows))

\* A terminal that /model stays in view of.
Stays(u) == Mounted(u) = "model" /\ Mounted(ui) = "model" => Sees(u.panel, ThemeRows(u.rows))

LEMMA RowsOfModel ==
  ASSUME NEW u
  PROVE  ListRows(u, "model") = ThemeRows(u.rows)
  BY DEF ListRows, DockedPanelRows, ThemeRows

LEMMA CommitSees ==
  ASSUME PanelInv', NEW u, NEW pending, Commit(u, pending), Stays(u)
  PROVE  ModelSeen'
  <1> DEFINE was  == Mounted(ui)
             bare == IF Mounted(u) # was THEN Unmount(u, was) ELSE u
             left == Forget(bare)
  <1>1. ui' = IF Mounted(u) # was /\ Mounted(u) \in PanelKinds THEN Mount(left) ELSE left
    BY DEF Commit, Rendered
  <1>2. DOMAIN bare = DOMAIN u
    BY DEF Unmount
  <1>3. DOMAIN left = DOMAIN bare
    BY DEF Forget
  <1>4. DOMAIN ui' = DOMAIN left
    <2> HIDE DEF left
    <2> QED BY <1>1 DEF Mount
  <1>5. DOMAIN u = UiFields /\ (Mounted(ui)' \in Panelled => ui'.panel.kind = Mounted(ui)')
    BY <1>2, <1>3, <1>4 DEF PanelInv, TerminalInv, Consistent
  <1>6. /\ bare.surface = u.surface /\ bare.question = u.question
        /\ bare.resuming = u.resuming /\ bare.rows = u.rows
    BY <1>5 DEF Unmount, UiFields
  <1>7. Mounted(u) = was => bare = u
    OBVIOUS
  <1> HIDE DEF bare
  <1>8. /\ DOMAIN left = UiFields /\ left.surface = u.surface /\ left.question = u.question
        /\ left.resuming = u.resuming /\ left.rows = u.rows
        /\ left.panel = IF bare.panel.kind = u.surface THEN bare.panel ELSE NoPanel
    BY <1>2, <1>5, <1>6 DEF Forget, UiFields
  <1> HIDE DEF left
  <1>9. Mounted(left) = Mounted(u)
    BY <1>8 DEF Mounted, TooSmall, ActiveDockedPanel
  <1>10. CASE Mounted(u) = was
    <2>1. ui' = left /\ Mounted(ui)' = was
      BY <1>1, <1>9, <1>10
    <2>2. was = "model" => left.panel = u.panel
      BY <1>5, <1>7, <1>8, <1>10, <2>1 DEF Panelled, NoPanel
    <2> QED BY <1>8, <1>10, <2>1, <2>2 DEF ModelSeen, Stays
  <1>11. CASE Mounted(u) # was /\ Mounted(u) \in PanelKinds
    <2>1. ui' = Mount(left)
      BY <1>1, <1>11
    <2>2. /\ ui'.surface = u.surface /\ ui'.question = u.question
          /\ ui'.resuming = u.resuming /\ ui'.rows = u.rows
          /\ Mounted(u) = "model" => ui'.panel = ResetModelSurface
      BY <1>8, <1>9, <2>1 DEF Mount, UiFields
    <2>3. Mounted(ui)' = Mounted(u)
      BY <2>2 DEF Mounted, TooSmall, ActiveDockedPanel
    <2> QED BY <2>2, <2>3, ResetSees DEF ModelSeen
  <1>12. CASE Mounted(u) # was /\ Mounted(u) \notin PanelKinds
    BY <1>1, <1>9, <1>12 DEF ModelSeen, PanelKinds
  <1> QED BY <1>10, <1>11, <1>12

Stage == PanelInv /\ PanelInv' /\ ViewInv /\ ModelSeen

\* A step that comes to a terminal that /model stays in view of.
LEMMA StagedSees ==
  ASSUME Stage, NEW u, Stays(u)
  PROVE  /\ \A pending : Commit(u, pending) => ModelSeen'
         /\ Press(u) => ModelSeen'
         /\ \A i, more : Then(i, u, more) => ModelSeen'
         /\ \A i : Done(i, u) => ModelSeen'
  <1>1. \A pending : Commit(u, pending) => ModelSeen'
    BY CommitSees DEF Stage
  <1> QED BY <1>1 DEF Press, Then, Done

\* The panel of /model is the one before.
Same(u) == Mounted(ui) = "model" => DOMAIN u = UiFields /\ u.panel = ui.panel /\ u.rows = ui.rows

LEMMA SameStays ==
  ASSUME Stage, NEW u, Same(u)
  PROVE  Stays(u)
  BY DEF Stage, ModelSeen, Same, Stays

LEMMA SameSelf ==
  ASSUME Stage
  PROVE  Same(ui)
  BY PanelIs DEF Stage, Same

LEMMA SameFrames ==
  ASSUME NEW u, Same(u)
  PROVE  /\ Same(Sent(u)) /\ Same(CloseActiveSurface(u)) /\ Same(OpenModelSurface(u))
         /\ \A target, back : Same(OpenConnectSurface(u, target, back))
         /\ Same(CloseResumePanel(u)) /\ \A kind : Same(OpenUserQuestion(u, kind))
         /\ \A r : Same([u EXCEPT !.resume = r])
         /\ \A known, target : Same([u EXCEPT !.known = known, !.target = target])
  BY DEF Same, UiFields, Sent, CloseActiveSurface, OpenModelSurface, OpenConnectSurface,
         CloseResumePanel, OpenUserQuestion

\* An answer to another panel than /model.
LEMMA SameWith ==
  ASSUME Stage, NEW u, Same(u), NEW kind, kind # "model", NEW p
  PROVE  Same(With(u, kind, p))
  <1> SUFFICES ASSUME Mounted(ui) = "model" PROVE With(u, kind, p) = u
    BY DEF Same
  <1>1. u.panel.kind = "model"
    BY PanelIs DEF Stage, Same, GoodModel
  <1> QED BY <1>1 DEF With

\* A step that leaves /model alone.
LEMMA AloneSees ==
  ASSUME Stage, NEW u, Same(u)
  PROVE  /\ \A pending : Commit(u, pending) => ModelSeen'
         /\ Press(u) => ModelSeen'
         /\ \A call : Send(u, call) => ModelSeen'
         /\ \A i, more : Then(i, u, more) => ModelSeen'
         /\ \A i : Done(i, u) => ModelSeen'
  <1>1. Stays(u) /\ Stays(Sent(u))
    BY SameStays, SameFrames
  <1> QED BY <1>1, StagedSees DEF Send

\* The panel of /model is replaced.
LEMMA PanelSees ==
  ASSUME Stage, Mounted(ui) = "model", NEW p, Sees(p, ThemeRows(ui.rows))
  PROVE  /\ Press(InPanel(p)) => ModelSeen'
         /\ \A call : Send(InPanel(p), call) => ModelSeen'
         /\ Press(AppEsc(InPanel(p))) => ModelSeen'
  <1>1. DOMAIN ui = UiFields
    BY PanelIs DEF Stage
  <1>2. /\ InPanel(p).panel = p /\ Sent(InPanel(p)).panel = p
        /\ InPanel(p).rows = ui.rows /\ Sent(InPanel(p)).rows = ui.rows
        /\ AppEsc(InPanel(p)).panel = p /\ AppEsc(InPanel(p)).rows = ui.rows
    BY <1>1 DEF InPanel, Sent, AppEsc, CloseActiveSurface, UiFields
  <1>3. Stays(InPanel(p)) /\ Stays(Sent(InPanel(p))) /\ Stays(AppEsc(InPanel(p)))
    BY <1>2 DEF Stays
  <1> QED BY <1>3, StagedSees DEF Send

\* Every step is rendered.
LEMMA KeyCommits ==
  ASSUME Key
  PROVE  \E u, pending : Commit(u, pending)
  <1> DEFINE Some == \E u, pending : Commit(u, pending)
  <1>1. /\ \A u : Press(u) => Some
        /\ \A u, call : Send(u, call) => Some
        /\ \A u, pending : Commit(u, pending) => Some
    BY Zenon DEF Press, Send
  <1>2. \A u, pending : ConfirmWorkspaceOrResume(u, pending) => Some
    BY <1>1, Zenon DEF ConfirmWorkspaceOrResume, PerformResume
  <1> HIDE DEF Some
  <1>3. ExecuteCommand \/ ExecuteMemoryCommand \/ EscOutsidePanels \/ Resize \/ RerouteSubmit => Some
    BY <1>1, Zenon DEF ExecuteCommand, ExecuteMemoryCommand, EscOutsidePanels, Resize, RerouteSubmit
  <1>4. MemoryListKey \/ MemoryItemKey \/ MemoryEntryKey \/ MemoryDetailKey \/ MemoryConfirmKey
          \/ MemoryBlockedEsc \/ MemoryFormKey => Some
    BY <1>1, Zenon DEF MemoryListKey, MemoryItemKey, MemoryEntryKey, MemoryDetailKey, MemoryConfirmKey,
                MemoryBlockedEsc, MemoryFormKey
  <1>5. ModelKey \/ InlineConnectKey => Some
    BY <1>1 DEF ModelKey, InlineConnectKey
  <1>6. ConnectKey \/ ConnectFieldKey \/ ConnectKeyField => Some
    BY <1>1 DEF ConnectKey, ConnectFieldKey, ConnectKeyField
  <1>7. ThemeKey \/ ResumeKey => Some
    BY <1>1, <1>2 DEF ThemeKey, ResumeKey
  <1>8. QuestionKey => Some
    BY <1>1 DEF QuestionKey, Choose, PerformResume
  <1>9. Some
    BY <1>3, <1>4, <1>5, <1>6, <1>7, <1>8 DEF Key
  <1> QED BY <1>9 DEF Some

\* The keys that /model leaves to others.
LEMMA KeysOfModel ==
  ASSUME Key, Mounted(ui) = "model"
  PROVE  Resize \/ RerouteSubmit \/ ModelKey \/ InlineConnectKey
  BY DEF Key, ExecuteCommand, ExecuteMemoryCommand, EscOutsidePanels, MemoryListKey, MemoryItemKey,
         MemoryEntryKey, MemoryDetailKey, MemoryConfirmKey, MemoryBlockedEsc, MemoryFormKey,
         ConnectKey, ConnectFieldKey, ConnectKeyField, ThemeKey, ResumeKey, QuestionKey

LEMMA ResizeSees ==
  ASSUME Stage, Resize, Mounted(ui) = "model"
  PROVE  ModelSeen'
  <1>1. PICK height \in Heights \ {ui.rows} :
        LET u    == [ui EXCEPT !.rows = height]
            stay == IF Mounted(u) = Mounted(ui) THEN Mounted(u) ELSE "none"
        IN  Press(CASE stay = "model" ->
                         [u EXCEPT !.panel = ScrollModelHighlightIntoView(@, ListRows(u, "model"))]
                    [] stay = "theme" ->
                         [u EXCEPT !.panel = ScrollThemeHighlightIntoView(@, ListRows(u, "theme"))]
                    [] stay = "memory" -> [u EXCEPT !.panel.resized = TRUE]
                    [] stay = "resume" -> [u EXCEPT !.resume.resized = TRUE]
                    [] OTHER -> u)
    BY ZenonT(60) DEF Resize
  <1> DEFINE u == [ui EXCEPT !.rows = height]
             toModel == [u EXCEPT !.panel = ScrollModelHighlightIntoView(@, ListRows(u, "model"))]
  <1>2. DOMAIN ui = UiFields /\ height \in Nat /\ Sees(ui.panel, ThemeRows(ui.rows)) /\ ui.rows \in Nat
    BY SizesAssumption, PanelIs DEF Stage, ModelSeen, ViewInv
  <1>3. DOMAIN u = UiFields /\ u.rows = height /\ u.panel = ui.panel
    BY <1>2 DEF UiFields
  <1>4. Press(IF Mounted(u) = "model" THEN toModel ELSE u)
    BY <1>1
  <1> HIDE DEF u
  <1>5. CASE Mounted(u) = "model"
    <2>1. toModel.panel = ScrollModelHighlightIntoView(ui.panel, ThemeRows(height)) /\ toModel.rows = height
      BY <1>3, RowsOfModel DEF UiFields
    <2>2. Sees(toModel.panel, ThemeRows(height))
      BY <1>2, <2>1, MovesSee, RowsThere
    <2> HIDE DEF toModel
    <2>3. Stays(toModel)
      BY <2>1, <2>2 DEF Stays
    <2> QED BY <1>4, <1>5, <2>3, StagedSees
  <1>6. CASE Mounted(u) # "model"
    <2>1. Stays(u)
      BY <1>6 DEF Stays
    <2> HIDE DEF toModel
    <2> QED BY <1>4, <1>6, <2>1, StagedSees
  <1> QED BY <1>5, <1>6

LEMMA ModelKeySees ==
  ASSUME Stage, ModelKey \/ InlineConnectKey
  PROVE  ModelSeen'
  <1> DEFINE v      == ListRows(ui, "model")
             row    == HighlightedModelRow(Model)
             shown  == IF Model.outcome # "none" \/ Model.error THEN CancelInlineConnect(Model) ELSE Model
             choose == [Call(ui, "select") EXCEPT !.provider = row.provider, !.model = row.model]
             again  == [Call(ui, "models") EXCEPT !.provider = row.provider]
             reload == SetProviderModelLoad(Model, row.provider, NoLoad, v)
             inline == StartInlineConnect(Model, row.provider)
  <1>1. /\ Mounted(ui) = "model" /\ v = ThemeRows(ui.rows) /\ v \in Nat \ {0} /\ Sees(Model, v)
    BY RowsThere, RowsOfModel DEF ModelKey, InlineConnectKey, Model, Stage, ModelSeen, ViewInv
  <1>2. \/ \E delta \in {-1, 1} : Press(InPanel(MoveModelHighlight(Model, delta, v)))
        \/ Press(AppEsc(InPanel(shown)))
        \/ Send(ui, choose)
        \/ Send(InPanel(reload), again)
        \/ Press(OpenConnectSurface(ui, Custom, TRUE))
        \/ Press(InPanel(inline))
        \/ InlineConnectKey
    BY DEF ModelKey
  <1>3. NoLoad \in Load
    <2>1. <<>> \in Seq(ModelSet)
      OBVIOUS
    <2> QED BY <2>1 DEF NoLoad, Load, LoadStatuses
  <1> HIDE DEF v
  <1>4. Sees(shown, v) /\ Sees(reload, v) /\ Sees(inline, v)
    BY <1>1, <1>3, LoadsSee, InlineSees
  <1> HIDE DEF row, shown, choose, again, reload, inline
  <1>5. CASE \E delta \in {-1, 1} : Press(InPanel(MoveModelHighlight(Model, delta, v)))
    <2>1. \A delta \in {-1, 1} : Sees(MoveModelHighlight(Model, delta, v), v)
      BY <1>1, MovesSee
    <2> QED BY <1>1, <1>5, <2>1, PanelSees
  <1>6. CASE Send(ui, choose) \/ Press(OpenConnectSurface(ui, Custom, TRUE))
    BY <1>6, SameSelf, SameFrames, AloneSees
  <1>7. CASE InlineConnectKey
    <2>1. Sees(CancelInlineConnect(Model), v) /\ Sees(SubmitInlineKey(Model), v)
      BY <1>1, InlineSees
    <2> QED BY <1>1, <1>7, <2>1, PanelSees DEF InlineConnectKey
  <1> QED BY <1>1, <1>2, <1>4, <1>5, <1>6, <1>7, PanelSees

LEMMA KeySees ==
  ASSUME Stage, Key
  PROVE  ModelSeen'
  <1>1. CASE Mounted(ui) # "model"
    <2>1. PICK u, pending : Commit(u, pending)
      BY KeyCommits
    <2>2. Stays(u)
      BY <1>1 DEF Stays
    <2> QED BY <2>1, <2>2, StagedSees
  <1>2. CASE Mounted(ui) = "model"
    <2>1. RerouteSubmit => ModelSeen'
      BY SameSelf, SameFrames, AloneSees DEF RerouteSubmit
    <2> QED BY <1>2, <2>1, KeysOfModel, ResizeSees, ModelKeySees
  <1> QED BY <1>1, <1>2

\* An answer to /model leaves it with p.
LEMMA StaysWith ==
  ASSUME Stage, NEW p, Mounted(ui) = "model" => Sees(p, ThemeRows(ui.rows))
  PROVE  /\ Stays(With(ui, "model", p)) /\ Stays(CloseActiveSurface(With(ui, "model", p)))
         /\ Mounted(ui) = "model"
              => /\ With(ui, "model", p).panel = p
                 /\ Mounted(With(ui, "model", p)) = "model"
  <1> DEFINE u == With(ui, "model", p)
  <1>1. CASE Mounted(ui) = "model"
    <2>1. DOMAIN ui = UiFields /\ ui.panel.kind = "model"
      BY <1>1, PanelIs DEF Stage, GoodModel
    <2>2. u = [ui EXCEPT !.panel = p]
      BY <2>1 DEF With
    <2>3. /\ DOMAIN u = UiFields /\ u.panel = p /\ u.rows = ui.rows /\ u.surface = ui.surface
          /\ u.question = ui.question /\ u.resuming = ui.resuming
      BY <2>1, <2>2 DEF UiFields
    <2> HIDE DEF u
    <2>4. Mounted(u) = "model"
      BY <1>1, <2>3 DEF Mounted, TooSmall, ActiveDockedPanel
    <2>5. CloseActiveSurface(u).panel = p /\ CloseActiveSurface(u).rows = ui.rows
      BY <2>3 DEF CloseActiveSurface, UiFields
    <2>6. Stays(u) /\ Stays(CloseActiveSurface(u))
      BY <1>1, <2>3, <2>5 DEF Stays
    <2> QED BY <2>3, <2>4, <2>6 DEF u
  <1>2. CASE Mounted(ui) # "model"
    BY <1>2 DEF Stays
  <1> QED BY <1>1, <1>2

LEMMA WithSees ==
  ASSUME Stage, NEW p, Mounted(ui) = "model" => Sees(p, ThemeRows(ui.rows))
  PROVE  /\ \A i : Done(i, With(ui, "model", p)) => ModelSeen'
         /\ \A i, more : Then(i, With(ui, "model", p), more) => ModelSeen'
         /\ \A pending : Commit(With(ui, "model", p), pending) => ModelSeen'
         /\ \A i, more : Then(i, CloseActiveSurface(With(ui, "model", p)), more) => ModelSeen'
  <1>1. Stays(With(ui, "model", p)) /\ Stays(CloseActiveSurface(With(ui, "model", p)))
    BY StaysWith
  <1> QED BY <1>1, StagedSees

\* What an answer brings is a list, or none.
LEMMA AnsweredLists ==
  /\ \A list \in ModelLists : [status |-> "loaded", models |-> list] \in Load
  /\ [status |-> "empty", models |-> <<>>] \in Load
  /\ [status |-> "failed", models |-> <<>>] \in Load
  <1>1. ASSUME NEW list \in ModelLists PROVE list \in Seq(ModelSet) /\ list # <<>>
    <2>1. PICK k \in DOMAIN Models : list = SubSeq(Models, k, Len(Models))
      BY DEF ModelLists
    <2>2. Models \in Seq(ModelSet) /\ k \in 1..Len(Models) /\ Len(Models) \in Nat
      BY CatalogAssumption
    <2> QED BY <2>1, <2>2
  <1>2. <<>> \in Seq(ModelSet)
    OBVIOUS
  <1> QED BY <1>1, <1>2 DEF Load, LoadStatuses

LEMMA LoadAnswerSees ==
  ASSUME Stage, NEW i, AnswerLoad(i)
  PROVE  ModelSeen'
  <1> DEFINE v == ListRows(ui, "model")
             call == calls[i]
             providers == SetModelProvidersLoading(ui.panel, store.connected, v)
             listed(active) ==
               SetModelActiveSelection(providers, EffectiveSelection(active, store.connected), v)
             ended(panel) == IF call.then = "idle" THEN [panel EXCEPT !.inFlight = FALSE] ELSE panel
  <1>1. v = ThemeRows(ui.rows) /\ v \in Nat \ {0}
    BY RowsThere, RowsOfModel DEF Stage, ViewInv
  <1>2. Mounted(ui) = "model" => Sees(ui.panel, v)
    BY <1>1 DEF Stage, ModelSeen
  <1>3. \/ Done(i, With(ui, "model", ended(ui.panel)))
        \/ \E active, more : Then(i, With(ui, "model", ended(listed(active))), more)
    BY DEF AnswerLoad
  <1> HIDE DEF v
  <1>4. \A p : Sees(p, v) => Sees(ended(p), v)
    BY InlineSees
  <1> HIDE DEF ended
  <1>5. ASSUME Sees(ui.panel, v), NEW active PROVE Sees(listed(active), v)
    <2>1. Sees(providers, v)
      BY <1>1, <1>5, LoadsSee
    <2> HIDE DEF providers
    <2> QED BY <1>1, <2>1, LoadsSee
  <1> HIDE DEF listed
  <1>6. Mounted(ui) = "model" => Sees(ended(ui.panel), ThemeRows(ui.rows))
    BY <1>1, <1>2, <1>4
  <1>7. \A active : Mounted(ui) = "model" => Sees(ended(listed(active)), ThemeRows(ui.rows))
    BY <1>1, <1>2, <1>4, <1>5
  <1> QED BY <1>3, <1>6, <1>7, WithSees

LEMMA ModelsAnswer ==
  ASSUME Stage, NEW i, AnswerModels(i)
  PROVE  \/ Done(i, ui)
         \/ \E load \in Load :
              LET p == SetProviderModelLoad(ui.panel, calls[i].provider, load, ThemeRows(ui.rows))
              IN  Done(i, With(ui, "model", p)) /\ (Mounted(ui) = "model" => Sees(p, ThemeRows(ui.rows)))
  <1>1. ListRows(ui, "model") = ThemeRows(ui.rows) /\ ThemeRows(ui.rows) \in Nat \ {0}
    BY RowsThere, RowsOfModel DEF Stage, ViewInv
  <1>2. \/ Done(i, ui)
        \/ \E load \in Load :
             Done(i, With(ui, "model",
                          SetProviderModelLoad(ui.panel, calls[i].provider, load, ThemeRows(ui.rows))))
    BY <1>1, AnsweredLists DEF AnswerModels, Loaded
  <1>3. \A load \in Load : Mounted(ui) = "model" =>
          Sees(SetProviderModelLoad(ui.panel, calls[i].provider, load, ThemeRows(ui.rows)), ThemeRows(ui.rows))
    BY <1>1, LoadsSee DEF Stage, ModelSeen
  <1> QED BY <1>2, <1>3

LEMMA ModelAnswersSee ==
  ASSUME Stage, NEW i, AnswerLoad(i) \/ AnswerModels(i) \/ AnswerSelect(i) \/ AnswerInlineKey(i)
  PROVE  ModelSeen'
  <1> DEFINE v == ThemeRows(ui.rows)
  <1>1. ListRows(ui, "model") = v /\ v \in Nat \ {0}
    BY RowsThere, RowsOfModel DEF Stage, ViewInv
  <1>2. Mounted(ui) = "model" => Sees(ui.panel, v)
    BY DEF Stage, ModelSeen
  <1> HIDE DEF v
  <1>3. (Done(i, ui) => ModelSeen') /\ (Then(i, ui, <<>>) => ModelSeen')
    BY SameSelf, AloneSees
  <1>4. CASE AnswerModels(i)
    BY <1>3, <1>4, ModelsAnswer, WithSees
  <1>5. CASE AnswerSelect(i)
    <2>1. \/ \E selection, more :
               Then(i, CloseActiveSurface(With(ui, "model", SetModelActiveSelection(ui.panel, selection, v))), more)
          \/ Then(i, ui, <<>>)
      BY <1>1, <1>5 DEF AnswerSelect
    <2>2. \A selection : Mounted(ui) = "model" =>
            Sees(SetModelActiveSelection(ui.panel, selection, v), ThemeRows(ui.rows))
      BY <1>1, <1>2, LoadsSee DEF v
    <2> QED BY <1>3, <2>1, <2>2, WithSees
  <1>6. CASE AnswerInlineKey(i)
    <2> DEFINE refused == [ui.panel EXCEPT !.outcome = "refused", !.inFlight = FALSE]
               failed  == [ui.panel EXCEPT !.error = TRUE, !.inFlight = FALSE]
    <2>1. \/ \E pending : Commit(With(ui, "model", ResetModelSurface), pending)
          \/ Then(i, With(ui, "model", refused), <<>>)
          \/ Then(i, With(ui, "model", failed), <<>>)
      BY <1>6 DEF AnswerInlineKey
    <2>2. Mounted(ui) = "model" =>
            Sees(refused, ThemeRows(ui.rows)) /\ Sees(failed, ThemeRows(ui.rows))
      BY <1>2, InlineSees DEF v
    <2>3. Sees(ResetModelSurface, ThemeRows(ui.rows))
      BY ResetSees
    <2> HIDE DEF refused, failed
    <2> QED BY <2>1, <2>2, <2>3, WithSees
  <1> QED BY <1>4, <1>5, <1>6, LoadAnswerSees

\* The other answers.
LEMMA MemoryAnswersSee ==
  ASSUME Stage, NEW i,
         AnswerList(i) \/ AnswerShow(i) \/ AnswerForm(i) \/ AnswerMutation(i)
  PROVE  ModelSeen'
  <1>1. Same(ui) /\ \A p : Same(With(ui, "memory", p))
    BY SameSelf, SameWith
  <1>2. /\ \A u : Done(i, u) /\ Same(u) => ModelSeen'
        /\ \A u : Then(i, u, <<>>) /\ Same(u) => ModelSeen'
        /\ MemoryFails(i) \/ MemoryFailed(i) => ModelSeen'
    BY <1>1, AloneSees DEF MemoryFailed, MemoryFails
  <1>3. ASSUME NEW u, Same(u), RefreshMemory(i, u) PROVE ModelSeen'
    <2>1. \A p : Same(With(u, "memory", p))
      BY <1>3, SameWith
    <2> QED BY <1>3, <2>1, AloneSees DEF RefreshMemory
  <1>4. CASE AnswerList(i)
    BY <1>1, <1>2, <1>4 DEF AnswerList
  <1>5. CASE AnswerShow(i)
    <2>1. ASSUME IsCurrentMemoryRequest(calls[i]), NEW p PROVE Same(InPanel(p))
      <3>1. Mounted(ui) # "model"
        BY <2>1, MountedIs DEF IsCurrentMemoryRequest, Panelled
      <3> QED BY <3>1 DEF Same
    <2> QED BY <1>1, <1>2, <1>5, <2>1 DEF AnswerShow
  <1>6. CASE AnswerForm(i)
    BY <1>1, <1>2, <1>3, <1>6 DEF AnswerForm
  <1>7. CASE AnswerMutation(i)
    BY <1>1, <1>2, <1>3, <1>7 DEF AnswerMutation
  <1> QED BY <1>4, <1>5, <1>6, <1>7

LEMMA OtherAnswersSee ==
  ASSUME Stage, NEW i,
         \/ AnswerProviders(i) \/ AnswerSetKey(i) \/ AnswerClear(i) \/ AnswerSaveTheme(i)
         \/ AnswerSessions(i) \/ AnswerStop(i) \/ AnswerResume(i)
  PROVE  ModelSeen'
  <1>1. Same(ui) /\ (\A p : Same(With(ui, "connect", p))) /\ \A p : Same(With(ui, "theme", p))
    BY SameSelf, SameWith
  <1>2. /\ \A u : Done(i, u) /\ Same(u) => ModelSeen'
        /\ \A u, more : Then(i, u, more) /\ Same(u) => ModelSeen'
        /\ \A u, pending : Commit(u, pending) /\ Same(u) => ModelSeen'
    BY AloneSees
  <1>3. CASE AnswerProviders(i)
    <2> DEFINE p    == SetConnectProviders(ui.panel, ProviderRows, ui.target)
               next == With(ui, "connect", p)
               target == IF TargetIndex(ProviderRows, ui.target) >= 0 THEN None ELSE next.target
               read == [next EXCEPT !.known = ProviderRows, !.target = target]
    <2>1. \E u \in {read, ui} : Done(i, AfterProviders(u, calls[i].then))
      BY <1>3 DEF AnswerProviders
    <2>2. Same(next)
      BY <1>1
    <2> HIDE DEF next, target
    <2>3. Same(read)
      BY <2>2, SameFrames
    <2> HIDE DEF read
    <2>4. ASSUME NEW u, Same(u), NEW then PROVE Same(AfterProviders(u, then))
      <3>1. \A q : Same(With(u, "connect", q)) /\ Same(OpenModelSurface(With(u, "connect", q)))
        BY <2>4, SameWith, SameFrames
      <3> QED BY <3>1 DEF AfterProviders
    <2> QED BY <1>1, <1>2, <2>1, <2>3, <2>4
  <1>4. CASE AnswerSetKey(i) \/ AnswerClear(i)
    BY <1>1, <1>2, <1>4 DEF AnswerSetKey, AnswerClear, ConnectFailed
  <1>5. CASE AnswerSaveTheme(i)
    BY <1>1, <1>2, <1>5, SameFrames DEF AnswerSaveTheme
  <1>6. (\A r : Same([ui EXCEPT !.resume = r])) /\ Same(CloseResumePanel(ui))
        /\ Same(OpenUserQuestion(ui, "folder"))
    BY <1>1, SameFrames
  <1>7. CASE AnswerSessions(i) \/ AnswerResume(i)
    BY <1>2, <1>6, <1>7 DEF AnswerSessions, AnswerResume, ResumeFailed
  <1>8. CASE AnswerStop(i)
    BY <1>1, <1>2, <1>6, <1>8 DEF AnswerStop, ResumeFailed, ConfirmWorkspaceOrResume, PerformResume
  <1> QED BY <1>3, <1>4, <1>5, <1>7, <1>8

LEMMA AnswerSees ==
  ASSUME Stage, NEW i, Answer(i)
  PROVE  ModelSeen'
  BY ModelAnswersSee, MemoryAnswersSee, OtherAnswersSee DEF Answer

LEMMA SeenStart ==
  ASSUME Init
  PROVE  ModelSeen
  <1> PICK height \in Heights, connected \in ConnectedAtStart :
         ui = [Start(height) EXCEPT !.sent = Cardinality(connected)]
    BY DEF Init
  <1>1. /\ ui.surface = "home" /\ ui.question = NoQuestion /\ ui.resuming = FALSE
    BY DEF Start
  <1> QED BY <1>1 DEF ModelSeen, Mounted, ActiveDockedPanel, NoQuestion

LEMMA SeenStep ==
  ASSUME PanelInv, ViewInv, ModelSeen, [Next]_vars
  PROVE  ModelSeen'
  <1>1. CASE Next
    <2>1. Stage
      BY <1>1, PanelStep DEF Stage
    <2> QED BY <1>1, <2>1, KeySees, AnswerSees DEF Next
  <1>2. CASE UNCHANGED vars
    BY <1>2 DEF ModelSeen, vars
  <1> QED BY <1>1, <1>2

LEMMA SeenHolds == Spec => [](PanelInv /\ ViewInv /\ ModelSeen)
  <1>1. Init => ModelSeen
    BY SeenStart
  <1>2. PanelInv /\ ViewInv /\ ModelSeen /\ [Next]_vars => ModelSeen'
    BY SeenStep
  <1> QED BY <1>1, <1>2, ViewHolds, PTL DEF Spec

-----------------------------------------------------------------------------
(* What the user sees of /model *)

\* The terminal that a panel is mounted on has two rows for its list at least.
LEMMA RoomForTwo ==
  ASSUME NEW rows \in Nat, rows >= MinRows
  PROVE  ThemeRows(rows) \in Nat /\ ThemeRows(rows) >= 2
  <1>1. ResolveDockedPanelRows(rows, DockedRows) \in Nat /\ ResolveDockedPanelRows(rows, DockedRows) >= 7
    BY DEF ResolveDockedPanelRows, Clamp, AtMost, AtLeast, DockedRows, MaxHeightDivisor, HeaderRows, MinRows
  <1> QED BY <1>1 DEF ThemeRows, CommandSurfaceBodyRows, FooterGapFits, AtLeast

\* A row in the window is drawn, and one that can be chosen is, if there is one.
LEMMA DrawnRows ==
  ASSUME NEW m, ModelShape(m), NEW v \in Nat, v >= 2
  PROVE  LET drawn == DrawnModelRows(m, v)
             rows  == ModelRows(m)
         IN  /\ \A k \in 1..Len(rows) : InWindow(k - 1, m.offset, v) =>
                  \E d \in DOMAIN drawn : drawn[d] = rows[k]
             /\ FocusableRows(m) # <<>> => \E d \in DOMAIN drawn : Focusable(drawn[d])
  <1> DEFINE rows   == ModelRows(m)
             total  == Len(rows)
             offset == AtMost(m.offset, AtLeast(0, total - v))
             last   == AtMost(offset + v, total)
             drawn  == SubSeq(rows, offset + 1, last)
  <1>1. rows \in Seq(Row) /\ total \in Nat /\ m.offset \in Nat /\ Headed(rows)
    BY ModelRowsAre DEF ModelShape
  <1>2. drawn = DrawnModelRows(m, v)
    BY DEF DrawnModelRows
  <1>3. /\ offset \in Nat /\ last \in Nat /\ offset <= last /\ last <= total
        /\ total >= 2 => offset + 2 <= last
        /\ total = 1 => offset = 0 /\ last = 1
        /\ \A k \in 1..total : InWindow(k - 1, m.offset, v) => k \in (offset + 1)..last
    <2> HIDE DEF rows, total
    <2> QED BY <1>1 DEF AtMost, AtLeast, InWindow
  <1> HIDE DEF offset, last
  <1>4. ASSUME NEW k \in (offset + 1)..last
        PROVE  k - offset \in DOMAIN drawn /\ drawn[k - offset] = rows[k]
    <2> HIDE DEF rows
    <2> QED BY <1>1, <1>3, <1>4
  <1> HIDE DEF drawn
  <1>5. ASSUME NEW k \in 1..total, InWindow(k - 1, m.offset, v)
        PROVE  \E d \in DOMAIN drawn : drawn[d] = rows[k]
    BY <1>3, <1>4, <1>5
  <1>6. ASSUME FocusableRows(m) # <<>> PROVE \E k \in (offset + 1)..last : Focusable(rows[k])
    <2>1. PICK k \in 1..total : Focusable(rows[k])
      BY <1>6, FocusableAre
    <2>2. CASE total = 1
      <3>1. k = 1 /\ 1 \in (offset + 1)..last
        BY <1>3, <2>2
      <3> QED BY <2>1, <3>1
    <2>3. CASE total >= 2
      <3>1. offset + 1 \in (offset + 1)..last /\ offset + 2 \in (offset + 1)..last /\ offset + 1 \in 1..total
        BY <1>1, <1>3, <2>3
      <3>2. Focusable(rows[offset + 1]) \/ Focusable(rows[offset + 1 + 1])
        BY <1>1, <3>1 DEF Headed
      <3>3. offset + 1 + 1 = offset + 2
        BY <1>3
      <3> QED BY <3>1, <3>2, <3>3
    <2>4. total = 1 \/ total >= 2
      <3>1. total >= 1
        BY <1>1
      <3> HIDE DEF total
      <3> QED BY <1>1, <3>1
    <2> QED BY <2>2, <2>3, <2>4
  <1>7. FocusableRows(m) # <<>> => \E d \in DOMAIN drawn : Focusable(drawn[d])
    BY <1>4, <1>6
  <1> QED BY <1>2, <1>5, <1>7

\* Whatever order keys, lists of models and resizes come in, the surface draws the row that
\* ensureHighlight and ensureVisible of state/ui/model/atoms.ts left the highlight on, unless
\* the list that row was of is being loaded again; and it draws a row that can be chosen.
THEOREM ModelDrawsHighlight == Spec => []ModelInView
  <1>1. ASSUME PanelInv, ViewInv, ModelSeen PROVE ModelInView
    <2> DEFINE m == ui.panel
               v == ThemeRows(ui.rows)
               drawn == DrawnModelRows(m, v)
               index == RowIndex(ModelRows(m), m.highlight)
    <2> SUFFICES ASSUME Mounted(ui) = "model", FocusableRows(m) # <<>>
                 PROVE  /\ \E k \in DOMAIN drawn : Focusable(drawn[k])
                        /\ \/ \E k \in DOMAIN drawn : IdentityEquals(drawn[k], m.highlight)
                           \/ m.loads[m.highlight.provider].status = "loading"
      BY RowsOfModel DEF ModelInView
    <2>1. ~TooSmall(ui) /\ ui.rows \in Nat
      BY <1>1 DEF Mounted, ViewInv
    <2>2. v \in Nat /\ v >= 2
      BY <2>1, RoomForTwo DEF TooSmall, MinRows
    <2>3. Sees(m, v)
      BY <1>1 DEF ModelSeen
    <2>4. ModelShape(m) /\ ModelRows(m) \in Seq(Row)
      BY <2>3, ModelRowsAre DEF Sees
    <2> HIDE DEF v
    <2>5. /\ \E k \in DOMAIN drawn : Focusable(drawn[k])
          /\ \A k \in 1..Len(ModelRows(m)) : InWindow(k - 1, m.offset, v) =>
               \E d \in DOMAIN drawn : drawn[d] = ModelRows(m)[k]
      BY <2>2, <2>4, DrawnRows
    <2> HIDE DEF drawn
    <2>6. CASE index >= 0
      <3>1. index + 1 \in 1..Len(ModelRows(m)) /\ IdentityEquals(ModelRows(m)[index + 1], m.highlight)
        <4>1. index \in -1..(Len(ModelRows(m)) - 1) /\ Len(ModelRows(m)) \in Nat
          BY <2>4, RowIndexIs
        <4> QED BY <2>4, <2>6, <4>1, RowIndexIs
      <3>2. InWindow((index + 1) - 1, m.offset, v)
        <4>1. index \in Int
          BY <2>4, RowIndexIs
        <4>2. (index + 1) - 1 = index
          BY <4>1
        <4> QED BY <2>3, <2>6, <4>2 DEF Sees
      <3>3. PICK d \in DOMAIN drawn : drawn[d] = ModelRows(m)[index + 1]
        <4> HIDE DEF index
        <4> DEFINE k == index + 1
        <4>1. k \in 1..Len(ModelRows(m)) /\ InWindow(k - 1, m.offset, v)
          BY <3>1, <3>2
        <4> HIDE DEF k
        <4>2. \E d \in DOMAIN drawn : drawn[d] = ModelRows(m)[k]
          BY <2>5, <4>1
        <4> QED BY <4>2 DEF k
      <3>4. IdentityEquals(drawn[d], m.highlight)
        BY <3>1, <3>3
      <3> QED BY <2>5, <3>4
    <2>7. CASE index < 0
      BY <2>3, <2>5, <2>7 DEF Sees
    <2>8. index \in Int
      BY <2>4, RowIndexIs
    <2> QED BY <2>6, <2>7, <2>8
  <1> QED BY <1>1, SeenHolds, PTL

\* The highlight is not what the rows are made of.
LEMMA EnsureKeepsRows ==
  ASSUME NEW m, ModelShape(m), NEW visual, NEW v
  PROVE  ModelRows(EnsureHighlight(m, visual, v)) = ModelRows(m)
  <1>1. /\ \A x, y : ModelRows([m EXCEPT !.highlight = x, !.offset = y]) = ModelRows(m)
        /\ \A x : ModelRows([m EXCEPT !.highlight = x]) = ModelRows(m)
    <2>1. \A x, y : LET n == [m EXCEPT !.highlight = x, !.offset = y]
                   IN  n.listed = m.listed /\ n.loads = m.loads
      BY DEF ModelShape, ModelFields
    <2>2. \A x : LET n == [m EXCEPT !.highlight = x]
                IN  n.listed = m.listed /\ n.loads = m.loads
      BY DEF ModelShape, ModelFields
    <2> QED BY <2>1, <2>2, SameLoads
  <1>2. \A x, y : ModelRows([[m EXCEPT !.highlight = x] EXCEPT !.offset = y]) = ModelRows(m)
    <2>1. \A x, y : LET n == [[m EXCEPT !.highlight = x] EXCEPT !.offset = y]
                   IN  n.listed = m.listed /\ n.loads = m.loads
      BY DEF ModelShape, ModelFields
    <2> QED BY <2>1, SameLoads
  <1>3. \A x, index : ModelRows(EnsureVisible([m EXCEPT !.highlight = x], index, v)) = ModelRows(m)
    BY <1>1, <1>2 DEF EnsureVisible
  <1> QED BY <1>1, <1>2, <1>3 DEF EnsureHighlight

\* A highlighted row that is there stays highlighted, in its place on the screen where the
\* list can be scrolled to keep it.
LEMMA EnsureAnchors ==
  ASSUME NEW m, ModelShape(m), NEW v \in Nat \ {0}, NEW visual \in 0..(v - 1),
         RowIndex(ModelRows(m), m.highlight) >= 0
  PROVE  LET h == EnsureHighlight(m, visual, v)
         IN  /\ h.highlight = m.highlight
             /\ VisualRow(h) = visual \/ h.offset \in {0, Len(ModelRows(h)) - v}
  <1> DEFINE h      == EnsureHighlight(m, visual, v)
             rows   == FocusableRows(m)
             index  == RowIndex(ModelRows(m), m.highlight)
             total  == Len(ModelRows(m))
             offset == Clamp(index - visual, 0, AtLeast(0, total - v))
             n      == [[m EXCEPT !.highlight = m.highlight] EXCEPT !.offset = offset]
  <1>1. rows \in Seq(Row) /\ ModelRows(m) \in Seq(Row) /\ total \in Nat
    BY FocusableAre, ModelRowsAre
  <1>2. m.highlight # NoSelection
    BY <1>1, NoRowOfNone
  <1>3. RowIndex(rows, m.highlight) >= 0
    BY FocusableAre
  <1>4. rows # <<>>
    <2>1. RowIndex(rows, m.highlight) \in -1..(Len(rows) - 1)
      BY <1>1, RowIndexIs
    <2>2. Len(rows) # 0
      BY <1>1, <1>3, <2>1
    <2> QED BY <2>2
  <1>5. h = n
    BY <1>2, <1>3, <1>4 DEF EnsureHighlight
  <1>6. index \in 0..(total - 1)
    BY <1>1, RowIndexIs
  <1>7. offset \in Nat /\ (index - offset = visual \/ offset \in {0, total - v})
    <2> HIDE DEF index, total
    <2> QED BY <1>1, <1>6, AnchorKeeps
  <1> HIDE DEF offset
  <1>8. n.highlight = m.highlight /\ n.offset = offset
    BY DEF ModelShape, ModelFields
  <1>9. ModelRows(h) = ModelRows(m)
    BY EnsureKeepsRows
  <1> HIDE DEF n, h
  <1>10. VisualRow(h) = index - offset
    <2>1. RowIndex(ModelRows(h), h.highlight) = index
      BY <1>5, <1>8, <1>9
    <2>2. h.offset = offset
      BY <1>5, <1>8
    <2> HIDE DEF index
    <2>3. ~(index < 0)
      BY <1>6
    <2> QED BY <2>1, <2>2, <2>3 DEF VisualRow
  <1>11. h.highlight = m.highlight /\ h.offset = offset /\ Len(ModelRows(h)) = total
    BY <1>5, <1>8, <1>9
  <1> HIDE DEF index, total
  <1>12. VisualRow(h) = visual \/ h.offset \in {0, Len(ModelRows(h)) - v}
    BY <1>7, <1>10, <1>11
  <1> QED BY <1>11, <1>12 DEF h

\* What is drawn of a terminal on the same panel is its panel.
LEMMA CommitKeepsPanel ==
  ASSUME PanelInv', NEW u, NEW pending, Commit(u, pending), Mounted(u) = "model", Mounted(ui) = "model"
  PROVE  ui'.panel = u.panel
  <1> DEFINE left == Forget(u)
  <1>1. ui' = left
    BY DEF Commit, Rendered
  <1>2. DOMAIN left = DOMAIN u
    BY DEF Forget
  <1>3. DOMAIN u = UiFields /\ (Mounted(ui)' \in Panelled => ui'.panel.kind = Mounted(ui)')
    BY <1>1, <1>2 DEF PanelInv, TerminalInv, Consistent
  <1>4. /\ DOMAIN left = UiFields /\ left.surface = u.surface /\ left.question = u.question
        /\ left.resuming = u.resuming /\ left.rows = u.rows
        /\ left.panel = IF u.panel.kind = u.surface THEN u.panel ELSE NoPanel
    BY <1>2, <1>3 DEF Forget, UiFields
  <1> HIDE DEF left
  <1>5. Mounted(ui)' = "model"
    BY <1>1, <1>4 DEF Mounted, TooSmall, ActiveDockedPanel
  <1> QED BY <1>1, <1>3, <1>4, <1>5 DEF Panelled, NoPanel

LEMMA ArrivalAnchors ==
  ASSUME Stage, NEW i, AnswerModels(i), Mounted(ui) = "model", VisualRow(ui.panel) >= 0,
         RowIndex(ModelRows(ui'.panel), ui.panel.highlight) >= 0
  PROVE  /\ ui'.panel.highlight = ui.panel.highlight
         /\ \/ VisualRow(ui'.panel) = VisualRow(ui.panel)
            \/ ui'.panel.offset \in {0, Len(ModelRows(ui'.panel)) - ListRows(ui, "model")}
  <1> DEFINE m == ui.panel
             v == ThemeRows(ui.rows)
             p(load) == SetProviderModelLoad(m, calls[i].provider, load, v)
  <1>1. v \in Nat \ {0} /\ Sees(m, v) /\ ListRows(ui, "model") = v
    BY RowsThere, RowsOfModel DEF Stage, ViewInv, ModelSeen
  <1> HIDE DEF v
  <1>2. CASE Done(i, ui)
    <2>1. ui'.panel = ui.panel
      BY <1>2, CommitKeepsPanel DEF Done, Then, Stage
    <2> QED BY <2>1
  <1>3. ASSUME NEW load \in Load, Done(i, With(ui, "model", p(load))), Sees(p(load), v)
        PROVE  /\ ui'.panel.highlight = m.highlight
               /\ VisualRow(ui'.panel) = VisualRow(m) \/ ui'.panel.offset \in {0, Len(ModelRows(ui'.panel)) - v}
    <2> DEFINE n == [m EXCEPT !.loads[calls[i].provider] = load]
    <2>1. With(ui, "model", p(load)).panel = p(load) /\ Mounted(With(ui, "model", p(load))) = "model"
      BY <1>3, StaysWith DEF v
    <2>2. ui'.panel = p(load)
      BY <1>3, <2>1, CommitKeepsPanel DEF Done, Then, Stage
    <2>3. p(load) = EnsureHighlight(n, VisualRow(m), v)
      BY DEF SetProviderModelLoad
    <2>4. ModelShape(n) /\ n.highlight = m.highlight
      <3>1. ModelShape(m) /\ DOMAIN m = ModelFields
        BY <1>1 DEF Sees, ModelShape
      <3>2. /\ DOMAIN n = ModelFields /\ n.kind = m.kind /\ n.offset = m.offset
            /\ n.highlight = m.highlight /\ n.loads = [m.loads EXCEPT ![calls[i].provider] = load]
        BY <3>1 DEF ModelFields
      <3> HIDE DEF n
      <3>3. n.loads \in [ProviderSet -> Load]
        BY <3>1, <3>2 DEF ModelShape
      <3> QED BY <3>1, <3>2, <3>3 DEF ModelShape
    <2> HIDE DEF p, n
    <2>5. VisualRow(m) \in 0..(v - 1)
      BY <1>1, VisualIs
    <2>6. ModelRows(p(load)) = ModelRows(n)
      BY <2>3, <2>4, EnsureKeepsRows
    <2>7. RowIndex(ModelRows(n), n.highlight) >= 0
      BY <2>2, <2>4, <2>6
    <2>8. /\ p(load).highlight = n.highlight
          /\ VisualRow(p(load)) = VisualRow(m) \/ p(load).offset \in {0, Len(ModelRows(p(load))) - v}
      BY <1>1, <2>3, <2>4, <2>5, <2>7, EnsureAnchors
    <2> QED BY <2>2, <2>4, <2>8
  <1>4. \/ Done(i, ui)
        \/ \E load \in Load : Done(i, With(ui, "model", p(load))) /\ Sees(p(load), v)
    BY ModelsAnswer DEF v
  <1> QED BY <1>1, <1>2, <1>3, <1>4

-----------------------------------------------------------------------------
(* The types of a terminal, of the requests under way and of the store *)

KnownRow == [id : ProviderSet, connected : BOOLEAN, url : BOOLEAN]

ResumeState == [kind : {"resume"}, sessions : 0..MaxSessions, status : ResumeStatuses,
                highlight : 0..MaxSessions, offset : Nat, resized : BOOLEAN]

FormState == [mode : {"none", "add", "edit"}, blank : BOOLEAN, field : {"title", "body"},
              error : {"none", "title", "submit"}]

QuestionState == [kind : {"none", "stop", "folder"}, index : 0..1]

ModelTyped(m) == ModelShape(m) /\ m.inline \in ProviderSet \cup {None} /\ m.inFlight \in BOOLEAN

ConnectTyped(c) ==
  /\ DOMAIN c = {"kind", "selected", "step", "inFlight", "url", "label", "action", "confirm"}
  /\ c.kind = "connect" /\ c.step \in ConnectSteps
  /\ c.inFlight \in BOOLEAN /\ c.url \in BOOLEAN /\ c.label \in BOOLEAN /\ c.confirm \in BOOLEAN

PanelTyped(p) ==
  /\ "kind" \in DOMAIN p /\ p.kind \in Panelled \cup {"none"}
  /\ p.kind = "none"    => p = NoPanel
  /\ p.kind = "memory"  => p \in MemoryState
  /\ p.kind = "model"   => ModelTyped(p)
  /\ p.kind = "connect" => ConnectTyped(p)

Terminal(u) ==
  /\ DOMAIN u = UiFields /\ PanelTyped(u.panel)
  /\ u.surface = "memory" => u.panel.kind = "memory"
  /\ u.known \in Seq(KnownRow) /\ u.resume \in ResumeState /\ u.question \in QuestionState
  /\ u.opening \in Nat /\ u.mount \in Nat /\ u.rows \in Nat
  /\ u.question.kind # "none" => u.mount # 0

\* The requests of n mounts: a key is sent to a provider.
CallSet(n) ==
  {c \in [op : Ops, mount : 1..n, opening : Nat, latest : BOOLEAN, provider : ProviderSet \cup {None},
          model : ModelSet \cup {None}, theme : 0..Catalog, then : {"none", "idle", "list", "openModel"}] :
     c.op \in {"setKey", "inlineKey"} => c.provider \in ProviderSet}

StoreTyped(st) ==
  /\ StoreShape(st) /\ st.items \in 0..MaxItems /\ st.inbox \in 0..MaxItems
  /\ st.sessions \in 0..MaxSessions /\ st.connected \subseteq ProviderSet /\ st.url \in BOOLEAN

TypesInv ==
  /\ Terminal(ui) /\ calls \in Seq(CallSet(ui.mount)) /\ StoreTyped(store)
  /\ Mounted(ui) \in PanelKinds => ui.mount # 0

\* A step's start.
Scenery == PanelInv /\ TypesInv

-----------------------------------------------------------------------------
(* Rendering keeps the types *)

\* The fields of /memory, one by one.
LEMMA MemoryFields ==
  ASSUME NEW p \in MemoryState
  PROVE  /\ \A x \in MemoryModes : [p EXCEPT !.mode = x] \in MemoryState
         /\ \A x \in 0..MaxItems : [p EXCEPT !.items = x] \in MemoryState
         /\ \A x \in 0..MaxItems : [p EXCEPT !.inbox = x] \in MemoryState
         /\ \A x \in MemoryStatuses : [p EXCEPT !.status = x] \in MemoryState
         /\ \A x \in 0..MaxItems : [p EXCEPT !.highlight = x] \in MemoryState
         /\ \A x \in 0..MaxItems : [p EXCEPT !.offset = x] \in MemoryState
         /\ \A x \in 0..MaxLines : [p EXCEPT !.detail = x] \in MemoryState
         /\ \A x \in 0..MaxLines : [p EXCEPT !.detailOffset = x] \in MemoryState
         /\ \A x \in Nat : [p EXCEPT !.detailOf = x] \in MemoryState
         /\ \A x \in FormState : [p EXCEPT !.form = x] \in MemoryState
         /\ \A x \in Nat : [p EXCEPT !.formOf = x] \in MemoryState
         /\ \A x \in {"none", "edit", "forget"} : [p EXCEPT !.pick = x] \in MemoryState
         /\ \A x \in 0..MaxItems : [p EXCEPT !.confirm = x] \in MemoryState
         /\ \A x \in BOOLEAN : [p EXCEPT !.resized = x] \in MemoryState
         /\ \A x \in BOOLEAN : [p EXCEPT !.doubted = x] \in MemoryState
  <1> USE DEF MemoryState, FormState
  <1>1. \A x \in MemoryModes : [p EXCEPT !.mode = x] \in MemoryState
    OBVIOUS
  <1>2. \A x \in 0..MaxItems : [p EXCEPT !.items = x] \in MemoryState
    OBVIOUS
  <1>3. \A x \in 0..MaxItems : [p EXCEPT !.inbox = x] \in MemoryState
    OBVIOUS
  <1>4. \A x \in MemoryStatuses : [p EXCEPT !.status = x] \in MemoryState
    OBVIOUS
  <1>5. \A x \in 0..MaxItems : [p EXCEPT !.highlight = x] \in MemoryState
    OBVIOUS
  <1>6. \A x \in 0..MaxItems : [p EXCEPT !.offset = x] \in MemoryState
    OBVIOUS
  <1>7. \A x \in 0..MaxLines : [p EXCEPT !.detail = x] \in MemoryState
    OBVIOUS
  <1>8. \A x \in 0..MaxLines : [p EXCEPT !.detailOffset = x] \in MemoryState
    OBVIOUS
  <1>9. \A x \in Nat : [p EXCEPT !.detailOf = x] \in MemoryState
    OBVIOUS
  <1>10. \A x \in FormState : [p EXCEPT !.form = x] \in MemoryState
    OBVIOUS
  <1>11. \A x \in Nat : [p EXCEPT !.formOf = x] \in MemoryState
    OBVIOUS
  <1>12. \A x \in {"none", "edit", "forget"} : [p EXCEPT !.pick = x] \in MemoryState
    OBVIOUS
  <1>13. \A x \in 0..MaxItems : [p EXCEPT !.confirm = x] \in MemoryState
    OBVIOUS
  <1>14. \A x \in BOOLEAN : [p EXCEPT !.resized = x] \in MemoryState
    OBVIOUS
  <1>15. \A x \in BOOLEAN : [p EXCEPT !.doubted = x] \in MemoryState
    OBVIOUS
  <1> HIDE DEF MemoryState, FormState
  <1> QED BY <1>1, <1>2, <1>3, <1>4, <1>5, <1>6, <1>7, <1>8, <1>9, <1>10, <1>11, <1>12, <1>13, <1>14,
             <1>15

\* What a memory panel is.
LEMMA MemoryStateIs ==
  ASSUME NEW p \in MemoryState
  PROVE  /\ DOMAIN p = {"kind", "mode", "opening", "items", "inbox", "status", "highlight",
                      "offset", "detail", "detailOffset", "detailOf", "form", "formOf", "pick",
                      "confirm", "resized", "doubted"}
         /\ p.kind = "memory" /\ p.mode \in MemoryModes /\ p.opening \in Nat /\ p.items \in 0..MaxItems
         /\ p.inbox \in 0..MaxItems /\ p.status \in MemoryStatuses /\ p.highlight \in 0..MaxItems
         /\ p.offset \in 0..MaxItems /\ p.detail \in 0..MaxLines /\ p.detailOffset \in 0..MaxLines
         /\ p.form \in FormState
         /\ PanelTyped(p)
  <1>1. /\ DOMAIN p = {"kind", "mode", "opening", "items", "inbox", "status", "highlight",
                      "offset", "detail", "detailOffset", "detailOf", "form", "formOf", "pick",
                      "confirm", "resized", "doubted"}
        /\ p.kind = "memory" /\ p.mode \in MemoryModes /\ p.opening \in Nat /\ p.items \in 0..MaxItems
        /\ p.inbox \in 0..MaxItems /\ p.status \in MemoryStatuses /\ p.highlight \in 0..MaxItems
        /\ p.offset \in 0..MaxItems /\ p.detail \in 0..MaxLines /\ p.detailOffset \in 0..MaxLines
    BY DEF MemoryState
  <1>2. p.form \in FormState
    BY DEF MemoryState, FormState
  <1> QED BY <1>1, <1>2 DEF PanelTyped, Panelled

LEMMA ResetsTyped ==
  /\ PanelTyped(NoPanel) /\ NoPanel.kind = "none"
  /\ ResetResumeSurface \in ResumeState /\ NoQuestion \in QuestionState /\ NoQuestion.kind = "none"
  /\ \A n \in 0..MaxSessions : [ResetResumeSurface EXCEPT !.sessions = n] \in ResumeState
  /\ PanelTyped(ResetModelSurface) /\ ResetModelSurface.kind = "model"
  /\ PanelTyped(ResetConnectSurface) /\ ResetConnectSurface.kind = "connect"
  /\ \A p : p.kind = "memory" /\ PanelTyped(p)
              => PanelTyped(ResetMemoryData(p)) /\ ResetMemoryData(p).kind = "memory"
  /\ \A theme, rows : LET p == ScrollThemeHighlightIntoView(ResetThemeSurface(theme), rows)
                      IN  PanelTyped(p) /\ p.kind = "theme"
  <1>1. PanelTyped(NoPanel) /\ NoPanel.kind = "none"
    BY DEF NoPanel, PanelTyped
  <1>2. /\ ResetResumeSurface \in ResumeState /\ NoQuestion \in QuestionState /\ NoQuestion.kind = "none"
        /\ \A n \in 0..MaxSessions : [ResetResumeSurface EXCEPT !.sessions = n] \in ResumeState
    <2>1. NoQuestion \in QuestionState /\ NoQuestion.kind = "none"
      BY DEF NoQuestion, QuestionState
    <2>2. 0 \in 0..MaxSessions
      BY SizesAssumption
    <2>3. ResetResumeSurface \in ResumeState
      BY <2>2 DEF ResetResumeSurface, ResumeState, ResumeStatuses
    <2>4. \A r \in ResumeState : \A n \in 0..MaxSessions : [r EXCEPT !.sessions = n] \in ResumeState
      BY DEF ResumeState
    <2> QED BY <2>1, <2>3, <2>4
  <1>3. PanelTyped(ResetModelSurface) /\ ResetModelSurface.kind = "model"
    <2>1. ModelShape(ResetModelSurface)
      BY ResetSees DEF Sees
    <2>2. ResetModelSurface.inline = None /\ ResetModelSurface.inFlight = FALSE
      BY DEF ResetModelSurface
    <2> QED BY <2>1, <2>2 DEF PanelTyped, ModelTyped, ModelShape, ModelFields, Panelled
  <1>4. PanelTyped(ResetConnectSurface) /\ ResetConnectSurface.kind = "connect"
    BY DEF ResetConnectSurface, PanelTyped, ConnectTyped, ConnectSteps, Panelled
  <1>5. ASSUME NEW p, p.kind = "memory", PanelTyped(p)
        PROVE  PanelTyped(ResetMemoryData(p)) /\ ResetMemoryData(p).kind = "memory"
    <2>1. p \in MemoryState
      BY <1>5 DEF PanelTyped
    <2>2. 0 \in 0..MaxItems /\ 0 \in 0..MaxLines /\ "loading" \in MemoryStatuses
      BY ItemsAssumption DEF MemoryStatuses
    <2>3. ResetMemoryData(p) \in MemoryState
      BY <2>1, <2>2, MemoryFields DEF ResetMemoryData
    <2> QED BY <2>3, MemoryStateIs
  <1>6. ASSUME NEW theme, NEW rows
        PROVE  LET p == ScrollThemeHighlightIntoView(ResetThemeSurface(theme), rows)
               IN  PanelTyped(p) /\ p.kind = "theme"
    BY DEF ScrollThemeHighlightIntoView, ResetThemeSurface, PanelTyped, Panelled
  <1> QED BY <1>1, <1>2, <1>3, <1>4, <1>5, <1>6

LEMMA MountTyped ==
  ASSUME NEW u, Terminal(u), Mounted(u) \in PanelKinds
  PROVE  /\ Terminal(Mount(u)) /\ Mount(u).mount = u.mount + 1 /\ Mounted(Mount(u)) = Mounted(u)
         /\ Mount(u).opening = u.opening
  <1> DEFINE m == Mount(u)
  <1>1. /\ DOMAIN m = UiFields
        /\ \A f \in UiFields \ {"mount", "panel", "resume"} : m[f] = u[f]
        /\ m.panel = CASE Mounted(u) = "memory"  -> ResetMemoryData(u.panel)
                       [] Mounted(u) = "model"   -> ResetModelSurface
                       [] Mounted(u) = "connect" -> ResetConnectSurface
                       [] Mounted(u) = "theme"   ->
                            ScrollThemeHighlightIntoView(ResetThemeSurface(u.theme), ListRows(u, "theme"))
                       [] OTHER -> u.panel
        /\ m.resume = (IF Mounted(u) = "resume" THEN ResetResumeSurface ELSE u.resume)
        /\ m.mount = u.mount + 1
    BY DEF Terminal, Mount, UiFields
  <1> HIDE DEF m
  <1>2. /\ m.surface = u.surface /\ m.opening = u.opening /\ m.known = u.known
        /\ m.question = u.question /\ m.resuming = u.resuming /\ m.rows = u.rows
    BY <1>1 DEF UiFields
  <1>3. Mounted(m) = Mounted(u)
    BY <1>2 DEF Mounted, TooSmall, ActiveDockedPanel
  <1>4. Mounted(u) \in Panelled => u.surface = Mounted(u)
    BY MountedIs
  <1>5. PanelTyped(m.panel) /\ (m.panel.kind = Mounted(u) \/ m.panel = u.panel)
    <2>1. CASE Mounted(u) = "memory"
      <3>1. u.panel.kind = "memory" /\ PanelTyped(u.panel)
        BY <1>4, <2>1 DEF Terminal, Panelled
      <3>2. m.panel = ResetMemoryData(u.panel)
        BY <1>1, <2>1
      <3> QED BY <2>1, <3>1, <3>2, ResetsTyped
    <2>2. CASE Mounted(u) = "model"
      BY <1>1, <2>2, ResetsTyped
    <2>3. CASE Mounted(u) = "connect"
      BY <1>1, <2>3, ResetsTyped
    <2>4. CASE Mounted(u) = "theme"
      BY <1>1, <2>4, ResetsTyped
    <2>5. CASE Mounted(u) = "resume"
      BY <1>1, <2>5 DEF Terminal
    <2> QED BY <2>1, <2>2, <2>3, <2>4, <2>5 DEF PanelKinds
  <1>6. m.surface = "memory" => m.panel.kind = "memory"
    BY <1>2, <1>4, <1>5 DEF Terminal, PanelKinds, Panelled, PanelTyped
  <1>7. m.resume \in ResumeState
    BY <1>1, ResetsTyped DEF Terminal
  <1>8. m.mount \in Nat /\ m.mount # 0
    BY <1>1 DEF Terminal
  <1>9. Terminal(m)
    BY <1>1, <1>2, <1>5, <1>6, <1>7, <1>8 DEF Terminal
  <1> QED BY <1>1, <1>2, <1>3, <1>9 DEF m

\* A typed terminal is typed once it is rendered; what comes into view is mounted.
LEMMA RenderedTyped ==
  ASSUME NEW u, Terminal(u)
  PROVE  LET next == Rendered(u)
         IN  /\ Terminal(next) /\ Mounted(next) = Mounted(u) /\ next.opening = u.opening
             /\ next.mount = IF Mounted(u) # Mounted(ui) /\ Mounted(u) \in PanelKinds
                             THEN u.mount + 1 ELSE u.mount
  <1> DEFINE was  == Mounted(ui)
             bare == IF Mounted(u) # was THEN Unmount(u, was) ELSE u
             left == Forget(bare)
  <1>1. /\ DOMAIN bare = UiFields /\ PanelTyped(bare.panel) /\ bare.panel.kind = u.panel.kind
        /\ \A f \in UiFields \ {"theme", "panel"} : bare[f] = u[f]
    <2>1. CASE bare = u
      BY <2>1 DEF Terminal
    <2>2. CASE bare # u
      <3>1. u.panel.kind = "theme" /\ bare = [u EXCEPT !.theme = RevertThemePreview(u.panel, @), !.panel.origin = NoTheme]
        BY <2>2 DEF Unmount
      <3>2. /\ DOMAIN bare = UiFields /\ bare.panel = [u.panel EXCEPT !.origin = NoTheme]
            /\ \A f \in UiFields \ {"theme", "panel"} : bare[f] = u[f]
        BY <3>1 DEF Terminal, UiFields
      <3> HIDE DEF bare
      <3>3. "kind" \in DOMAIN bare.panel /\ bare.panel.kind = "theme"
        BY <3>1, <3>2 DEF Terminal, PanelTyped
      <3> QED BY <3>1, <3>2, <3>3 DEF PanelTyped, Panelled
    <2> QED BY <2>1, <2>2
  <1> HIDE DEF bare
  <1>2. /\ bare.surface = u.surface /\ bare.opening = u.opening /\ bare.known = u.known
        /\ bare.question = u.question /\ bare.resuming = u.resuming /\ bare.rows = u.rows
        /\ bare.mount = u.mount /\ bare.resume = u.resume
    BY <1>1 DEF UiFields
  <1>3. /\ DOMAIN left = UiFields
        /\ \A f \in UiFields \ {"panel", "target", "back", "resume"} : left[f] = bare[f]
        /\ left.panel = (IF bare.panel.kind = bare.surface THEN bare.panel ELSE NoPanel)
        /\ left.resume = IF bare.resuming THEN bare.resume
                         ELSE [ResetResumeSurface EXCEPT !.sessions = bare.resume.sessions]
    BY <1>1 DEF Forget, UiFields
  <1> HIDE DEF left
  <1>4. /\ left.surface = u.surface /\ left.opening = u.opening /\ left.known = u.known
        /\ left.question = u.question /\ left.resuming = u.resuming /\ left.rows = u.rows
        /\ left.mount = u.mount
    BY <1>2, <1>3 DEF UiFields
  <1>5. Mounted(left) = Mounted(u)
    BY <1>4 DEF Mounted, TooSmall, ActiveDockedPanel
  <1>6. PanelTyped(left.panel) /\ (u.surface = "memory" => left.panel.kind = "memory")
    BY <1>1, <1>2, <1>3, ResetsTyped DEF Terminal
  <1>7. left.resume \in ResumeState
    <2>1. u.resume \in ResumeState /\ u.resume.sessions \in 0..MaxSessions
      BY DEF Terminal, ResumeState
    <2> QED BY <1>2, <1>3, <2>1, ResetsTyped
  <1>8. Terminal(left)
    BY <1>3, <1>4, <1>6, <1>7 DEF Terminal
  <1>9. Rendered(u) = IF Mounted(u) # was /\ Mounted(u) \in PanelKinds THEN Mount(left) ELSE left
    BY DEF Rendered, left, bare
  <1> QED BY <1>4, <1>5, <1>8, <1>9, MountTyped

LEMMA MoreMounts ==
  ASSUME NEW n \in Nat, NEW k \in Nat, n <= k
  PROVE  Seq(CallSet(n)) \subseteq Seq(CallSet(k))
  <1>1. 1..n \subseteq 1..k
    OBVIOUS
  <1>2. CallSet(n) \subseteq CallSet(k)
    BY <1>1 DEF CallSet
  <1> HIDE DEF CallSet
  <1> QED BY <1>2

\* A request of a panel that is mounted.
LEMMA CallTyped ==
  ASSUME NEW u, u.mount \in Nat, u.mount # 0, u.opening \in Nat, NEW op \in Ops \ {"setKey", "inlineKey"}
  PROVE  Call(u, op) \in CallSet(u.mount)
  BY ThemeAssumption DEF Call, CallSet, NoTheme

LEMMA CommitTyped ==
  ASSUME Scenery, NEW u, Terminal(u), u.mount = ui.mount, NEW pending \in Seq(CallSet(ui.mount)),
         Commit(u, pending), StoreTyped(store')
  PROVE  TypesInv'
  <1> DEFINE n == ui.mount
             next == Rendered(u)
             sends == IF Mounted(next) # Mounted(ui) THEN MountCalls(next) ELSE <<>>
  <1>1. ui' = next /\ calls' = pending \o sends
    BY DEF Commit
  <1>2. /\ Terminal(next) /\ Mounted(next) = Mounted(u)
        /\ next.mount = IF Mounted(u) # Mounted(ui) /\ Mounted(u) \in PanelKinds
                        THEN u.mount + 1 ELSE u.mount
    BY RenderedTyped
  <1> HIDE DEF next
  <1>3. n \in Nat /\ next.mount \in Nat /\ n <= next.mount /\ next.opening \in Nat
    BY <1>2 DEF Scenery, TypesInv, Terminal
  <1>4. Mounted(next) \in PanelKinds => next.mount # 0
    BY <1>2, <1>3 DEF Scenery, TypesInv
  <1>5. sends \in Seq(CallSet(next.mount))
    <2>1. CASE Mounted(next) \in PanelKinds
      <3>1. \A op \in {"list", "load", "providers", "sessions"} : Call(next, op) \in CallSet(next.mount)
        BY <1>3, <1>4, <2>1, CallTyped DEF Ops
      <3>2. \A c \in CallSet(next.mount) : <<c>> \in Seq(CallSet(next.mount))
        OBVIOUS
      <3>3. <<>> \in Seq(CallSet(next.mount))
        OBVIOUS
      <3>4. \/ sends = <<>>
            \/ \E op \in {"list", "load", "providers", "sessions"} : sends = <<Call(next, op)>>
        BY DEF MountCalls
      <3> HIDE DEF sends
      <3> QED BY <3>1, <3>2, <3>3, <3>4
    <2>2. CASE Mounted(next) \notin PanelKinds
      <3>1. sends = <<>>
        BY <2>2 DEF MountCalls, PanelKinds
      <3>2. <<>> \in Seq(CallSet(next.mount))
        OBVIOUS
      <3> QED BY <3>1, <3>2
    <2> QED BY <2>1, <2>2
  <1>6. pending \in Seq(CallSet(next.mount))
    BY <1>3, MoreMounts
  <1>7. calls' \in Seq(CallSet(next.mount))
    <2> HIDE DEF sends
    <2> QED BY <1>1, <1>5, <1>6
  <1> QED BY <1>1, <1>2, <1>4, <1>7 DEF TypesInv

-----------------------------------------------------------------------------
(* Steps to a typed terminal *)

FromUi(u) == Terminal(u) /\ u.mount = ui.mount

LEMMA RemovalTyped ==
  ASSUME NEW S, NEW q \in Seq(S), NEW i \in DOMAIN q
  PROVE  RemoveAt(q, i) \in Seq(S)
  <1>1. i \in 1..Len(q) /\ Len(q) \in Nat
    OBVIOUS
  <1>2. SubSeq(q, 1, i - 1) \in Seq(S) /\ SubSeq(q, i + 1, Len(q)) \in Seq(S)
    BY <1>1
  <1> QED BY <1>2 DEF RemoveAt

LEMMA StepTyped ==
  ASSUME Scenery, NEW u, FromUi(u)
  PROVE  /\ Press(u) => TypesInv'
         /\ Commit(u, calls) /\ UNCHANGED store => TypesInv'
         /\ \A call \in CallSet(ui.mount) : Commit(u, Append(calls, call)) /\ UNCHANGED store => TypesInv'
         /\ \A i \in DOMAIN calls : \A more \in Seq(CallSet(ui.mount)) :
              Then(i, u, more) /\ StoreTyped(store') => TypesInv'
         /\ \A i \in DOMAIN calls : Done(i, u) => TypesInv'
         /\ \A i \in DOMAIN calls : \A call \in CallSet(ui.mount) :
              Commit(u, Append(RemoveAt(calls, i), call)) /\ UNCHANGED store => TypesInv'
         /\ \A i \in DOMAIN calls : Commit(u, RemoveAt(calls, i)) /\ UNCHANGED store => TypesInv'
  <1> DEFINE S == CallSet(ui.mount)
  <1>1. calls \in Seq(S) /\ StoreTyped(store) /\ Terminal(u) /\ u.mount = ui.mount
    BY DEF Scenery, TypesInv, FromUi
  <1>2. \A pending \in Seq(S) : Commit(u, pending) /\ StoreTyped(store') => TypesInv'
    BY <1>1, CommitTyped
  <1>3. UNCHANGED store => StoreTyped(store')
    BY <1>1
  <1> HIDE DEF S
  <1>4. \A call \in S : Append(calls, call) \in Seq(S)
    BY <1>1
  <1>5. \A i \in DOMAIN calls : RemoveAt(calls, i) \in Seq(S)
    BY <1>1, RemovalTyped
  <1>6. \A i \in DOMAIN calls : \A more \in Seq(S) : RemoveAt(calls, i) \o more \in Seq(S)
    BY <1>5
  <1>7. \A i \in DOMAIN calls : \A call \in S : Append(RemoveAt(calls, i), call) \in Seq(S)
    BY <1>5
  <1>8. <<>> \in Seq(S)
    OBVIOUS
  <1>9. Press(u) \/ (Commit(u, calls) /\ UNCHANGED store) => TypesInv'
    BY <1>1, <1>2, <1>3 DEF Press
  <1>10. \A call \in S : Commit(u, Append(calls, call)) /\ UNCHANGED store => TypesInv'
    BY <1>2, <1>3, <1>4
  <1>11. \A i \in DOMAIN calls : \A more \in Seq(S) : Then(i, u, more) /\ StoreTyped(store') => TypesInv'
    BY <1>2, <1>6 DEF Then
  <1>12. \A i \in DOMAIN calls : Done(i, u) => TypesInv'
    BY <1>3, <1>8, <1>11 DEF Done
  <1>13. /\ \A i \in DOMAIN calls : \A call \in S :
              Commit(u, Append(RemoveAt(calls, i), call)) /\ UNCHANGED store => TypesInv'
         /\ \A i \in DOMAIN calls : Commit(u, RemoveAt(calls, i)) /\ UNCHANGED store => TypesInv'
    BY <1>2, <1>3, <1>5, <1>7
  <1> QED BY <1>9, <1>10, <1>11, <1>12, <1>13 DEF S

\* What opens, closes and replaces panels.
LEMMA FramesTyped ==
  ASSUME NEW u, FromUi(u)
  PROVE  /\ FromUi(Sent(u)) /\ FromUi(CloseActiveSurface(u)) /\ FromUi(AppEsc(u))
         /\ \A target, back : FromUi(OpenConnectSurface(u, target, back))
         /\ FromUi(OpenHelpSurface(u)) /\ FromUi(OpenModelSurface(u)) /\ FromUi(OpenThemeSurface(u))
         /\ FromUi(OpenResumePanel(u)) /\ FromUi(CloseResumePanel(u)) /\ FromUi(CloseUserQuestion(u))
         /\ u.mount # 0 => \A kind \in {"stop", "folder"} : FromUi(OpenUserQuestion(u, kind))
         /\ \A height \in Nat : FromUi([u EXCEPT !.rows = height])
         /\ \A r \in ResumeState : FromUi([u EXCEPT !.resume = r])
         /\ \A known \in Seq(KnownRow) : \A target : FromUi([u EXCEPT !.known = known, !.target = target])
         /\ \A p : PanelTyped(p) /\ p.kind = u.panel.kind => FromUi([u EXCEPT !.panel = p])
         /\ \A p, kind : (u.panel.kind = kind => PanelTyped(p) /\ p.kind = kind) => FromUi(With(u, kind, p))
  <1> USE DEF FromUi, Terminal, UiFields
  <1>1. FromUi(Sent(u)) /\ FromUi(CloseActiveSurface(u))
    BY DEF Sent, CloseActiveSurface
  <1>2. \A target, back : FromUi(OpenConnectSurface(u, target, back))
    BY DEF OpenConnectSurface
  <1>3. FromUi(OpenHelpSurface(u)) /\ FromUi(OpenModelSurface(u)) /\ FromUi(OpenThemeSurface(u))
    BY DEF OpenHelpSurface, OpenModelSurface, OpenThemeSurface
  <1>4. FromUi(OpenResumePanel(u)) /\ FromUi(CloseResumePanel(u))
    BY ResetsTyped DEF OpenResumePanel, CloseResumePanel
  <1>5. FromUi(CloseUserQuestion(u))
    BY ResetsTyped DEF CloseUserQuestion
  <1>6. ASSUME u.mount # 0, NEW kind \in {"stop", "folder"} PROVE FromUi(OpenUserQuestion(u, kind))
    <2>1. [kind |-> kind, index |-> 0] \in QuestionState
      BY DEF QuestionState
    <2> QED BY <1>6, <2>1 DEF OpenUserQuestion
  <1>7. \A height \in Nat : FromUi([u EXCEPT !.rows = height])
    OBVIOUS
  <1>8. \A r \in ResumeState : FromUi([u EXCEPT !.resume = r])
    OBVIOUS
  <1>9. \A known \in Seq(KnownRow) : \A target : FromUi([u EXCEPT !.known = known, !.target = target])
    OBVIOUS
  <1>10. \A p : PanelTyped(p) /\ p.kind = u.panel.kind => FromUi([u EXCEPT !.panel = p])
    OBVIOUS
  <1> HIDE DEF FromUi, Terminal, UiFields
  <1>11. \A p, kind : (u.panel.kind = kind => PanelTyped(p) /\ p.kind = kind) => FromUi(With(u, kind, p))
    BY <1>10 DEF With
  <1>12. FromUi(AppEsc(u))
    BY <1>1 DEF AppEsc
  <1> QED BY <1>1, <1>2, <1>3, <1>4, <1>5, <1>6, <1>7, <1>8, <1>9, <1>10, <1>11, <1>12

LEMMA MemoryOpened ==
  ASSUME NEW u, FromUi(u), NEW mode \in MemoryModes
  PROVE  /\ FromUi(OpenMemory(u, mode)) /\ OpenMemory(u, mode).panel \in MemoryState
  <1>1. OpenMemorySurface(mode, u.opening + 1) \in MemoryState
    <2>1. 0 \in 0..MaxItems /\ 0 \in 0..MaxLines /\ u.opening + 1 \in Nat /\ 0 \in Nat
      BY ItemsAssumption DEF FromUi, Terminal
    <2>2. NoForm \in FormState
      BY DEF NoForm, FormState
    <2> QED BY <2>1, <2>2 DEF OpenMemorySurface, MemoryState, FormState, MemoryStatuses
  <1>2. OpenMemorySurface(mode, u.opening + 1).kind = "memory" /\ PanelTyped(OpenMemorySurface(mode, u.opening + 1))
    BY <1>1, MemoryStateIs
  <1> QED BY <1>1, <1>2 DEF OpenMemory, FromUi, Terminal, UiFields

-----------------------------------------------------------------------------
(* What the panels' writers leave behind *)

\* Where a window that follows its highlight starts.
LEMMA WindowStarts ==
  ASSUME NEW total \in Nat, NEW visible \in Nat, NEW index \in Int, NEW offset \in Int
  PROVE  ResolveWindowOffset(index, offset, visible, total) \in 0..total
  BY DEF ResolveWindowOffset, Clamp, AtMost, AtLeast

LEMMA RowsOfPanels ==
  ASSUME NEW u, u.rows \in Nat
  PROVE  /\ \A kind \in PanelKinds \ {"connect"} : ListRows(u, kind) \in Nat \ {0}
         /\ \A m : MemoryBodyRows(m, DockedPanelRows(u)) \in Nat \ {0}
  <1>1. DockedPanelRows(u) \in Int
    BY DEF DockedPanelRows, ResolveDockedPanelRows, Clamp, AtMost, AtLeast, DockedRows, MaxHeightDivisor, HeaderRows
  <1>2. \A chrome \in Nat, reserved \in Nat : CommandSurfaceBodyRows(DockedPanelRows(u), chrome, reserved) \in Nat \ {0}
    BY <1>1 DEF CommandSurfaceBodyRows, AtLeast
  <1>3. \A m : MemoryBodyRows(m, DockedPanelRows(u)) \in Nat \ {0}
    BY <1>2 DEF MemoryBodyRows
  <1>4. \A n \in Nat \ {0} : AtLeast(1, n - 1) \in Nat \ {0} /\ AtLeast(1, AtMost(10, n)) \in Nat \ {0}
    BY DEF AtLeast, AtMost
  <1>5. ListRows(u, "memory") \in Nat \ {0}
    BY <1>3, <1>4 DEF ListRows, MemoryListRows
  <1>6. /\ CommandSurfaceBodyRows(DockedPanelRows(u), 4, 0) \in Nat \ {0}
        /\ CommandSurfaceBodyRows(DockedPanelRows(u), 5, 0) \in Nat \ {0}
    BY <1>2
  <1>7. ListRows(u, "model") \in Nat \ {0} /\ ListRows(u, "theme") \in Nat \ {0}
    BY <1>6 DEF ListRows
  <1>8. ListRows(u, "resume") \in Nat \ {0}
    BY <1>4, <1>6 DEF ListRows
  <1> QED BY <1>3, <1>5, <1>7, <1>8 DEF PanelKinds

LEMMA MemoryTyped ==
  ASSUME NEW m \in MemoryState
  PROVE  /\ ResetMemoryData(m) \in MemoryState
         /\ \A items \in 0..MaxItems, inbox \in 0..MaxItems : SetMemoryData(m, items, inbox) \in MemoryState
         /\ SetMemoryFailure(m) \in MemoryState /\ SetMemoryBusy(m) \in MemoryState
         /\ SwitchMemoryMode(m) \in MemoryState
         /\ \A delta \in Int, visible \in Nat : MoveMemoryHighlight(m, delta, visible) \in MemoryState
         /\ \A delta \in Int, visible \in Nat : ScrollMemoryDetail(m, delta, visible) \in MemoryState
         /\ \A lines \in 0..MaxLines, by \in Nat : SetMemoryDetail(m, lines, by) \in MemoryState
         /\ OpenAddMemoryForm(m) \in MemoryState /\ CloseMemoryForm(m) \in MemoryState
         /\ \A by \in Nat : OpenEditMemoryForm(m, by) \in MemoryState
         /\ \A pick \in {"none", "edit", "forget"} : SetPendingItemAction(m, pick) \in MemoryState
         /\ \A item \in 0..MaxItems : SetForgetConfirm(m, item) \in MemoryState
         /\ HighlightedItem(m) \in 0..MaxItems
         /\ SetFormField(m) \in MemoryState /\ SetFormBody(m) \in MemoryState
         /\ \A blank \in BOOLEAN : SetFormTitle(m, blank) \in MemoryState
         /\ \A error \in {"none", "title", "submit"} : SetFormError(m, error) \in MemoryState
         /\ [m EXCEPT !.resized = TRUE] \in MemoryState /\ SubmitFailed(m) \in MemoryState
  <1>1. 0 \in 0..MaxItems /\ 0 \in 0..MaxLines
    BY ItemsAssumption
  <1>2. /\ {"loading", "loaded", "empty", "busy", "failed"} \subseteq MemoryStatuses
        /\ \A mode : StatusForMode(m.items, m.inbox, mode) \in MemoryStatuses
        /\ \A items, inbox, mode : StatusForMode(items, inbox, mode) \in MemoryStatuses
    BY DEF MemoryStatuses, StatusForMode
  <1>3. NoForm \in FormState /\ AddForm \in FormState /\ EditForm \in FormState
    BY DEF NoForm, AddForm, EditForm, FormState
  <1>4. ResetMemoryData(m) \in MemoryState
    BY <1>1, <1>2, MemoryFields DEF ResetMemoryData
  <1>5. ASSUME NEW items \in 0..MaxItems, NEW inbox \in 0..MaxItems
        PROVE  SetMemoryData(m, items, inbox) \in MemoryState
    BY <1>1, <1>2, MemoryFields DEF SetMemoryData
  <1>6. SetMemoryFailure(m) \in MemoryState /\ SetMemoryBusy(m) \in MemoryState
    BY <1>2, MemoryFields DEF SetMemoryFailure, SetMemoryBusy
  <1>7. SwitchMemoryMode(m) \in MemoryState
    <2> DEFINE mode == IF m.mode = "active" THEN "inbox" ELSE "active"
               n == [[[[m EXCEPT !.mode = mode] EXCEPT !.highlight = 0] EXCEPT !.offset = 0] EXCEPT !.detail = 0]
    <2>1. mode \in MemoryModes
      BY DEF MemoryModes
    <2> HIDE DEF mode
    <2>2. n \in MemoryState
      BY <1>1, <2>1, MemoryFields
    <2> HIDE DEF n
    <2>3. n.status \in MemoryStatuses
      BY <2>2, MemoryStateIs
    <2>4. SwitchMemoryMode(m) = [n EXCEPT !.status = IF n.status \in {"loaded", "empty"}
                                                     THEN StatusForMode(m.items, m.inbox, mode) ELSE n.status]
      BY DEF SwitchMemoryMode, n, mode
    <2> DEFINE status == IF n.status \in {"loaded", "empty"}
                         THEN StatusForMode(m.items, m.inbox, mode) ELSE n.status
    <2>5. status \in MemoryStatuses
      BY <1>2, <2>3
    <2> HIDE DEF status
    <2>6. [n EXCEPT !.status = status] \in MemoryState
      BY <2>2, <2>5, MemoryFields
    <2> QED BY <2>4, <2>6 DEF status
  <1>8. ASSUME NEW delta \in Int, NEW visible \in Nat
        PROVE  MoveMemoryHighlight(m, delta, visible) \in MemoryState
    <2> DEFINE total == CurrentListLength(m)
               next  == Clamp(m.highlight + delta, 0, total - 1)
               n     == [[m EXCEPT !.highlight = next] EXCEPT !.resized = FALSE]
               start == ResolveWindowOffset(next, m.offset, visible, total)
    <2>1. total \in 0..MaxItems /\ m.highlight \in Int /\ m.offset \in Int /\ MaxItems \in Nat
      BY MemoryStateIs, ItemsAssumption DEF CurrentListLength
    <2>2. CASE total # 0
      <3>1. next \in 0..MaxItems /\ next \in Int
        <4> HIDE DEF total
        <4> QED BY <2>1, <2>2 DEF Clamp, AtMost, AtLeast
      <3>2. start \in 0..MaxItems
        <4>1. total \in Nat
          BY <2>1
        <4> HIDE DEF total, next
        <4>2. start \in 0..total
          BY <2>1, <3>1, <4>1, WindowStarts
        <4> QED BY <2>1, <4>1, <4>2
      <3>3. [m EXCEPT !.highlight = next, !.resized = FALSE, !.offset = ResolveWindowOffset(next, @, visible, total)]
              = [n EXCEPT !.offset = start]
        <4> HIDE DEF total, next
        <4>1. n.offset = m.offset
          BY MemoryStateIs
        <4> QED BY <4>1
      <3> HIDE DEF next, start
      <3>4. n \in MemoryState
        BY <3>1, MemoryFields
      <3> HIDE DEF n
      <3>5. [n EXCEPT !.offset = start] \in MemoryState
        BY <3>2, <3>4, MemoryFields
      <3> QED BY <3>3, <3>5 DEF MoveMemoryHighlight, next
    <2>3. CASE total = 0
      BY <2>3 DEF MoveMemoryHighlight
    <2> QED BY <2>2, <2>3
  <1>9. ASSUME NEW delta \in Int, NEW visible \in Nat
        PROVE  ScrollMemoryDetail(m, delta, visible) \in MemoryState
    <2>1. Clamp(m.detailOffset + delta, 0, AtLeast(0, m.detail - visible)) \in 0..MaxLines
      BY MemoryStateIs, ItemsAssumption DEF Clamp, AtMost, AtLeast
    <2> QED BY <2>1, MemoryFields DEF ScrollMemoryDetail
  <1>10. ASSUME NEW lines \in 0..MaxLines, NEW by \in Nat
         PROVE  SetMemoryDetail(m, lines, by) \in MemoryState
    BY <1>1, MemoryFields DEF SetMemoryDetail
  <1>11. /\ OpenAddMemoryForm(m) \in MemoryState /\ CloseMemoryForm(m) \in MemoryState
         /\ \A by \in Nat : OpenEditMemoryForm(m, by) \in MemoryState
    <2>1. \A form \in FormState : \A by \in Nat :
            [[[m EXCEPT !.pick = "none"] EXCEPT !.form = form] EXCEPT !.formOf = by] \in MemoryState
      BY MemoryFields
    <2>2. \A form \in FormState : [m EXCEPT !.form = form] \in MemoryState
      BY MemoryFields
    <2>3. m.opening \in Nat
      BY MemoryStateIs
    <2>4. OpenAddMemoryForm(m) \in MemoryState /\ CloseMemoryForm(m) \in MemoryState
      BY <1>3, <2>1, <2>2, <2>3 DEF OpenAddMemoryForm, CloseMemoryForm
    <2>5. \A by \in Nat : OpenEditMemoryForm(m, by) \in MemoryState
      BY <1>3, <2>1 DEF OpenEditMemoryForm
    <2> QED BY <2>4, <2>5
  <1>12. ASSUME NEW pick \in {"none", "edit", "forget"}
         PROVE  SetPendingItemAction(m, pick) \in MemoryState
    BY <1>1, MemoryFields DEF SetPendingItemAction
  <1>13. ASSUME NEW item \in 0..MaxItems PROVE SetForgetConfirm(m, item) \in MemoryState
    BY <1>1, MemoryFields DEF SetForgetConfirm
  <1>14. HighlightedItem(m) \in 0..MaxItems
    BY MemoryStateIs, ItemsAssumption DEF HighlightedItem
  <1>15. /\ SetFormField(m) \in MemoryState /\ SetFormBody(m) \in MemoryState
         /\ \A blank \in BOOLEAN : SetFormTitle(m, blank) \in MemoryState
         /\ \A error \in {"none", "title", "submit"} : SetFormError(m, error) \in MemoryState
    <2>1. m.form \in FormState
      BY MemoryStateIs
    <2>2. \A form \in FormState : [m EXCEPT !.form = form] \in MemoryState
      BY MemoryFields
    <2>3. ASSUME NEW f \in FormState
          PROVE  /\ \A field \in {"title", "body"} : [f EXCEPT !.field = field] \in FormState
                 /\ \A blank \in BOOLEAN : [f EXCEPT !.blank = blank] \in FormState
                 /\ \A error \in {"none", "title", "submit"} : [f EXCEPT !.error = error] \in FormState
      BY DEF FormState
    <2>4. SetFormField(m) \in MemoryState
      <3> DEFINE field == IF m.form.field = "title" THEN "body" ELSE "title"
      <3>1. SetFormField(m) = [m EXCEPT !.form = [m.form EXCEPT !.field = field]]
        BY DEF SetFormField
      <3>2. field \in {"title", "body"}
        OBVIOUS
      <3> HIDE DEF field
      <3> QED BY <2>1, <2>2, <2>3, <3>1, <3>2
    <2>5. SetFormBody(m) \in MemoryState
      <3> DEFINE error == IF m.form.error = "submit" THEN "none" ELSE m.form.error
      <3>1. SetFormBody(m) = [m EXCEPT !.form = [m.form EXCEPT !.error = error]]
        BY DEF SetFormBody
      <3>2. error \in {"none", "title", "submit"}
        BY <2>1 DEF FormState
      <3> HIDE DEF error
      <3> QED BY <2>1, <2>2, <2>3, <3>1, <3>2
    <2>6. \A error \in {"none", "title", "submit"} : SetFormError(m, error) \in MemoryState
      BY <2>1, <2>2, <2>3 DEF SetFormError
    <2>7. ASSUME NEW blank \in BOOLEAN PROVE SetFormTitle(m, blank) \in MemoryState
      <3> DEFINE f == [m.form EXCEPT !.blank = blank]
                 n == [m EXCEPT !.form = f]
      <3>1. SetFormTitle(m, blank) = [n EXCEPT !.form = [n.form EXCEPT !.error = "none"]]
        BY DEF SetFormTitle
      <3>2. n \in MemoryState
        BY <2>1, <2>2, <2>3
      <3> HIDE DEF n, f
      <3>3. n.form \in FormState
        BY <3>2, MemoryStateIs
      <3>4. [n.form EXCEPT !.error = "none"] \in FormState
        BY <2>3, <3>3
      <3>5. \A form \in FormState : [n EXCEPT !.form = form] \in MemoryState
        BY <3>2, MemoryFields
      <3> QED BY <3>1, <3>4, <3>5
    <2> QED BY <2>4, <2>5, <2>6, <2>7
  <1>16. [m EXCEPT !.resized = TRUE] \in MemoryState
    BY MemoryFields
  <1>17. SubmitFailed(m) \in MemoryState
    <2> DEFINE n == SetFormError(m, "submit")
    <2>1. n \in MemoryState
      BY <1>15
    <2> HIDE DEF n
    <2>2. [n EXCEPT !.doubted = TRUE] \in MemoryState
      BY <2>1, MemoryFields
    <2> QED BY <2>2 DEF SubmitFailed, n
  <1> QED BY <1>4, <1>5, <1>6, <1>7, <1>8, <1>9, <1>10, <1>11, <1>12, <1>13, <1>14, <1>15, <1>16, <1>17

\* The fields of /model, one by one.
LEMMA ModelFieldsTyped ==
  ASSUME NEW m, ModelTyped(m)
  PROVE  /\ \A x : ModelTyped([m EXCEPT !.highlight = x]) /\ ModelTyped([m EXCEPT !.active = x])
         /\ \A x : ModelTyped([m EXCEPT !.listed = x]) /\ ModelTyped([m EXCEPT !.outcome = x])
         /\ \A x : ModelTyped([m EXCEPT !.error = x])
         /\ \A x \in Nat : ModelTyped([m EXCEPT !.offset = x])
         /\ \A x \in [ProviderSet -> Load] : ModelTyped([m EXCEPT !.loads = x])
         /\ \A x \in ProviderSet \cup {None} : ModelTyped([m EXCEPT !.inline = x])
         /\ \A x \in BOOLEAN : ModelTyped([m EXCEPT !.inFlight = x])
  <1> USE DEF ModelTyped, ModelShape, ModelFields
  <1>1. \A x : ModelTyped([m EXCEPT !.highlight = x]) /\ ModelTyped([m EXCEPT !.active = x])
    OBVIOUS
  <1>2. \A x : ModelTyped([m EXCEPT !.listed = x]) /\ ModelTyped([m EXCEPT !.outcome = x])
    OBVIOUS
  <1>3. \A x : ModelTyped([m EXCEPT !.error = x])
    OBVIOUS
  <1>4. \A x \in Nat : ModelTyped([m EXCEPT !.offset = x])
    OBVIOUS
  <1>5. \A x \in [ProviderSet -> Load] : ModelTyped([m EXCEPT !.loads = x])
    OBVIOUS
  <1>6. \A x \in ProviderSet \cup {None} : ModelTyped([m EXCEPT !.inline = x])
    OBVIOUS
  <1>7. \A x \in BOOLEAN : ModelTyped([m EXCEPT !.inFlight = x])
    OBVIOUS
  <1> HIDE DEF ModelTyped
  <1> QED BY <1>1, <1>2, <1>3, <1>4, <1>5, <1>6, <1>7

LEMMA ModelWindowTyped ==
  ASSUME NEW m, ModelTyped(m), NEW v \in Nat \ {0}
  PROVE  /\ \A index \in Int : ModelTyped(EnsureVisible(m, index, v))
         /\ \A id : RowIndex(ModelRows(m), id) \in Int
         /\ VisualRow(m) \in Int
         /\ \A visual \in Int : ModelTyped(EnsureHighlight(m, visual, v))
  <1>1. ASSUME NEW n, ModelTyped(n)
        PROVE  /\ Len(ModelRows(n)) \in Nat /\ \A id : RowIndex(ModelRows(n), id) \in Int
               /\ n.offset \in Nat
               /\ \A index \in Int : ModelTyped(EnsureVisible(n, index, v))
    <2>1. ModelRows(n) \in Seq(Row) /\ n.offset \in Nat
      BY <1>1, ModelRowsAre DEF ModelTyped, ModelShape
    <2>2. Len(ModelRows(n)) \in Nat /\ \A id : RowIndex(ModelRows(n), id) \in Int
      BY <2>1, RowIndexIs
    <2>3. ASSUME NEW index \in Int PROVE ModelTyped(EnsureVisible(n, index, v))
      <3>1. ResolveWindowOffset(index, n.offset, v, Len(ModelRows(n))) \in Nat
        <4> DEFINE total == Len(ModelRows(n))
        <4> HIDE DEF total
        <4>1. total \in Nat /\ v \in Nat /\ n.offset \in Int
          BY <2>1, <2>2 DEF total
        <4>2. ResolveWindowOffset(index, n.offset, v, total) \in 0..total
          BY <4>1, WindowStarts
        <4>3. ResolveWindowOffset(index, n.offset, v, total) \in Nat
          BY <4>1, <4>2
        <4> QED BY <4>3 DEF total
      <3> QED BY <1>1, <3>1, ModelFieldsTyped DEF EnsureVisible
    <2> QED BY <2>1, <2>2, <2>3
  <1>2. VisualRow(m) \in Int
    <2>1. RowIndex(ModelRows(m), m.highlight) \in Int /\ m.offset \in Int
      <3>1. m.offset \in Nat /\ \A id : RowIndex(ModelRows(m), id) \in Int
        BY <1>1
      <3> QED BY <3>1
    <2> QED BY <2>1 DEF VisualRow
  <1>3. ASSUME NEW visual \in Int PROVE ModelTyped(EnsureHighlight(m, visual, v))
    <2> DEFINE rows    == FocusableRows(m)
               present == m.highlight # NoSelection /\ RowIndex(rows, m.highlight) >= 0
               next    == IF present THEN m.highlight ELSE RowIdentity(rows[1])
               moved   == [m EXCEPT !.highlight = next]
               index   == RowIndex(ModelRows(m), next)
               offset  == Clamp(index - visual, 0, AtLeast(0, Len(ModelRows(m)) - v))
               none    == [[m EXCEPT !.highlight = NoSelection] EXCEPT !.offset = 0]
    <2>1. \/ EnsureHighlight(m, visual, v) = none
          \/ EnsureHighlight(m, visual, v) = m
          \/ EnsureHighlight(m, visual, v) = [moved EXCEPT !.offset = offset]
          \/ EnsureHighlight(m, visual, v) = EnsureVisible(moved, index, v)
      BY DEF EnsureHighlight
    <2>2. ModelTyped(none)
      <3>1. ModelTyped([m EXCEPT !.highlight = NoSelection])
        BY ModelFieldsTyped
      <3> QED BY <3>1, ModelFieldsTyped
    <2> HIDE DEF next, none
    <2>3. index \in Int /\ Len(ModelRows(m)) \in Nat
      BY <1>1
    <2>4. offset \in Nat
      <3> HIDE DEF index
      <3> QED BY <2>3 DEF Clamp, AtMost, AtLeast
    <2>5. ModelTyped(moved)
      BY ModelFieldsTyped
    <2> HIDE DEF index, offset, moved
    <2>6. ModelTyped([moved EXCEPT !.offset = offset])
      BY <2>4, <2>5, ModelFieldsTyped
    <2>7. ModelTyped(EnsureVisible(moved, index, v))
      BY <1>1, <2>3, <2>5
    <2> QED BY <2>1, <2>2, <2>6, <2>7
  <1> QED BY <1>1, <1>2, <1>3

LEMMA ModelWritersTyped ==
  ASSUME NEW m, ModelTyped(m), NEW v \in Nat \ {0}
  PROVE  /\ \A connected : ModelTyped(SetModelProvidersLoading(m, connected, v))
         /\ \A selection : ModelTyped(SetModelActiveSelection(m, selection, v))
         /\ \A p : \A load \in Load : ModelTyped(SetProviderModelLoad(m, p, load, v))
         /\ \A delta \in Int : ModelTyped(MoveModelHighlight(m, delta, v))
         /\ ModelTyped(ScrollModelHighlightIntoView(m, v))
         /\ \A p \in ProviderSet : ModelTyped(StartInlineConnect(m, p))
         /\ ModelTyped(CancelInlineConnect(m)) /\ ModelTyped(SubmitInlineKey(m))
         /\ ModelTyped([m EXCEPT !.inFlight = FALSE])
         /\ ModelTyped([m EXCEPT !.outcome = "refused", !.inFlight = FALSE])
         /\ ModelTyped([m EXCEPT !.error = TRUE, !.inFlight = FALSE])
  <1>1. -1 \in Int
    OBVIOUS
  <1>2. ASSUME NEW n, ModelTyped(n), NEW visual \in Int PROVE ModelTyped(EnsureHighlight(n, visual, v))
    BY <1>2, ModelWindowTyped
  <1>3. ASSUME NEW connected PROVE ModelTyped(SetModelProvidersLoading(m, connected, v))
    <2> DEFINE load(p) == [status |-> IF p \in connected THEN "loading" ELSE "notConnected",
                           models |-> <<>>]
               loads   == [p \in ProviderSet |-> load(p)]
               n       == [[m EXCEPT !.listed = TRUE] EXCEPT !.loads = loads]
    <2>1. \A p : load(p) \in Load
      <3>1. <<>> \in Seq(ModelSet)
        OBVIOUS
      <3> QED BY <3>1 DEF Load, LoadStatuses
    <2> HIDE DEF load
    <2>2. loads \in [ProviderSet -> Load]
      BY <2>1
    <2> HIDE DEF loads
    <2>3. ModelTyped([m EXCEPT !.listed = TRUE])
      BY ModelFieldsTyped
    <2>4. ModelTyped(n)
      BY <2>2, <2>3, ModelFieldsTyped
    <2>5. SetModelProvidersLoading(m, connected, v) = EnsureHighlight(n, -1, v)
      BY DEF SetModelProvidersLoading, loads, load
    <2> HIDE DEF n
    <2> QED BY <1>1, <1>2, <2>4, <2>5
  <1>4. ASSUME NEW selection PROVE ModelTyped(SetModelActiveSelection(m, selection, v))
    <2> DEFINE n == [[m EXCEPT !.active = selection] EXCEPT
                       !.highlight = IF selection.provider # None /\ selection.model # None
                                     THEN selection ELSE @]
    <2>1. ModelTyped([m EXCEPT !.active = selection])
      BY ModelFieldsTyped
    <2>2. ModelTyped(n)
      BY <2>1, ModelFieldsTyped
    <2>3. SetModelActiveSelection(m, selection, v) = EnsureHighlight(n, -1, v)
      BY DEF SetModelActiveSelection
    <2> HIDE DEF n
    <2> QED BY <1>1, <1>2, <2>2, <2>3
  <1>5. ASSUME NEW p, NEW load \in Load PROVE ModelTyped(SetProviderModelLoad(m, p, load, v))
    <2> DEFINE n == [m EXCEPT !.loads = [m.loads EXCEPT ![p] = load]]
    <2>1. [m.loads EXCEPT ![p] = load] \in [ProviderSet -> Load]
      BY DEF ModelTyped, ModelShape
    <2>2. ModelTyped(n)
      BY <2>1, ModelFieldsTyped
    <2>3. SetProviderModelLoad(m, p, load, v) = EnsureHighlight(n, VisualRow(m), v)
      BY DEF SetProviderModelLoad
    <2> HIDE DEF n
    <2>4. VisualRow(m) \in Int
      BY ModelWindowTyped
    <2> QED BY <1>2, <2>2, <2>3, <2>4
  <1>6. ASSUME NEW delta \in Int PROVE ModelTyped(MoveModelHighlight(m, delta, v))
    <2> DEFINE current == AtLeast(0, RowIndex(FocusableRows(m), m.highlight))
               next    == RowIdentity(FocusableRows(m)[Clamp(current + delta, 0, Len(FocusableRows(m)) - 1) + 1])
               n       == [m EXCEPT !.highlight = next]
    <2>1. \/ MoveModelHighlight(m, delta, v) = m
          \/ MoveModelHighlight(m, delta, v) = EnsureVisible(n, RowIndex(ModelRows(m), next), v)
      BY DEF MoveModelHighlight
    <2> HIDE DEF next
    <2>2. ModelTyped(n)
      BY ModelFieldsTyped
    <2>3. RowIndex(ModelRows(m), next) \in Int
      BY ModelWindowTyped
    <2> HIDE DEF n
    <2>4. ModelTyped(EnsureVisible(n, RowIndex(ModelRows(m), next), v))
      BY <2>2, <2>3, ModelWindowTyped
    <2> QED BY <2>1, <2>4
  <1>7. ModelTyped(ScrollModelHighlightIntoView(m, v))
    BY ModelWindowTyped DEF ScrollModelHighlightIntoView
  <1>8. ASSUME NEW x \in ProviderSet \cup {None}, NEW y, NEW z
        PROVE  ModelTyped([[[m EXCEPT !.inline = x] EXCEPT !.outcome = y] EXCEPT !.error = z])
    <2>1. ModelTyped([m EXCEPT !.inline = x])
      BY ModelFieldsTyped
    <2>2. ModelTyped([[m EXCEPT !.inline = x] EXCEPT !.outcome = y])
      BY <2>1, ModelFieldsTyped
    <2> QED BY <2>2, ModelFieldsTyped
  <1>9. /\ \A p \in ProviderSet : ModelTyped(StartInlineConnect(m, p))
        /\ ModelTyped(CancelInlineConnect(m))
    BY <1>8 DEF StartInlineConnect, CancelInlineConnect
  <1>10. ModelTyped(SubmitInlineKey(m))
    <2>1. ModelTyped([m EXCEPT !.inFlight = TRUE])
      BY ModelFieldsTyped
    <2>2. ModelTyped([[m EXCEPT !.inFlight = TRUE] EXCEPT !.outcome = "none"])
      BY <2>1, ModelFieldsTyped
    <2> QED BY <2>2, ModelFieldsTyped DEF SubmitInlineKey
  <1>11. /\ ModelTyped([m EXCEPT !.inFlight = FALSE])
         /\ ModelTyped([m EXCEPT !.outcome = "refused", !.inFlight = FALSE])
         /\ ModelTyped([m EXCEPT !.error = TRUE, !.inFlight = FALSE])
    <2>1. ModelTyped([m EXCEPT !.outcome = "refused"]) /\ ModelTyped([m EXCEPT !.error = TRUE])
      BY ModelFieldsTyped
    <2> QED BY <2>1, ModelFieldsTyped
  <1> QED BY <1>3, <1>4, <1>5, <1>6, <1>7, <1>9, <1>10, <1>11

\* The row that is highlighted is of a provider, if it is any.
LEMMA HighlightTyped ==
  ASSUME NEW m, ModelTyped(m), NEW type \in {"model", "status"}, HighlightedModelRow(m).type = type
  PROVE  HighlightedModelRow(m).provider \in ProviderSet /\ HighlightedModelRow(m).model \in ModelSet \cup {None}
  <1> DEFINE index == RowIndex(ModelRows(m), m.highlight)
             none  == [type |-> "none", provider |-> None, model |-> None, status |-> "none"]
  <1>1. ModelRows(m) \in Seq(Row)
    BY ModelRowsAre DEF ModelTyped
  <1>2. none.type = "none"
    OBVIOUS
  <1>3. HighlightedModelRow(m) = ModelRows(m)[index + 1] /\ ~(index < 0)
    <2> HIDE DEF none
    <2>1. HighlightedModelRow(m) = IF m.highlight = NoSelection \/ index < 0 THEN none ELSE ModelRows(m)[index + 1]
      BY DEF HighlightedModelRow, none
    <2> QED BY <1>2, <2>1
  <1>4. index + 1 \in 1..Len(ModelRows(m))
    <2>1. index \in -1..(Len(ModelRows(m)) - 1) /\ Len(ModelRows(m)) \in Nat
      BY <1>1, RowIndexIs
    <2> HIDE DEF index
    <2> QED BY <1>3, <2>1
  <1>5. ModelRows(m)[index + 1] \in Row
    BY <1>1, <1>4
  <1> QED BY <1>3, <1>5 DEF Row

\* The fields of /connect, one by one.
LEMMA ConnectFieldsTyped ==
  ASSUME NEW c, ConnectTyped(c)
  PROVE  /\ \A x : ConnectTyped([c EXCEPT !.selected = x]) /\ ConnectTyped([c EXCEPT !.action = x])
         /\ \A x \in ConnectSteps : ConnectTyped([c EXCEPT !.step = x])
         /\ \A x \in BOOLEAN : /\ ConnectTyped([c EXCEPT !.inFlight = x]) /\ ConnectTyped([c EXCEPT !.url = x])
                               /\ ConnectTyped([c EXCEPT !.label = x]) /\ ConnectTyped([c EXCEPT !.confirm = x])
  <1>1. \A x : ConnectTyped([c EXCEPT !.selected = x]) /\ ConnectTyped([c EXCEPT !.action = x])
    BY DEF ConnectTyped
  <1>2. \A x \in ConnectSteps : ConnectTyped([c EXCEPT !.step = x])
    BY DEF ConnectTyped
  <1>3. \A x \in BOOLEAN : ConnectTyped([c EXCEPT !.inFlight = x]) /\ ConnectTyped([c EXCEPT !.url = x])
    BY DEF ConnectTyped
  <1>4. \A x \in BOOLEAN : ConnectTyped([c EXCEPT !.label = x]) /\ ConnectTyped([c EXCEPT !.confirm = x])
    BY DEF ConnectTyped
  <1> QED BY <1>1, <1>2, <1>3, <1>4

\* The provider selected is one of those that were read, or none.
LEMMA SelectedTyped ==
  ASSUME NEW c, NEW known \in Seq(KnownRow), c.selected \in Nat
  PROVE  /\ SelectedProvider(c, known) \in KnownRow \cup {NoProvider}
         /\ SelectedProvider(c, known).connected \in BOOLEAN /\ SelectedProvider(c, known).url \in BOOLEAN
  <1>1. SelectedProvider(c, known) \in KnownRow \cup {NoProvider}
    <2>1. CASE c.selected < Len(known)
      <3>1. c.selected + 1 \in 1..Len(known)
        BY <2>1
      <3>2. \A k \in 1..Len(known) : known[k] \in KnownRow
        <4> HIDE DEF KnownRow
        <4> QED OBVIOUS
      <3> QED BY <2>1, <3>1, <3>2 DEF SelectedProvider
    <2>2. CASE ~(c.selected < Len(known))
      BY <2>2 DEF SelectedProvider
    <2> QED BY <2>1, <2>2
  <1>2. \A row \in KnownRow : row.connected \in BOOLEAN /\ row.url \in BOOLEAN
    BY DEF KnownRow
  <1>3. NoProvider.connected \in BOOLEAN /\ NoProvider.url \in BOOLEAN
    BY DEF NoProvider
  <1> QED BY <1>1, <1>2, <1>3

LEMMA FlowTyped ==
  ASSUME NEW c, ConnectTyped(c), NEW provider, provider.url \in BOOLEAN
  PROVE  ConnectTyped(SetProviderFlow(c, provider))
  <1> DEFINE step == IF provider.connected THEN "connectedActions"
                     ELSE IF provider.id = Custom THEN "customUrl" ELSE "key"
             a == [c EXCEPT !.confirm = FALSE]
             b == [a EXCEPT !.action = ReplaceAction]
             url == IF provider.id = Custom THEN provider.url ELSE b.url
             d == [b EXCEPT !.url = url]
             label == IF provider.id = Custom THEN TRUE ELSE d.label
             e == [d EXCEPT !.label = label]
  <1>1. SetProviderFlow(c, provider) = [e EXCEPT !.step = step]
    BY DEF SetProviderFlow
  <1>2. step \in ConnectSteps
    BY DEF ConnectSteps
  <1>3. ConnectTyped(a)
    BY ConnectFieldsTyped
  <1> HIDE DEF step, a
  <1>4. ConnectTyped(b)
    BY <1>3, ConnectFieldsTyped
  <1> HIDE DEF b
  <1>5. url \in BOOLEAN
    BY <1>4 DEF ConnectTyped
  <1> HIDE DEF url
  <1>6. ConnectTyped(d)
    BY <1>4, <1>5, ConnectFieldsTyped
  <1> HIDE DEF d
  <1>7. label \in BOOLEAN
    BY <1>6 DEF ConnectTyped
  <1> HIDE DEF label
  <1>8. ConnectTyped(e)
    BY <1>6, <1>7, ConnectFieldsTyped
  <1> HIDE DEF e
  <1> QED BY <1>1, <1>2, <1>8, ConnectFieldsTyped

LEMMA ConnectWritersTyped ==
  ASSUME NEW c, ConnectTyped(c), NEW known \in Seq(KnownRow), c.selected \in Nat
  PROVE  /\ \A delta : ConnectTyped(MoveConnectSelection(c, delta, known))
         /\ ConnectTyped(ChooseSelectedProvider(c, known)) /\ ConnectTyped(BackConnectStep(c, known))
         /\ ConnectTyped(ToggleAction(c)) /\ ConnectTyped(ReplaceStep(c, known))
         /\ ConnectTyped(EnterOnAction(c, known))
         /\ \A b \in BOOLEAN : ConnectTyped([c EXCEPT !.confirm = b])
         /\ ConnectTyped(LeaveUrl(c)) /\ ConnectTyped(LeaveLabel(c))
         /\ \A b \in BOOLEAN : ConnectTyped(TypeUrl(c, b)) /\ ConnectTyped(TypeLabel(c, b))
         /\ ConnectTyped([c EXCEPT !.step = "customLabel"])
         /\ ConnectTyped(BeginMutation(c)) /\ ConnectTyped(EndMutation(c))
         /\ ConnectTyped(EndMutation([c EXCEPT !.confirm = FALSE]))
         /\ ConnectTyped(EndMutation([c EXCEPT !.step = "list", !.confirm = FALSE]))
         /\ \A target : ConnectTyped(SetConnectProviders(c, known, target))
  <1>1. ASSUME NEW d, ConnectTyped(d)
        PROVE  /\ \A x : ConnectTyped([d EXCEPT !.selected = x]) /\ ConnectTyped([d EXCEPT !.action = x])
               /\ \A x \in ConnectSteps : ConnectTyped([d EXCEPT !.step = x])
               /\ \A x \in BOOLEAN : /\ ConnectTyped([d EXCEPT !.inFlight = x]) /\ ConnectTyped([d EXCEPT !.url = x])
                                     /\ ConnectTyped([d EXCEPT !.label = x]) /\ ConnectTyped([d EXCEPT !.confirm = x])
    BY <1>1, ConnectFieldsTyped
  <1>2. /\ {"list", "connectedActions", "customUrl", "customLabel", "key"} \subseteq ConnectSteps
        /\ c.step \in ConnectSteps
    BY DEF ConnectSteps, ConnectTyped
  <1>3. \A delta : ConnectTyped(MoveConnectSelection(c, delta, known))
    BY <1>1 DEF MoveConnectSelection
  <1>4. ConnectTyped(ChooseSelectedProvider(c, known))
    BY SelectedTyped, FlowTyped DEF ChooseSelectedProvider
  <1>5. ConnectTyped(BackConnectStep(c, known))
    <2> DEFINE d == [c EXCEPT !.confirm = FALSE]
               step == CASE d.step = "customLabel" -> "customUrl"
                         [] d.step = "key" /\ SelectedProvider(c, known).id = Custom -> "customLabel"
                         [] OTHER -> "list"
    <2>1. BackConnectStep(c, known) = [d EXCEPT !.step = step]
      BY DEF BackConnectStep
    <2>2. step \in ConnectSteps
      BY <1>2
    <2>3. ConnectTyped(d)
      BY <1>1
    <2> HIDE DEF d, step
    <2> QED BY <1>1, <2>1, <2>2, <2>3
  <1>6. ConnectTyped(ToggleAction(c))
    BY <1>1 DEF ToggleAction
  <1>7. ConnectTyped(ReplaceStep(c, known))
    BY <1>1, <1>2 DEF ReplaceStep
  <1>8. \A b \in BOOLEAN : ConnectTyped([c EXCEPT !.confirm = b])
    BY <1>1
  <1>9. ConnectTyped(EnterOnAction(c, known))
    BY <1>7, <1>8 DEF EnterOnAction
  <1>10. ConnectTyped(LeaveUrl(c)) /\ ConnectTyped(LeaveLabel(c)) /\ ConnectTyped([c EXCEPT !.step = "customLabel"])
    BY <1>1, <1>2 DEF LeaveUrl, LeaveLabel
  <1>11. \A b \in BOOLEAN : ConnectTyped(TypeUrl(c, b)) /\ ConnectTyped(TypeLabel(c, b))
    BY <1>1 DEF TypeUrl, TypeLabel
  <1>12. ConnectTyped(BeginMutation(c)) /\ ConnectTyped(EndMutation(c))
    BY <1>1 DEF BeginMutation, EndMutation
  <1>13. ConnectTyped(EndMutation([c EXCEPT !.confirm = FALSE]))
    <2>1. ConnectTyped([c EXCEPT !.confirm = FALSE])
      BY <1>1
    <2> QED BY <2>1, ConnectFieldsTyped DEF EndMutation
  <1>14. ConnectTyped(EndMutation([c EXCEPT !.step = "list", !.confirm = FALSE]))
    <2>1. ConnectTyped([c EXCEPT !.step = "list"])
      BY <1>1, <1>2
    <2>2. ConnectTyped([c EXCEPT !.step = "list", !.confirm = FALSE])
      BY <2>1, ConnectFieldsTyped
    <2> QED BY <2>2, ConnectFieldsTyped DEF EndMutation
  <1>15. ASSUME NEW target PROVE ConnectTyped(SetConnectProviders(c, known, target))
    <2> DEFINE index == TargetIndex(known, target)
               d == [c EXCEPT !.selected = index]
    <2>1. CASE index >= 0
      <3>1. known[index + 1].url \in BOOLEAN
        <4>1. \E i \in DOMAIN known : known[i].id = target
          BY <2>1 DEF TargetIndex
        <4>2. PICK i \in DOMAIN known : index = i - 1
          BY <4>1 DEF TargetIndex
        <4>3. i \in 1..Len(known) /\ Len(known) \in Nat
          OBVIOUS
        <4> HIDE DEF index
        <4>4. index + 1 = i
          BY <4>2, <4>3
        <4>5. known[i] \in KnownRow
          BY <4>3
        <4> QED BY <4>4, <4>5 DEF KnownRow
      <3>2. ConnectTyped(d)
        BY <1>1
      <3>3. SetConnectProviders(c, known, target) = SetProviderFlow(d, known[index + 1])
        BY <2>1 DEF SetConnectProviders
      <3> HIDE DEF d, index
      <3> QED BY <3>1, <3>2, <3>3, FlowTyped
    <2>2. CASE ~(index >= 0)
      BY <1>1, <2>2 DEF SetConnectProviders
    <2> QED BY <2>1, <2>2
  <1> QED BY <1>3, <1>4, <1>5, <1>6, <1>7, <1>8, <1>9, <1>10, <1>11, <1>12, <1>13, <1>14, <1>15

LEMMA ResumeTyped ==
  ASSUME NEW r \in ResumeState
  PROVE  /\ \A sessions \in 0..MaxSessions : SetResumeRows(r, sessions) \in ResumeState
         /\ SetResumeFailure(r) \in ResumeState /\ SetResumeResuming(r) \in ResumeState
         /\ [r EXCEPT !.resized = TRUE] \in ResumeState
         /\ \A delta \in Int, visible \in Nat : MoveResumeHighlight(r, delta, visible) \in ResumeState
  <1>1. ASSUME NEW x \in ResumeState
        PROVE  /\ \A n \in 0..MaxSessions : [x EXCEPT !.sessions = n] \in ResumeState
               /\ \A n \in 0..MaxSessions : [x EXCEPT !.highlight = n] \in ResumeState
               /\ \A n \in Nat : [x EXCEPT !.offset = n] \in ResumeState
               /\ \A n \in BOOLEAN : [x EXCEPT !.resized = n] \in ResumeState
               /\ \A n \in ResumeStatuses : [x EXCEPT !.status = n] \in ResumeState
    <2>1. \A n \in 0..MaxSessions : [x EXCEPT !.sessions = n] \in ResumeState /\ [x EXCEPT !.highlight = n] \in ResumeState
      BY DEF ResumeState
    <2>2. \A n \in Nat : [x EXCEPT !.offset = n] \in ResumeState
      BY DEF ResumeState
    <2>3. \A n \in BOOLEAN : [x EXCEPT !.resized = n] \in ResumeState
      BY DEF ResumeState
    <2>4. \A n \in ResumeStatuses : [x EXCEPT !.status = n] \in ResumeState
      BY DEF ResumeState
    <2> QED BY <2>1, <2>2, <2>3, <2>4
  <1>2. {"loading", "loaded", "empty", "resuming", "failed"} \subseteq ResumeStatuses
    BY DEF ResumeStatuses
  <1>3. 0 \in 0..MaxSessions /\ 0 \in Nat
    BY SizesAssumption
  <1>4. ASSUME NEW sessions \in 0..MaxSessions PROVE SetResumeRows(r, sessions) \in ResumeState
    <2> DEFINE status == IF sessions = 0 THEN "empty" ELSE "loaded"
    <2>1. SetResumeRows(r, sessions)
            = [[[[r EXCEPT !.sessions = sessions] EXCEPT !.status = status] EXCEPT !.highlight = 0] EXCEPT !.offset = 0]
      BY DEF SetResumeRows
    <2>2. status \in ResumeStatuses
      BY <1>2
    <2> HIDE DEF status
    <2>3. [[r EXCEPT !.sessions = sessions] EXCEPT !.status = status] \in ResumeState
      BY <1>1, <2>2
    <2>4. [[[r EXCEPT !.sessions = sessions] EXCEPT !.status = status] EXCEPT !.highlight = 0] \in ResumeState
      BY <1>1, <1>3, <2>3
    <2> QED BY <1>1, <1>3, <2>1, <2>4
  <1>5. SetResumeFailure(r) \in ResumeState /\ SetResumeResuming(r) \in ResumeState
    BY <1>1, <1>2 DEF SetResumeFailure, SetResumeResuming
  <1>6. ASSUME NEW delta \in Int, NEW visible \in Nat PROVE MoveResumeHighlight(r, delta, visible) \in ResumeState
    <2> DEFINE next == Clamp(r.highlight + delta, 0, r.sessions - 1)
               n    == [[r EXCEPT !.highlight = next] EXCEPT !.resized = FALSE]
               start == ResolveWindowOffset(next, r.offset, visible, r.sessions)
    <2>1. /\ r.sessions \in 0..MaxSessions /\ r.highlight \in 0..MaxSessions /\ r.offset \in Nat
          /\ MaxSessions \in Nat /\ "offset" \in DOMAIN r
      BY SizesAssumption DEF ResumeState
    <2>2. CASE r.sessions # 0
      <3>1. next \in 0..MaxSessions /\ next \in Int
        BY <2>1, <2>2 DEF Clamp, AtMost, AtLeast
      <3>2. [r EXCEPT !.highlight = next, !.resized = FALSE, !.offset = ResolveWindowOffset(next, @, visible, r.sessions)]
              = [n EXCEPT !.offset = start]
        <4> HIDE DEF next
        <4>1. n.offset = r.offset
          BY <2>1
        <4> QED BY <4>1
      <3> HIDE DEF next
      <3>3. start \in Nat
        <4>1. r.sessions \in Nat /\ r.offset \in Int
          BY <2>1
        <4>2. start \in 0..r.sessions
          BY <3>1, <4>1, WindowStarts
        <4> QED BY <4>1, <4>2
      <3>4. n \in ResumeState
        BY <1>1, <3>1
      <3> HIDE DEF start, n
      <3>5. [n EXCEPT !.offset = start] \in ResumeState
        BY <1>1, <3>3, <3>4
      <3> QED BY <3>2, <3>5 DEF MoveResumeHighlight, next
    <2>3. CASE r.sessions = 0
      BY <2>3 DEF MoveResumeHighlight
    <2> QED BY <2>2, <2>3
  <1> QED BY <1>1, <1>4, <1>5, <1>6


-----------------------------------------------------------------------------
(* The keys *)

\* What a step may count on.
LEMMA SceneIs ==
  ASSUME Scenery
  PROVE  /\ FromUi(ui) /\ Terminal(ui) /\ calls \in Seq(CallSet(ui.mount)) /\ StoreTyped(store)
         /\ ui.mount \in Nat /\ ui.opening \in Nat /\ ui.rows \in Nat /\ PanelTyped(ui.panel)
         /\ ui.known \in Seq(KnownRow) /\ ui.resume \in ResumeState /\ ui.question \in QuestionState
         /\ Mounted(ui) \in PanelKinds => ui.mount # 0
         /\ Mounted(ui) \in Panelled => ui.panel.kind = Mounted(ui)
         /\ ui.surface = "memory" => ui.panel.kind = "memory"
  BY DEF Scenery, TypesInv, FromUi, Terminal, PanelInv, TerminalInv

\* A panel replaced by another of its kind.
LEMMA PressTyped ==
  ASSUME Scenery, NEW p, PanelTyped(p), p.kind = ui.panel.kind
  PROVE  /\ FromUi(InPanel(p))
         /\ Press(InPanel(p)) => TypesInv'
         /\ Press(AppEsc(InPanel(p))) => TypesInv'
         /\ \A call \in CallSet(ui.mount) : Send(InPanel(p), call) => TypesInv'
  <1>1. FromUi(InPanel(p))
    BY SceneIs, FramesTyped DEF InPanel
  <1>2. FromUi(AppEsc(InPanel(p))) /\ FromUi(Sent(InPanel(p)))
    BY <1>1, FramesTyped
  <1>3. Press(InPanel(p)) => TypesInv'
    BY <1>1, StepTyped
  <1>4. Press(AppEsc(InPanel(p))) => TypesInv'
    BY <1>2, StepTyped
  <1>5. \A call \in CallSet(ui.mount) : Send(InPanel(p), call) => TypesInv'
    BY <1>2, StepTyped DEF Send
  <1> QED BY <1>1, <1>3, <1>4, <1>5

LEMMA StayTyped ==
  ASSUME Scenery
  PROVE  /\ Press(ui) => TypesInv'
         /\ Press(AppEsc(ui)) => TypesInv'
         /\ \A call \in CallSet(ui.mount) : Send(ui, call) => TypesInv'
         /\ Press(CloseActiveSurface(ui)) => TypesInv'
         /\ Press(OpenModelSurface(ui)) => TypesInv'
         /\ Press(OpenThemeSurface(ui)) => TypesInv'
         /\ Press(OpenHelpSurface(ui)) => TypesInv'
         /\ Press(OpenResumePanel(ui)) => TypesInv'
         /\ Press(AppEsc(CloseResumePanel(ui))) => TypesInv'
         /\ \A target, back : Press(OpenConnectSurface(ui, target, back)) => TypesInv'
  <1>1. FromUi(ui)
    BY SceneIs
  <1>2. /\ FromUi(AppEsc(ui)) /\ FromUi(Sent(ui)) /\ FromUi(CloseActiveSurface(ui))
        /\ FromUi(OpenModelSurface(ui)) /\ FromUi(OpenThemeSurface(ui)) /\ FromUi(OpenHelpSurface(ui))
        /\ FromUi(OpenResumePanel(ui)) /\ FromUi(CloseResumePanel(ui))
        /\ \A target, back : FromUi(OpenConnectSurface(ui, target, back))
    BY <1>1, FramesTyped
  <1>3. FromUi(AppEsc(CloseResumePanel(ui)))
    BY <1>2, FramesTyped
  <1>4. \A u : FromUi(u) => (Press(u) => TypesInv')
    BY StepTyped
  <1>5. \A call \in CallSet(ui.mount) : Send(ui, call) => TypesInv'
    BY <1>2, StepTyped DEF Send
  <1> QED BY <1>1, <1>2, <1>3, <1>4, <1>5

LEMMA TypeCommands ==
  ASSUME Scenery
  PROVE  /\ ExecuteCommand => TypesInv'
         /\ EscOutsidePanels => TypesInv'
         /\ RerouteSubmit => TypesInv'
  BY StayTyped DEF ExecuteCommand, EscOutsidePanels, RerouteSubmit

LEMMA TypeMemoryCommand ==
  ASSUME Scenery, ExecuteMemoryCommand
  PROVE  TypesInv'
  <1>1. PICK mode \in MemoryModes :
          LET opened == OpenMemory(ui, mode)
              with(panel) == [opened EXCEPT !.panel = panel]
          IN  \/ Press(opened)
              \/ /\ mode = "active"
                 /\ \/ Press(with(OpenAddMemoryForm(opened.panel)))
                    \/ \E pick \in {"edit", "forget"} : Press(with(SetPendingItemAction(opened.panel, pick)))
    BY DEF ExecuteMemoryCommand
  <1> DEFINE opened == OpenMemory(ui, mode)
  <1>2. FromUi(opened) /\ opened.panel \in MemoryState
    BY SceneIs, MemoryOpened
  <1> HIDE DEF opened
  <1>3. /\ OpenAddMemoryForm(opened.panel) \in MemoryState
        /\ \A pick \in {"edit", "forget"} : SetPendingItemAction(opened.panel, pick) \in MemoryState
    BY <1>2, MemoryTyped
  <1>4. opened.panel.kind = "memory"
    BY <1>2, MemoryStateIs
  <1>5. \A p \in MemoryState : FromUi([opened EXCEPT !.panel = p])
    BY <1>2, <1>4, FramesTyped, MemoryStateIs
  <1>6. \A u : FromUi(u) => (Press(u) => TypesInv')
    BY StepTyped
  <1> QED BY <1>1, <1>2, <1>3, <1>5, <1>6 DEF opened

LEMMA TypeResize ==
  ASSUME Scenery, Resize
  PROVE  TypesInv'
  <1>1. PICK height \in Heights :
          LET u    == [ui EXCEPT !.rows = height]
              stay == IF Mounted(u) = Mounted(ui) THEN Mounted(u) ELSE "none"
          IN  Press(CASE stay = "model" ->
                           [u EXCEPT !.panel = ScrollModelHighlightIntoView(@, ListRows(u, "model"))]
                      [] stay = "theme" ->
                           [u EXCEPT !.panel = ScrollThemeHighlightIntoView(@, ListRows(u, "theme"))]
                      [] stay = "memory" -> [u EXCEPT !.panel.resized = TRUE]
                      [] stay = "resume" -> [u EXCEPT !.resume.resized = TRUE]
                      [] OTHER -> u)
    BY DEF Resize
  <1> DEFINE u    == [ui EXCEPT !.rows = height]
             stay == IF Mounted(u) = Mounted(ui) THEN Mounted(u) ELSE "none"
             next == CASE stay = "model" ->
                           [u EXCEPT !.panel = ScrollModelHighlightIntoView(@, ListRows(u, "model"))]
                      [] stay = "theme" ->
                           [u EXCEPT !.panel = ScrollThemeHighlightIntoView(@, ListRows(u, "theme"))]
                      [] stay = "memory" -> [u EXCEPT !.panel.resized = TRUE]
                      [] stay = "resume" -> [u EXCEPT !.resume.resized = TRUE]
                      [] OTHER -> u
  <1>2. height \in Nat
    BY SizesAssumption
  <1>3. FromUi(u) /\ u.panel = ui.panel /\ u.resume = ui.resume /\ u.rows \in Nat
    <2>1. FromUi(ui) /\ DOMAIN ui = UiFields
      BY SceneIs DEF Terminal
    <2>2. FromUi(u)
      BY <1>2, <2>1, FramesTyped
    <2>3. u.panel = ui.panel /\ u.resume = ui.resume /\ u.rows \in Nat
      BY <1>2, <2>1 DEF UiFields
    <2> QED BY <2>2, <2>3
  <1>4. stay \in Panelled => ui.panel.kind = stay
    BY SceneIs DEF Panelled
  <1>5. PanelTyped(u.panel) /\ DOMAIN u = UiFields
    BY <1>3 DEF FromUi, Terminal
  <1> HIDE DEF u, stay
  <1>6. \A kind \in PanelKinds \ {"connect"} : ListRows(u, kind) \in Nat \ {0}
    BY <1>3, RowsOfPanels
  <1>7. \A p : PanelTyped(p) /\ p.kind = u.panel.kind => FromUi([u EXCEPT !.panel = p])
    BY <1>3, FramesTyped
  <1>8. FromUi(next)
    <2>1. CASE stay = "model"
      <3>1. ModelTyped(ui.panel) /\ ui.panel.kind = "model"
        BY <1>3, <1>4, <1>5, <2>1 DEF PanelTyped, Panelled
      <3> DEFINE p == ScrollModelHighlightIntoView(u.panel, ListRows(u, "model"))
      <3>2. ModelTyped(p)
        BY <1>3, <1>6, <3>1, ModelWritersTyped DEF PanelKinds
      <3>3. PanelTyped(p) /\ p.kind = "model"
        <4> HIDE DEF p
        <4> QED BY <3>2 DEF PanelTyped, ModelTyped, ModelShape, ModelFields, Panelled
      <3>4. next = [u EXCEPT !.panel = p]
        BY <2>1
      <3> HIDE DEF p, next
      <3> QED BY <1>3, <1>7, <3>1, <3>3, <3>4
    <2>2. CASE stay = "theme"
      <3>1. ui.panel.kind = "theme" /\ "kind" \in DOMAIN ui.panel
        BY <1>3, <1>4, <1>5, <2>2 DEF PanelTyped, Panelled
      <3> DEFINE p == ScrollThemeHighlightIntoView(u.panel, ListRows(u, "theme"))
      <3>2. PanelTyped(p) /\ p.kind = "theme"
        BY <1>3, <3>1 DEF ScrollThemeHighlightIntoView, PanelTyped, Panelled
      <3>3. next = [u EXCEPT !.panel = p]
        BY <2>2
      <3> HIDE DEF p, next
      <3> QED BY <1>3, <1>7, <3>1, <3>2, <3>3
    <2>3. CASE stay = "memory"
      <3>1. ui.panel \in MemoryState
        BY <1>3, <1>4, <1>5, <2>3 DEF PanelTyped, Panelled
      <3> DEFINE p == [u.panel EXCEPT !.resized = TRUE]
      <3>2. p \in MemoryState
        BY <1>3, <3>1, MemoryTyped
      <3>3. next = [u EXCEPT !.panel = p]
        BY <1>5, <2>3 DEF UiFields
      <3> HIDE DEF p, next
      <3> QED BY <1>3, <1>7, <3>1, <3>2, <3>3, MemoryStateIs
    <2>4. CASE stay = "resume"
      <3> DEFINE r == [u.resume EXCEPT !.resized = TRUE]
      <3>1. r \in ResumeState
        BY <1>3, SceneIs, ResumeTyped
      <3>2. next = [u EXCEPT !.resume = r]
        BY <1>5, <2>4 DEF UiFields
      <3> HIDE DEF r, next
      <3>3. FromUi([u EXCEPT !.resume = r])
        BY <1>3, <3>1, FramesTyped
      <3> QED BY <3>2, <3>3
    <2>5. CASE stay \notin {"model", "theme", "memory", "resume"}
      BY <1>3, <2>5
    <2> QED BY <2>1, <2>2, <2>3, <2>4, <2>5
  <1>9. Press(next)
    BY <1>1 DEF u, stay
  <1> HIDE DEF next
  <1> QED BY <1>8, <1>9, StepTyped

LEMMA MemoryPressTyped ==
  ASSUME Scenery, Mounted(ui) = "memory"
  PROVE  /\ ui.panel \in MemoryState
         /\ \A p \in MemoryState :
              /\ Press(InPanel(p)) => TypesInv'
              /\ Press(AppEsc(InPanel(p))) => TypesInv'
              /\ \A op \in Ops \ {"setKey", "inlineKey"} : Send(InPanel(p), Call(ui, op)) => TypesInv'
         /\ \A op \in Ops \ {"setKey", "inlineKey"} : Send(ui, Call(ui, op)) => TypesInv'
         /\ Press(AppEsc(ui)) => TypesInv'
  <1>1. ui.panel.kind = "memory" /\ ui.mount # 0 /\ ui.panel \in MemoryState
    BY SceneIs DEF PanelKinds, Panelled, PanelTyped
  <1>2. \A op \in Ops \ {"setKey", "inlineKey"} : Call(ui, op) \in CallSet(ui.mount)
    BY <1>1, SceneIs, CallTyped
  <1>3. \A p \in MemoryState : PanelTyped(p) /\ p.kind = ui.panel.kind
    BY <1>1, MemoryStateIs
  <1> QED BY <1>1, <1>2, <1>3, PressTyped, StayTyped

LEMMA TypeMemoryList ==
  ASSUME Scenery, MemoryListKey
  PROVE  TypesInv'
  <1>1. Mounted(ui) = "memory"
    BY DEF MemoryListKey
  <1> DEFINE m == ui.panel
  <1>2. m \in MemoryState
    BY <1>1, MemoryPressTyped
  <1>3. ListRows(ui, "memory") \in Nat
    BY SceneIs, RowsOfPanels DEF PanelKinds
  <1>4. /\ SetPendingItemAction(m, "none") \in MemoryState /\ SwitchMemoryMode(m) \in MemoryState
        /\ ResetMemoryData(m) \in MemoryState
    BY <1>2, MemoryTyped
  <1>5. \A delta \in Int : MoveMemoryHighlight(m, delta, ListRows(ui, "memory")) \in MemoryState
    <2> DEFINE rows == ListRows(ui, "memory")
    <2>1. rows \in Nat
      BY <1>3
    <2> HIDE DEF rows
    <2>2. \A delta \in Int : MoveMemoryHighlight(m, delta, rows) \in MemoryState
      BY <1>2, <2>1, MemoryTyped
    <2> QED BY <2>2 DEF rows
  <1>6. "list" \in Ops \ {"setKey", "inlineKey"}
    BY DEF Ops
  <1> HIDE DEF m
  <1>7. \/ Press(AppEsc(InPanel(SetPendingItemAction(m, "none"))))
        \/ Press(AppEsc(ui))
        \/ \E delta \in {-1, 1} : Press(InPanel(MoveMemoryHighlight(m, delta, ListRows(ui, "memory"))))
        \/ Press(InPanel(SwitchMemoryMode(m)))
        \/ Send(InPanel(ResetMemoryData(m)), Call(ui, "list"))
    BY DEF MemoryListKey, Memory, m
  <1>8. -1 \in Int /\ 1 \in Int
    OBVIOUS
  <1> QED BY <1>1, <1>4, <1>5, <1>6, <1>7, <1>8, MemoryPressTyped

LEMMA TypeMemoryItem ==
  ASSUME Scenery, MemoryItemKey
  PROVE  TypesInv'
  <1>1. Mounted(ui) = "memory"
    BY DEF MemoryItemKey
  <1>2. SetForgetConfirm(ui.panel, HighlightedItem(ui.panel)) \in MemoryState
    BY <1>1, MemoryPressTyped, MemoryTyped
  <1>3. {"showEdit", "show"} \subseteq Ops \ {"setKey", "inlineKey"}
    BY DEF Ops
  <1>4. \/ Send(ui, Call(ui, "showEdit")) \/ Send(ui, Call(ui, "show"))
        \/ Press(InPanel(SetForgetConfirm(ui.panel, HighlightedItem(ui.panel))))
    BY DEF MemoryItemKey, Memory
  <1> QED BY <1>1, <1>2, <1>3, <1>4, MemoryPressTyped

LEMMA TypeMemoryEntry ==
  ASSUME Scenery, MemoryEntryKey
  PROVE  TypesInv'
  <1>1. Mounted(ui) = "memory" /\ Send(InPanel(SetMemoryBusy(ui.panel)), Call(ui, "inbox"))
    BY DEF MemoryEntryKey, Memory
  <1>2. SetMemoryBusy(ui.panel) \in MemoryState
    BY <1>1, MemoryPressTyped, MemoryTyped
  <1>3. "inbox" \in Ops \ {"setKey", "inlineKey"}
    BY DEF Ops
  <1> QED BY <1>1, <1>2, <1>3, MemoryPressTyped

LEMMA TypeMemoryDetail ==
  ASSUME Scenery, MemoryDetailKey
  PROVE  TypesInv'
  <1> DEFINE m == ui.panel
             rows == MemoryBodyRows(m, DockedPanelRows(ui))
  <1>1. /\ Mounted(ui) = "memory"
        /\ \/ Press(AppEsc(ui))
           \/ \E delta \in {-1, 1} : Press(InPanel(ScrollMemoryDetail(m, delta, rows)))
           \/ Press(InPanel(SetMemoryDetail(m, 0, 0)))
    BY DEF MemoryDetailKey, Memory
  <1>2. m \in MemoryState /\ rows \in Nat /\ 0 \in 0..MaxLines
    BY <1>1, SceneIs, RowsOfPanels, MemoryPressTyped, ItemsAssumption
  <1> HIDE DEF m, rows
  <1>3. \A delta \in Int : ScrollMemoryDetail(m, delta, rows) \in MemoryState
    BY <1>2, MemoryTyped
  <1>4. SetMemoryDetail(m, 0, 0) \in MemoryState
    BY <1>2, MemoryTyped
  <1>5. -1 \in Int /\ 1 \in Int
    OBVIOUS
  <1> QED BY <1>1, <1>3, <1>4, <1>5, MemoryPressTyped

LEMMA TypeMemoryConfirm ==
  ASSUME Scenery, MemoryConfirmKey
  PROVE  TypesInv'
  <1> DEFINE m == ui.panel
  <1>1. /\ Mounted(ui) = "memory"
        /\ \/ Press(InPanel(SetForgetConfirm(m, 0)))
           \/ Send(InPanel(SetForgetConfirm(SetMemoryBusy(m), 0)), Call(ui, "forget"))
    BY DEF MemoryConfirmKey, Memory
  <1>2. m \in MemoryState /\ 0 \in 0..MaxItems
    BY <1>1, MemoryPressTyped, ItemsAssumption
  <1> HIDE DEF m
  <1>3. SetMemoryBusy(m) \in MemoryState
    BY <1>2, MemoryTyped
  <1>4. SetForgetConfirm(m, 0) \in MemoryState /\ SetForgetConfirm(SetMemoryBusy(m), 0) \in MemoryState
    BY <1>2, <1>3, MemoryTyped
  <1>5. "forget" \in Ops \ {"setKey", "inlineKey"}
    BY DEF Ops
  <1> QED BY <1>1, <1>4, <1>5, MemoryPressTyped

LEMMA TypeMemoryBlocked ==
  ASSUME Scenery, MemoryBlockedEsc
  PROVE  TypesInv'
  BY StayTyped DEF MemoryBlockedEsc

LEMMA TypeMemoryForm ==
  ASSUME Scenery, MemoryFormKey
  PROVE  TypesInv'
  <1> DEFINE m == ui.panel
  <1>1. /\ Mounted(ui) = "memory"
        /\ \/ Press(InPanel(CloseMemoryForm(m))) \/ Press(InPanel(SetFormField(m)))
           \/ \E blank \in BOOLEAN : Press(InPanel(SetFormTitle(m, blank)))
           \/ Press(InPanel(SetFormBody(m))) \/ Press(InPanel(SetFormError(m, "title")))
           \/ Send(ui, Call(ui, "save")) \/ Send(ui, Call(ui, "add"))
    BY DEF MemoryFormKey, Memory
  <1>2. m \in MemoryState
    BY <1>1, MemoryPressTyped
  <1> HIDE DEF m
  <1>3. /\ CloseMemoryForm(m) \in MemoryState /\ SetFormField(m) \in MemoryState
        /\ \A blank \in BOOLEAN : SetFormTitle(m, blank) \in MemoryState
        /\ SetFormBody(m) \in MemoryState /\ SetFormError(m, "title") \in MemoryState
    BY <1>2, MemoryTyped
  <1>4. {"save", "add"} \subseteq Ops \ {"setKey", "inlineKey"}
    BY DEF Ops
  <1> QED BY <1>1, <1>3, <1>4, MemoryPressTyped

\* The fields of a request, one by one.
LEMMA CallFields ==
  ASSUME NEW n \in Nat, NEW c \in CallSet(n)
  PROVE  /\ \A p \in ProviderSet : [c EXCEPT !.provider = p] \in CallSet(n)
         /\ \A p \in ProviderSet, m \in ModelSet \cup {None} :
              [c EXCEPT !.provider = p, !.model = m] \in CallSet(n)
         /\ \A t \in Themes : [c EXCEPT !.theme = t] \in CallSet(n)
         /\ \A p \in ProviderSet : LoadCall(c, p) \in CallSet(n)
         /\ \A t \in {"none", "idle", "list", "openModel"} :
              [c EXCEPT !.op = "providers", !.provider = None, !.then = t] \in CallSet(n)
         /\ [c EXCEPT !.op = "load", !.provider = None, !.then = "idle"] \in CallSet(n)
         /\ [c EXCEPT !.op = "idle"] \in CallSet(n)
         /\ \A k \in 1..n : [c EXCEPT !.mount = k] \in CallSet(n)
         /\ \A b \in BOOLEAN : [c EXCEPT !.latest = b] \in CallSet(n)
         /\ c.op \in Ops /\ c.mount \in 1..n /\ c.opening \in Nat /\ c.latest \in BOOLEAN
         /\ c.provider \in ProviderSet \cup {None} /\ c.then \in {"none", "idle", "list", "openModel"}
         /\ c.op \in {"setKey", "inlineKey"} => c.provider \in ProviderSet
  <1> USE DEF CallSet
  <1>1. \A p \in ProviderSet : [c EXCEPT !.provider = p] \in CallSet(n)
    OBVIOUS
  <1>2. \A p \in ProviderSet, m \in ModelSet \cup {None} : [c EXCEPT !.provider = p, !.model = m] \in CallSet(n)
    OBVIOUS
  <1>3. \A t \in Themes : [c EXCEPT !.theme = t] \in CallSet(n)
    BY ThemeAssumption DEF Themes
  <1>4. \A p \in ProviderSet : LoadCall(c, p) \in CallSet(n)
    BY DEF LoadCall, Ops
  <1>5. \A t \in {"none", "idle", "list", "openModel"} :
          [c EXCEPT !.op = "providers", !.provider = None, !.then = t] \in CallSet(n)
    BY DEF Ops
  <1>6. [c EXCEPT !.op = "load", !.provider = None, !.then = "idle"] \in CallSet(n)
    BY DEF Ops
  <1>7. [c EXCEPT !.op = "idle"] \in CallSet(n)
    BY DEF Ops
  <1>8. \A k \in 1..n : [c EXCEPT !.mount = k] \in CallSet(n)
    OBVIOUS
  <1>9. \A b \in BOOLEAN : [c EXCEPT !.latest = b] \in CallSet(n)
    OBVIOUS
  <1>10. /\ c.op \in Ops /\ c.mount \in 1..n /\ c.opening \in Nat /\ c.latest \in BOOLEAN
         /\ c.provider \in ProviderSet \cup {None} /\ c.then \in {"none", "idle", "list", "openModel"}
         /\ c.op \in {"setKey", "inlineKey"} => c.provider \in ProviderSet
    OBVIOUS
  <1> HIDE DEF CallSet
  <1> QED BY <1>1, <1>2, <1>3, <1>4, <1>5, <1>6, <1>7, <1>8, <1>9, <1>10

\* A request that sends a key.
LEMMA KeyCallTyped ==
  ASSUME NEW u, u.mount \in Nat, u.mount # 0, u.opening \in Nat, NEW op \in {"setKey", "inlineKey"},
         NEW p \in ProviderSet
  PROVE  [Call(u, op) EXCEPT !.provider = p] \in CallSet(u.mount)
  <1>1. op \in Ops /\ u.mount \in 1..u.mount /\ 0 \in 0..Catalog
    BY ThemeAssumption DEF Ops
  <1> DEFINE S == [op : Ops, mount : 1..u.mount, opening : Nat, latest : BOOLEAN,
                   provider : ProviderSet \cup {None}, model : ModelSet \cup {None}, theme : 0..Catalog,
                   then : {"none", "idle", "list", "openModel"}]
             c == Call(u, op)
  <1>2. c \in S /\ c.op = op
    BY <1>1 DEF Call, NoTheme
  <1> HIDE DEF c
  <1>3. [c EXCEPT !.provider = p] \in S /\ [c EXCEPT !.provider = p].provider = p
    BY <1>2
  <1> QED BY <1>3 DEF CallSet, c

LEMMA ModelPressTyped ==
  ASSUME Scenery, Mounted(ui) = "model"
  PROVE  /\ ModelTyped(ui.panel) /\ ListRows(ui, "model") \in Nat \ {0} /\ ui.mount # 0
         /\ \A p : ModelTyped(p) =>
              /\ Press(InPanel(p)) => TypesInv'
              /\ Press(AppEsc(InPanel(p))) => TypesInv'
              /\ \A call \in CallSet(ui.mount) : Send(InPanel(p), call) => TypesInv'
  <1>1. ui.panel.kind = "model" /\ ui.mount # 0 /\ ModelTyped(ui.panel)
    BY SceneIs DEF PanelKinds, Panelled, PanelTyped
  <1>2. \A p : ModelTyped(p) => PanelTyped(p) /\ p.kind = ui.panel.kind
    BY <1>1 DEF PanelTyped, ModelTyped, ModelShape, ModelFields, Panelled
  <1>3. ListRows(ui, "model") \in Nat \ {0}
    BY SceneIs, RowsOfPanels DEF PanelKinds
  <1> QED BY <1>1, <1>2, <1>3, PressTyped

LEMMA NoLoadTyped == NoLoad \in Load
  BY DEF NoLoad, Load, LoadStatuses

LEMMA TypeModel ==
  ASSUME Scenery, ModelKey
  PROVE  TypesInv'
  <1> DEFINE m == ui.panel
             row == HighlightedModelRow(m)
             rows == ListRows(ui, "model")
             left == IF m.outcome # "none" \/ m.error THEN CancelInlineConnect(m) ELSE m
             unloaded == SetProviderModelLoad(m, row.provider, NoLoad, rows)
             begun == StartInlineConnect(m, row.provider)
             select == [Call(ui, "select") EXCEPT !.provider = row.provider, !.model = row.model]
             models == [Call(ui, "models") EXCEPT !.provider = row.provider]
  <1>1. Mounted(ui) = "model"
    BY DEF ModelKey
  <1>2. \/ \E delta \in {-1, 1} : Press(InPanel(MoveModelHighlight(m, delta, rows)))
        \/ Press(AppEsc(InPanel(left)))
        \/ row.type = "model" /\ Send(ui, select)
        \/ row.type = "status" /\ Send(InPanel(unloaded), models)
        \/ Press(OpenConnectSurface(ui, Custom, TRUE))
        \/ row.type = "status" /\ Press(InPanel(begun))
    BY DEF ModelKey, Model
  <1>3. ModelTyped(m) /\ rows \in Nat \ {0} /\ ui.mount # 0
    BY <1>1, ModelPressTyped
  <1>4. Call(ui, "select") \in CallSet(ui.mount) /\ Call(ui, "models") \in CallSet(ui.mount)
    BY <1>3, SceneIs, CallTyped DEF Ops
  <1>5. row.type \in {"model", "status"} => row.provider \in ProviderSet /\ row.model \in ModelSet \cup {None}
    BY <1>3, HighlightTyped
  <1>6. -1 \in Int /\ 1 \in Int
    OBVIOUS
  <1> HIDE DEF m, row, rows
  <1>7. \A delta \in Int : ModelTyped(MoveModelHighlight(m, delta, rows))
    BY <1>3, ModelWritersTyped, Zenon
  <1>8. ModelTyped(left)
    BY <1>3, ModelWritersTyped, Zenon
  <1>9. ModelTyped(unloaded)
    BY <1>3, ModelWritersTyped, NoLoadTyped, Zenon
  <1>10. row.type = "status" => ModelTyped(begun)
    BY <1>3, <1>5, ModelWritersTyped, Zenon
  <1>11. row.type = "model" => select \in CallSet(ui.mount)
    BY <1>4, <1>5, SceneIs, CallFields
  <1>12. row.type = "status" => models \in CallSet(ui.mount)
    BY <1>4, <1>5, SceneIs, CallFields
  <1> HIDE DEF left, unloaded, begun, select, models
  <1>13. \A p : ModelTyped(p) =>
              /\ Press(InPanel(p)) => TypesInv'
              /\ Press(AppEsc(InPanel(p))) => TypesInv'
              /\ \A call \in CallSet(ui.mount) : Send(InPanel(p), call) => TypesInv'
    BY <1>1, ModelPressTyped
  <1> QED BY <1>2, <1>6, <1>7, <1>8, <1>9, <1>10, <1>11, <1>12, <1>13, StayTyped

LEMMA TypeInlineConnect ==
  ASSUME Scenery, InlineConnectKey
  PROVE  TypesInv'
  <1> DEFINE m == ui.panel
             call == [Call(ui, "inlineKey") EXCEPT !.provider = m.inline]
  <1>1. /\ Mounted(ui) = "model" /\ m.inline # None
        /\ Press(InPanel(CancelInlineConnect(m))) \/ Send(InPanel(SubmitInlineKey(m)), call)
    BY DEF InlineConnectKey, Model
  <1>2. ModelTyped(m) /\ ui.mount # 0
    BY <1>1, ModelPressTyped
  <1>3. call \in CallSet(ui.mount)
    BY <1>1, <1>2, SceneIs, KeyCallTyped DEF ModelTyped
  <1>4. ModelTyped(CancelInlineConnect(m)) /\ ModelTyped(SubmitInlineKey(m))
    <2> HIDE DEF m
    <2>1. 1 \in Nat \ {0}
      OBVIOUS
    <2> QED BY <1>2, <2>1, ModelWritersTyped, Zenon
  <1> HIDE DEF m, call
  <1> QED BY <1>1, <1>3, <1>4, ModelPressTyped

LEMMA ConnectPressTyped ==
  ASSUME Scenery, Mounted(ui) = "connect"
  PROVE  /\ ConnectTyped(ui.panel) /\ ui.panel.selected \in Nat /\ ui.mount # 0
         /\ \A p : ConnectTyped(p) =>
              /\ Press(InPanel(p)) => TypesInv'
              /\ \A call \in CallSet(ui.mount) : Send(InPanel(p), call) => TypesInv'
  <1>1. ui.panel.kind = "connect" /\ ui.mount # 0 /\ ConnectTyped(ui.panel)
    BY SceneIs DEF PanelKinds, Panelled, PanelTyped
  <1>2. \A p : ConnectTyped(p) => PanelTyped(p) /\ p.kind = ui.panel.kind
    BY <1>1 DEF PanelTyped, ConnectTyped, Panelled
  <1>3. ui.panel.selected \in Nat
    BY <1>1, PanelIs DEF Scenery, GoodConnect, OwnSteps
  <1> QED BY <1>1, <1>2, <1>3, PressTyped

LEMMA TypeConnect ==
  ASSUME Scenery, ConnectKey
  PROVE  TypesInv'
  <1> DEFINE c == ui.panel
             known == ui.known
             p == SelectedProvider(c, known)
             call == [Call(ui, "clear") EXCEPT !.provider = p.id]
  <1>1. /\ Mounted(ui) = "connect"
        /\ \/ Press(OpenModelSurface(ui)) \/ Press(CloseActiveSurface(ui))
           \/ \E delta \in {-1, 1} : Press(InPanel(MoveConnectSelection(c, delta, known)))
           \/ Press(InPanel(ChooseSelectedProvider(c, known))) \/ Press(InPanel(BackConnectStep(c, known)))
           \/ Press(InPanel(ToggleAction(c))) \/ Press(InPanel(ReplaceStep(c, known)))
           \/ Press(InPanel([c EXCEPT !.confirm = TRUE])) \/ Press(InPanel(EnterOnAction(c, known)))
           \/ Press(InPanel([c EXCEPT !.confirm = FALSE]))
           \/ p # NoProvider /\ Send(InPanel(BeginMutation(c)), call)
    BY DEF ConnectKey, Connect
  <1>2. ConnectTyped(c) /\ c.selected \in Nat /\ known \in Seq(KnownRow) /\ ui.mount # 0
    BY <1>1, SceneIs, ConnectPressTyped
  <1> HIDE DEF c, known
  <1>3. p \in KnownRow \cup {NoProvider}
    BY <1>2, SelectedTyped
  <1>4. p # NoProvider => p.id \in ProviderSet
    BY <1>3 DEF KnownRow
  <1>5. Call(ui, "clear") \in CallSet(ui.mount)
    BY <1>2, SceneIs, CallTyped DEF Ops
  <1> HIDE DEF p
  <1>6. p # NoProvider => call \in CallSet(ui.mount)
    BY <1>4, <1>5, SceneIs, CallFields
  <1>7. /\ \A delta : ConnectTyped(MoveConnectSelection(c, delta, known))
        /\ ConnectTyped(ChooseSelectedProvider(c, known)) /\ ConnectTyped(BackConnectStep(c, known))
        /\ ConnectTyped(ToggleAction(c)) /\ ConnectTyped(ReplaceStep(c, known))
        /\ ConnectTyped(EnterOnAction(c, known)) /\ ConnectTyped(BeginMutation(c))
        /\ ConnectTyped([c EXCEPT !.confirm = TRUE]) /\ ConnectTyped([c EXCEPT !.confirm = FALSE])
    BY <1>2, ConnectWritersTyped, Zenon
  <1> HIDE DEF call
  <1>8. \A q : ConnectTyped(q) =>
          /\ Press(InPanel(q)) => TypesInv'
          /\ \A a \in CallSet(ui.mount) : Send(InPanel(q), a) => TypesInv'
    BY <1>1, ConnectPressTyped
  <1> QED BY <1>1, <1>6, <1>7, <1>8, StayTyped

LEMMA TypeConnectField ==
  ASSUME Scenery, ConnectFieldKey
  PROVE  TypesInv'
  <1> DEFINE c == ui.panel
             known == ui.known
  <1>1. /\ Mounted(ui) = "connect"
        /\ \/ Press(InPanel(BackConnectStep(c, known)))
           \/ Press(InPanel(LeaveUrl(c))) \/ Press(InPanel(LeaveLabel(c)))
           \/ \E valid \in BOOLEAN : Press(InPanel(TypeUrl(c, valid))) \/ Press(InPanel(TypeLabel(c, valid)))
    BY DEF ConnectFieldKey, Connect
  <1>2. ConnectTyped(c) /\ c.selected \in Nat /\ known \in Seq(KnownRow)
    BY <1>1, SceneIs, ConnectPressTyped
  <1> HIDE DEF c, known
  <1>3. /\ ConnectTyped(BackConnectStep(c, known)) /\ ConnectTyped(LeaveUrl(c)) /\ ConnectTyped(LeaveLabel(c))
        /\ \A b \in BOOLEAN : ConnectTyped(TypeUrl(c, b)) /\ ConnectTyped(TypeLabel(c, b))
    BY <1>2, ConnectWritersTyped, Zenon
  <1> QED BY <1>1, <1>3, ConnectPressTyped

LEMMA TypeConnectKeyField ==
  ASSUME Scenery, ConnectKeyField
  PROVE  TypesInv'
  <1> DEFINE c == ui.panel
             known == ui.known
             p == SelectedProvider(c, known)
             call == [Call(ui, "setKey") EXCEPT !.provider = p.id]
  <1>1. /\ Mounted(ui) = "connect"
        /\ \/ Press(InPanel(BackConnectStep(c, known)))
           \/ Press(InPanel([c EXCEPT !.step = "customLabel"]))
           \/ p # NoProvider /\ Send(InPanel(BeginMutation(c)), call)
    BY DEF ConnectKeyField, Connect
  <1>2. ConnectTyped(c) /\ c.selected \in Nat /\ known \in Seq(KnownRow) /\ ui.mount # 0
    BY <1>1, SceneIs, ConnectPressTyped
  <1> HIDE DEF c, known
  <1>3. p \in KnownRow \cup {NoProvider}
    BY <1>2, SelectedTyped
  <1>4. p # NoProvider => p.id \in ProviderSet
    BY <1>3 DEF KnownRow
  <1> HIDE DEF p
  <1>5. p # NoProvider => call \in CallSet(ui.mount)
    BY <1>2, <1>4, SceneIs, KeyCallTyped
  <1>6. /\ ConnectTyped(BackConnectStep(c, known)) /\ ConnectTyped(BeginMutation(c))
        /\ ConnectTyped([c EXCEPT !.step = "customLabel"])
    BY <1>2, ConnectWritersTyped, Zenon
  <1> HIDE DEF call
  <1> QED BY <1>1, <1>5, <1>6, ConnectPressTyped

\* Requests that a newer one makes stale are still requests.
LEMMA SupersededTyped ==
  ASSUME NEW n \in Nat, NEW q \in Seq(CallSet(n)), NEW mount, NEW ops
  PROVE  Superseded(q, mount, ops) \in Seq(CallSet(n))
  <1> DEFINE S == CallSet(n)
             stale(i) == q[i].latest /\ ~(q[i].mount = mount /\ q[i].op \in ops)
             next == [i \in 1..Len(q) |-> [q[i] EXCEPT !.latest = stale(i)]]
  <1>1. DOMAIN q = 1..Len(q) /\ Len(q) \in Nat /\ \A i \in 1..Len(q) : q[i] \in S
    OBVIOUS
  <1>2. ASSUME NEW i \in 1..Len(q) PROVE [q[i] EXCEPT !.latest = stale(i)] \in S
    <2>1. q[i] \in S /\ q[i].latest \in BOOLEAN
      BY <1>1, CallFields, Zenon
    <2>2. stale(i) \in BOOLEAN
      BY <2>1
    <2> DEFINE c == q[i]
               b == stale(i)
    <2> HIDE DEF c, b
    <2>3. [c EXCEPT !.latest = b] \in S
      BY <2>1, <2>2, CallFields, Zenon DEF c, b
    <2> QED BY <2>3 DEF c, b
  <1>3. Superseded(q, mount, ops) = next
    BY <1>1 DEF Superseded
  <1>4. \A i \in 1..Len(q) : next[i] \in S
    BY <1>2
  <1> HIDE DEF S
  <1>5. next \in [1..Len(q) -> S]
    BY <1>4
  <1> HIDE DEF next
  <1> QED BY <1>1, <1>3, <1>5 DEF S

LEMMA TypeTheme ==
  ASSUME Scenery, ThemeKey
  PROVE  TypesInv'
  <1> DEFINE t == ui.panel
             chosen == HighlightedTheme(t)
             rows == ListRows(ui, "theme")
             saved == [Sent(InPanel(ConfirmTheme(t, chosen))) EXCEPT !.theme = chosen, !.chosen = chosen]
             sent == Append(Superseded(calls, ui.mount, {"saveTheme"}), [Call(ui, "saveTheme") EXCEPT !.theme = chosen])
  <1>1. Mounted(ui) = "theme" /\ t.kind = "theme" /\ "kind" \in DOMAIN t /\ ui.mount # 0
    BY SceneIs DEF ThemeKey, PanelKinds, Panelled, PanelTyped
  <1>2. \/ \E delta \in {-1, 1} : Press(Preview(ui, MoveThemeHighlight(t, delta, rows)))
        \/ Press(AppEsc(ui))
        \/ Commit(saved, sent) /\ UNCHANGED store
    BY DEF ThemeKey
  <1>3. FromUi(ui)
    BY SceneIs
  <1>4. \A u : FromUi(u) => \A theme, other : /\ FromUi([u EXCEPT !.theme = theme])
                                             /\ FromUi([[u EXCEPT !.theme = theme] EXCEPT !.chosen = other])
    BY DEF FromUi, Terminal, UiFields
  <1>5. ASSUME NEW p, p.kind = "theme", "kind" \in DOMAIN p PROVE PanelTyped(p)
    BY <1>5 DEF PanelTyped, Panelled
  <1>6. ASSUME NEW delta PROVE FromUi(Preview(ui, MoveThemeHighlight(t, delta, rows)))
    <2> DEFINE p == MoveThemeHighlight(t, delta, rows)
    <2>1. p.kind = "theme" /\ "kind" \in DOMAIN p
      BY <1>1 DEF MoveThemeHighlight, ScrollThemeHighlightIntoView
    <2> HIDE DEF p
    <2>2. FromUi([ui EXCEPT !.panel = p])
      BY <1>1, <1>3, <1>5, <2>1, FramesTyped
    <2>3. \A theme : FromUi([[ui EXCEPT !.panel = p] EXCEPT !.theme = theme])
      BY <1>4, <2>2
    <2> QED BY <2>3 DEF Preview, p
  <1>7. FromUi(saved)
    <2> DEFINE p == ConfirmTheme(t, chosen)
               v == Sent(InPanel(p))
    <2>1. p.kind = "theme" /\ "kind" \in DOMAIN p
      BY <1>1 DEF ConfirmTheme
    <2> HIDE DEF p
    <2>2. FromUi(InPanel(p))
      BY <1>1, <1>3, <1>5, <2>1, FramesTyped DEF InPanel
    <2>3. FromUi(v)
      BY <2>2, FramesTyped
    <2> HIDE DEF v
    <2>4. FromUi([[v EXCEPT !.theme = chosen] EXCEPT !.chosen = chosen])
      BY <1>4, <2>3
    <2> QED BY <2>4 DEF v, p
  <1>8. sent \in Seq(CallSet(ui.mount))
    <2>1. chosen \in Themes
      BY <1>1, PanelIs, ThemeWriters DEF Scenery
    <2>2. Call(ui, "saveTheme") \in CallSet(ui.mount)
      BY <1>1, SceneIs, CallTyped DEF Ops
    <2>3. [Call(ui, "saveTheme") EXCEPT !.theme = chosen] \in CallSet(ui.mount)
      BY <2>1, <2>2, SceneIs, CallFields
    <2>4. Superseded(calls, ui.mount, {"saveTheme"}) \in Seq(CallSet(ui.mount))
      BY SceneIs, SupersededTyped
    <2> DEFINE S == CallSet(ui.mount)
               q == Superseded(calls, ui.mount, {"saveTheme"})
               c == [Call(ui, "saveTheme") EXCEPT !.theme = chosen]
    <2>5. q \in Seq(S) /\ c \in S
      BY <2>3, <2>4
    <2> HIDE DEF S, q, c
    <2>6. Append(q, c) \in Seq(S)
      BY <2>5
    <2> QED BY <2>6 DEF S, q, c
  <1>9. Commit(saved, sent) /\ UNCHANGED store => TypesInv'
    <2> HIDE DEF saved, sent
    <2>1. saved.mount = ui.mount /\ Terminal(saved) /\ StoreTyped(store)
      BY <1>7, SceneIs DEF FromUi
    <2>2. UNCHANGED store => StoreTyped(store')
      BY <2>1
    <2> QED BY <1>8, <2>1, <2>2, CommitTyped
  <1> HIDE DEF saved, sent, t, rows
  <1> QED BY <1>2, <1>6, <1>9, StayTyped, StepTyped

\* A resume is sent, or asked about.
LEMMA ResumeStepsTyped ==
  ASSUME Scenery, NEW u, FromUi(u), u.mount # 0
  PROVE  /\ PerformResume(u, calls) /\ UNCHANGED store => TypesInv'
         /\ ConfirmWorkspaceOrResume(u, calls) /\ UNCHANGED store => TypesInv'
         /\ \A i \in DOMAIN calls : ConfirmWorkspaceOrResume(u, RemoveAt(calls, i)) /\ UNCHANGED store => TypesInv'
         /\ Commit([u EXCEPT !.resume = SetResumeResuming(@)], Append(calls, Call(u, "stop"))) /\ UNCHANGED store
              => TypesInv'
  <1> DEFINE r == [u EXCEPT !.resume = SetResumeResuming(@)]
  <1>1. u.resume \in ResumeState /\ u.mount = ui.mount /\ u.mount \in Nat /\ u.opening \in Nat
    BY DEF FromUi, Terminal
  <1>2. FromUi(r)
    <2>1. SetResumeResuming(u.resume) \in ResumeState
      BY <1>1, ResumeTyped
    <2> QED BY <2>1, FramesTyped
  <1>3. Call(u, "resume") \in CallSet(ui.mount) /\ Call(u, "stop") \in CallSet(ui.mount)
    BY <1>1, CallTyped DEF Ops
  <1>4. FromUi(OpenUserQuestion(u, "folder"))
    BY FramesTyped
  <1> HIDE DEF r
  <1>5. PerformResume(u, calls) => Commit(r, Append(calls, Call(u, "resume")))
    BY DEF PerformResume, r
  <1>6. \A i \in DOMAIN calls : PerformResume(u, RemoveAt(calls, i)) => Commit(r, Append(RemoveAt(calls, i), Call(u, "resume")))
    BY DEF PerformResume, r
  <1>7. PerformResume(u, calls) /\ UNCHANGED store => TypesInv'
    BY <1>2, <1>3, <1>5, StepTyped
  <1>8. \A i \in DOMAIN calls : PerformResume(u, RemoveAt(calls, i)) /\ UNCHANGED store => TypesInv'
    BY <1>2, <1>3, <1>6, StepTyped
  <1>9. ConfirmWorkspaceOrResume(u, calls) /\ UNCHANGED store => TypesInv'
    BY <1>4, <1>7, StepTyped DEF ConfirmWorkspaceOrResume
  <1>10. \A i \in DOMAIN calls : ConfirmWorkspaceOrResume(u, RemoveAt(calls, i)) /\ UNCHANGED store => TypesInv'
    BY <1>4, <1>8, StepTyped DEF ConfirmWorkspaceOrResume
  <1>11. Commit(r, Append(calls, Call(u, "stop"))) /\ UNCHANGED store => TypesInv'
    BY <1>2, <1>3, StepTyped
  <1> QED BY <1>7, <1>9, <1>10, <1>11 DEF r

LEMMA TypeResume ==
  ASSUME Scenery, ResumeKey
  PROVE  TypesInv'
  <1> DEFINE rows == ListRows(ui, "resume")
  <1>1. /\ Mounted(ui) = "resume"
        /\ \/ Press(AppEsc(CloseResumePanel(ui)))
           \/ \E delta \in {-1, 1} : Press([ui EXCEPT !.resume = MoveResumeHighlight(@, delta, rows)])
           \/ UNCHANGED store /\ Commit(Sent(OpenUserQuestion(ui, "stop")), calls)
           \/ UNCHANGED store /\ ConfirmWorkspaceOrResume(Sent(ui), calls)
    BY DEF ResumeKey
  <1>2. ui.mount # 0 /\ FromUi(ui) /\ DOMAIN ui = UiFields /\ rows \in Nat
    BY <1>1, SceneIs, RowsOfPanels DEF PanelKinds, Terminal
  <1> HIDE DEF rows
  <1>3. FromUi(Sent(OpenUserQuestion(ui, "stop"))) /\ FromUi(Sent(ui)) /\ Sent(ui).mount # 0
    <2>1. FromUi(OpenUserQuestion(ui, "stop")) /\ FromUi(Sent(ui))
      BY <1>2, FramesTyped
    <2> QED BY <1>2, <2>1, FramesTyped DEF FromUi
  <1>4. \A delta \in Int : FromUi([ui EXCEPT !.resume = MoveResumeHighlight(@, delta, rows)])
    <2>1. \A delta \in Int : MoveResumeHighlight(ui.resume, delta, rows) \in ResumeState
      BY <1>2, SceneIs, ResumeTyped
    <2>2. \A r \in ResumeState : FromUi([ui EXCEPT !.resume = r])
      BY <1>2, FramesTyped
    <2> QED BY <2>1, <2>2
  <1>5. -1 \in Int /\ 1 \in Int
    OBVIOUS
  <1>6. \A u : FromUi(u) => (Press(u) => TypesInv') /\ (Commit(u, calls) /\ UNCHANGED store => TypesInv')
    BY StepTyped
  <1> QED BY <1>1, <1>3, <1>4, <1>5, <1>6, StayTyped, ResumeStepsTyped

LEMMA TypeQuestion ==
  ASSUME Scenery, QuestionKey
  PROVE  TypesInv'
  <1> DEFINE u == CloseUserQuestion(ui)
  <1>1. Mounted(ui) = "question" /\ UNCHANGED store
    BY DEF QuestionKey
  <1>2. ui.question.kind # "none" /\ ui.question \in QuestionState /\ ui.mount # 0 /\ FromUi(ui) /\ DOMAIN ui = UiFields
    <2>1. ui.question.kind # "none"
      BY <1>1 DEF Mounted, ActiveDockedPanel
    <2> QED BY <2>1, SceneIs DEF Terminal
  <1>3. FromUi(u) /\ u.mount # 0
    BY <1>2, FramesTyped DEF FromUi
  <1>4. FromUi(CloseResumePanel(u))
    BY <1>3, FramesTyped
  <1>5. CASE \E yes \in BOOLEAN : Choose(yes)
    <2>1. PICK yes \in BOOLEAN : Choose(yes)
      BY <1>5
    <2> HIDE DEF u
    <2>2. \/ Commit([u EXCEPT !.resume = SetResumeResuming(@)], Append(calls, Call(u, "stop")))
          \/ Commit(u, calls) \/ PerformResume(u, calls) \/ Commit(CloseResumePanel(u), calls)
      BY <2>1 DEF Choose, u
    <2> QED BY <1>1, <1>3, <1>4, <2>2, ResumeStepsTyped, StepTyped
  <1>6. ASSUME NEW delta \in {-1, 1}, Commit([ui EXCEPT !.question.index = Clamp(@ + delta, 0, 1)], calls)
        PROVE  TypesInv'
    <2> DEFINE q == [ui.question EXCEPT !.index = Clamp(@ + delta, 0, 1)]
               v == [ui EXCEPT !.question = q]
    <2>1. Clamp(ui.question.index + delta, 0, 1) \in 0..1
      BY <1>2 DEF Clamp, AtMost, AtLeast, QuestionState
    <2>2. q \in QuestionState
      BY <1>2, <2>1 DEF QuestionState
    <2>3. [ui EXCEPT !.question.index = Clamp(@ + delta, 0, 1)] = v
      BY <1>2 DEF UiFields
    <2> HIDE DEF q
    <2>4. FromUi(v)
      BY <1>2, <2>2 DEF FromUi, Terminal, UiFields
    <2> HIDE DEF v
    <2> QED BY <1>1, <1>6, <2>3, <2>4, StepTyped
  <1> QED BY <1>5, <1>6 DEF QuestionKey

LEMMA TypeKey ==
  ASSUME Scenery, Key
  PROVE  TypesInv'
  BY TypeCommands, TypeMemoryCommand, TypeResize, TypeMemoryList, TypeMemoryItem, TypeMemoryEntry,
     TypeMemoryDetail, TypeMemoryConfirm, TypeMemoryBlocked, TypeMemoryForm, TypeModel, TypeInlineConnect,
     TypeConnect, TypeConnectField, TypeConnectKeyField, TypeTheme, TypeResume, TypeQuestion DEF Key

-----------------------------------------------------------------------------
(* The answers *)

\* What an answer may count on.
LEMMA CallsAre ==
  ASSUME Scenery, NEW i \in DOMAIN calls
  PROVE  /\ calls[i] \in CallSet(ui.mount) /\ ui.mount # 0 /\ calls[i].mount \in 1..ui.mount
         /\ calls[i].opening \in Nat /\ calls[i].provider \in ProviderSet \cup {None}
         /\ calls[i].then \in {"none", "idle", "list", "openModel"}
         /\ calls[i].op \in {"setKey", "inlineKey"} => calls[i].provider \in ProviderSet
         /\ calls[i].latest \in BOOLEAN /\ \A j \in DOMAIN calls : calls[j].op \in Ops
  <1>1. \A j \in DOMAIN calls : calls[j] \in CallSet(ui.mount)
    BY SceneIs
  <1>2. \A c \in CallSet(ui.mount) :
          /\ c.mount \in 1..ui.mount /\ c.opening \in Nat /\ c.provider \in ProviderSet \cup {None}
          /\ c.then \in {"none", "idle", "list", "openModel"} /\ c.latest \in BOOLEAN /\ c.op \in Ops
          /\ c.op \in {"setKey", "inlineKey"} => c.provider \in ProviderSet
    BY SceneIs, CallFields, Zenon
  <1>3. ui.mount # 0
    <2>1. calls[i].mount \in 1..ui.mount
      BY <1>1, <1>2
    <2> QED BY <2>1, SceneIs
  <1> QED BY <1>1, <1>2, <1>3

\* A panel replaced, if it is there.
LEMMA WithTyped ==
  ASSUME Scenery, NEW i \in DOMAIN calls, NEW kind, NEW p, ui.panel.kind = kind => PanelTyped(p) /\ p.kind = kind
  PROVE  /\ FromUi(With(ui, kind, p))
         /\ Done(i, With(ui, kind, p)) => TypesInv'
         /\ \A more \in Seq(CallSet(ui.mount)) :
              Then(i, With(ui, kind, p), more) /\ StoreTyped(store') => TypesInv'
  <1>1. FromUi(With(ui, kind, p))
    BY SceneIs, FramesTyped
  <1> QED BY <1>1, StepTyped

\* Nothing but the requests change.
LEMMA StaysTyped ==
  ASSUME Scenery, NEW i \in DOMAIN calls
  PROVE  /\ Done(i, ui) => TypesInv'
         /\ \A more \in Seq(CallSet(ui.mount)) : Then(i, ui, more) /\ StoreTyped(store') => TypesInv'
         /\ UNCHANGED store => StoreTyped(store')
  <1>1. FromUi(ui) /\ StoreTyped(store)
    BY SceneIs
  <1> QED BY <1>1, StepTyped

\* What an answer may do to the store.
LEMMA StoresTyped ==
  ASSUME Scenery
  PROVE  /\ \A n \in 0..MaxItems : StoreTyped([store EXCEPT !.items = n])
         /\ \A selection : StoreTyped([store EXCEPT !.active = selection])
         /\ \A p : StoreTyped([store EXCEPT !.connected = @ \ {p}])
         /\ \A p \in ProviderSet : Connected(p) \/ Refused(p) => StoreTyped(store')
         /\ \A op : \A st \in Mutated(op) \cup {store} : StoreTyped(st)
         /\ store.items \in 0..MaxItems /\ store.inbox \in 0..MaxItems /\ store.sessions \in 0..MaxSessions
  <1> USE DEF StoreTyped, StoreShape
  <1>1. StoreTyped(store)
    BY SceneIs
  <1>2. \A n \in 0..MaxItems : StoreTyped([store EXCEPT !.items = n])
    BY <1>1
  <1>3. \A selection : StoreTyped([store EXCEPT !.active = selection])
    BY <1>1
  <1>4. \A p : StoreTyped([store EXCEPT !.connected = @ \ {p}])
    BY <1>1
  <1>5. ASSUME NEW p \in ProviderSet, Connected(p) \/ Refused(p) PROVE StoreTyped(store')
    <2>1. StoreTyped(Settings(p))
      BY <1>1 DEF Settings
    <2>2. \A st \in Selections(p) : StoreTyped(st)
      BY <2>1 DEF Selections
    <2>3. \A st \in Connections(p) : StoreTyped(st)
      BY <2>2 DEF Connections
    <2> QED BY <1>1, <1>5, <2>1, <2>2, <2>3 DEF Connected, Refused
  <1>6. ASSUME NEW op, NEW st \in Mutated(op) \cup {store} PROVE StoreTyped(st)
    <2>1. /\ store.items \in 0..MaxItems /\ AtMost(store.items + 1, MaxItems) \in 0..MaxItems
          /\ AtLeast(0, store.items - 1) \in 0..MaxItems
      BY <1>1, ItemsAssumption DEF AtMost, AtLeast
    <2>2. ItemsAfter(op) \subseteq 0..MaxItems
      BY <2>1 DEF ItemsAfter
    <2>3. st = store \/ \E items \in ItemsAfter(op) : st = [store EXCEPT !.items = items]
      BY <1>6 DEF Mutated
    <2> QED BY <1>1, <1>2, <2>2, <2>3
  <1> QED BY <1>1, <1>2, <1>3, <1>4, <1>5, <1>6

\* The panel, if it is the one of /memory.
LEMMA MemoryHas ==
  ASSUME Scenery, NEW i \in DOMAIN calls
  PROVE  /\ ui.panel.kind = "memory" => ui.panel \in MemoryState
         /\ \A p : (ui.panel.kind = "memory" => p \in MemoryState) =>
              /\ FromUi(With(ui, "memory", p))
              /\ Done(i, With(ui, "memory", p)) => TypesInv'
              /\ Then(i, With(ui, "memory", p), <<>>) /\ StoreTyped(store') => TypesInv'
         /\ MemoryFailed(i) => TypesInv'
         /\ MemoryFails(i) /\ StoreTyped(store') => TypesInv'
         /\ \A u : FromUi(u) /\ RefreshMemory(i, u) /\ StoreTyped(store') => TypesInv'
  <1>1. ui.panel.kind = "memory" => ui.panel \in MemoryState
    BY SceneIs DEF PanelTyped
  <1>2. \A p \in MemoryState : PanelTyped(p) /\ p.kind = "memory"
    BY MemoryStateIs
  <1>3. ASSUME NEW p, ui.panel.kind = "memory" => p \in MemoryState
        PROVE  /\ FromUi(With(ui, "memory", p))
               /\ Done(i, With(ui, "memory", p)) => TypesInv'
               /\ Then(i, With(ui, "memory", p), <<>>) /\ StoreTyped(store') => TypesInv'
    <2>1. <<>> \in Seq(CallSet(ui.mount))
      OBVIOUS
    <2> QED BY <1>2, <1>3, <2>1, WithTyped
  <1>4. MemoryFails(i) /\ StoreTyped(store') => TypesInv'
    BY <1>1, <1>3, MemoryTyped DEF MemoryFails
  <1>5. MemoryFailed(i) => TypesInv'
    BY <1>4, StaysTyped DEF MemoryFailed
  <1>6. ASSUME NEW u, FromUi(u), RefreshMemory(i, u), StoreTyped(store') PROVE TypesInv'
    <2> DEFINE c == [Call(u, "list") EXCEPT !.mount = calls[i].mount]
               v == With(u, "memory", ResetMemoryData(u.panel))
    <2>1. u.mount \in Nat /\ u.mount = ui.mount /\ u.opening \in Nat /\ PanelTyped(u.panel)
      BY <1>6 DEF FromUi, Terminal
    <2>2. Call(u, "list") \in CallSet(ui.mount)
      BY <2>1, CallsAre, CallTyped DEF Ops
    <2>3. c \in CallSet(ui.mount)
      BY <2>1, <2>2, CallsAre, CallFields, Zenon
    <2>4. u.panel.kind = "memory" => ResetMemoryData(u.panel) \in MemoryState
      BY <2>1, MemoryTyped DEF PanelTyped
    <2>5. FromUi(v)
      BY <1>2, <1>6, <2>4, FramesTyped
    <2>6. Then(i, v, <<c>>)
      BY <1>6 DEF RefreshMemory
    <2> HIDE DEF c, v
    <2>7. <<c>> \in Seq(CallSet(ui.mount))
      BY <2>3
    <2> QED BY <1>6, <2>5, <2>6, <2>7, StepTyped
  <1> QED BY <1>1, <1>3, <1>4, <1>5, <1>6

LEMMA TypeListAnswer ==
  ASSUME Scenery, NEW i \in DOMAIN calls, AnswerList(i)
  PROVE  TypesInv'
  <1>1. Done(i, With(ui, "memory", SetMemoryData(ui.panel, store.items, store.inbox))) \/ MemoryFailed(i)
    BY DEF AnswerList
  <1>2. ui.panel.kind = "memory" => SetMemoryData(ui.panel, store.items, store.inbox) \in MemoryState
    BY MemoryHas, StoresTyped, MemoryTyped
  <1> QED BY <1>1, <1>2, MemoryHas

LEMMA TypeShowAnswer ==
  ASSUME Scenery, NEW i \in DOMAIN calls, AnswerShow(i)
  PROVE  TypesInv'
  <1>1. CASE ~IsCurrentMemoryRequest(calls[i])
    BY <1>1, StaysTyped DEF AnswerShow
  <1>2. CASE IsCurrentMemoryRequest(calls[i])
    <2>1. ui.panel.kind = "memory" /\ ui.panel \in MemoryState
      BY <1>2, SceneIs, MemoryHas DEF IsCurrentMemoryRequest
    <2>2. {1, MaxLines} \subseteq 0..MaxLines /\ calls[i].opening \in Nat
      BY CallsAre, ItemsAssumption
    <2>3. \A p \in MemoryState : Done(i, InPanel(p)) => TypesInv'
      <3>1. \A p \in MemoryState : FromUi(InPanel(p))
        BY <2>1, MemoryStateIs, PressTyped
      <3> QED BY <3>1, StepTyped
    <2>4. /\ \A lines \in {1, MaxLines} : SetMemoryDetail(ui.panel, lines, calls[i].opening) \in MemoryState
          /\ OpenEditMemoryForm(ui.panel, calls[i].opening) \in MemoryState
      BY <2>1, <2>2, MemoryTyped
    <2>5. \/ \E lines \in {1, MaxLines} : Done(i, InPanel(SetMemoryDetail(ui.panel, lines, calls[i].opening)))
          \/ Done(i, InPanel(OpenEditMemoryForm(ui.panel, calls[i].opening))) \/ MemoryFailed(i)
      BY <1>2 DEF AnswerShow
    <2> QED BY <2>3, <2>4, <2>5, MemoryHas
  <1> QED BY <1>1, <1>2

LEMMA TypeFormAnswer ==
  ASSUME Scenery, NEW i \in DOMAIN calls, AnswerForm(i)
  PROVE  TypesInv'
  <1> DEFINE closed == With(ui, "memory", CloseMemoryForm(ui.panel))
  <1>1. RefreshMemory(i, closed) \/ Then(i, With(ui, "memory", SubmitFailed(ui.panel)), <<>>)
    BY DEF AnswerForm
  <1>2. StoreTyped(store')
    BY StoresTyped DEF AnswerForm
  <1>3. FromUi(closed)
    BY MemoryHas, MemoryTyped
  <1> HIDE DEF closed
  <1>4. ui.panel.kind = "memory" => SubmitFailed(ui.panel) \in MemoryState
    BY MemoryHas, MemoryTyped
  <1> QED BY <1>1, <1>2, <1>3, <1>4, MemoryHas

LEMMA TypeMutationAnswer ==
  ASSUME Scenery, NEW i \in DOMAIN calls, AnswerMutation(i)
  PROVE  TypesInv'
  <1>1. RefreshMemory(i, ui) \/ MemoryFails(i)
    BY DEF AnswerMutation
  <1>2. StoreTyped(store') /\ FromUi(ui)
    BY SceneIs, StoresTyped DEF AnswerMutation
  <1> QED BY <1>1, <1>2, MemoryHas

\* The panel, if it is the one of /model.
LEMMA ModelHas ==
  ASSUME Scenery, NEW i \in DOMAIN calls
  PROVE  /\ ui.panel.kind = "model" => ModelTyped(ui.panel)
         /\ ListRows(ui, "model") \in Nat \ {0}
         /\ \A p : (ui.panel.kind = "model" => ModelTyped(p)) =>
              /\ FromUi(With(ui, "model", p))
              /\ Done(i, With(ui, "model", p)) => TypesInv'
              /\ \A more \in Seq(CallSet(ui.mount)) :
                   Then(i, With(ui, "model", p), more) /\ StoreTyped(store') => TypesInv'
         /\ <<>> \in Seq(CallSet(ui.mount))
  <1>1. ui.panel.kind = "model" => ModelTyped(ui.panel)
    BY SceneIs DEF PanelTyped
  <1>2. ListRows(ui, "model") \in Nat \ {0}
    BY SceneIs, RowsOfPanels DEF PanelKinds
  <1>3. \A p : ModelTyped(p) => PanelTyped(p) /\ p.kind = "model"
    BY DEF PanelTyped, ModelTyped, ModelShape, ModelFields, Panelled
  <1>4. ASSUME NEW p, ui.panel.kind = "model" => ModelTyped(p)
        PROVE  /\ FromUi(With(ui, "model", p))
               /\ Done(i, With(ui, "model", p)) => TypesInv'
               /\ \A more \in Seq(CallSet(ui.mount)) :
                    Then(i, With(ui, "model", p), more) /\ StoreTyped(store') => TypesInv'
    BY <1>3, <1>4, WithTyped
  <1>5. <<>> \in Seq(CallSet(ui.mount))
    OBVIOUS
  <1> QED BY <1>1, <1>2, <1>4, <1>5

LEMMA TypeLoadAnswer ==
  ASSUME Scenery, NEW i \in DOMAIN calls, AnswerLoad(i)
  PROVE  TypesInv'
  <1> DEFINE v == ListRows(ui, "model")
             listed(active) ==
               SetModelActiveSelection(SetModelProvidersLoading(ui.panel, store.connected, v),
                                       EffectiveSelection(active, store.connected), v)
             ended(panel) == IF calls[i].then = "idle" THEN [panel EXCEPT !.inFlight = FALSE] ELSE panel
             list == Only(Providers, store.connected)
             more == [k \in DOMAIN list |-> LoadCall(calls[i], list[k])]
  <1>1. v \in Nat \ {0}
    BY ModelHas
  <1> HIDE DEF v
  <1>2. ASSUME NEW p, ModelTyped(p) PROVE ModelTyped(ended(p))
    BY <1>1, <1>2, ModelWritersTyped, Zenon
  <1>3. ASSUME NEW active, ModelTyped(ui.panel) PROVE ModelTyped(listed(active))
    <2> DEFINE q == SetModelProvidersLoading(ui.panel, store.connected, v)
    <2>1. ModelTyped(q)
      BY <1>1, <1>3, ModelWritersTyped, Zenon
    <2> HIDE DEF q
    <2>2. \A selection : ModelTyped(SetModelActiveSelection(q, selection, v))
      BY <1>1, <2>1, ModelWritersTyped, Zenon
    <2> QED BY <2>2 DEF q
  <1>4. \/ Done(i, With(ui, "model", ended(ui.panel)))
        \/ \E active : /\ Then(i, With(ui, "model", ended(listed(active))), more)
                       /\ UNCHANGED store
    BY DEF AnswerLoad, v
  <1>5. more \in Seq(CallSet(ui.mount))
    <2>1. Providers \in Seq(ProviderSet)
      BY CatalogAssumption DEF ProviderSet
    <2>2. list \in Seq(ProviderSet)
      BY <2>1, OnlyIs
    <2> HIDE DEF list
    <2>3. DOMAIN list = 1..Len(list) /\ Len(list) \in Nat /\ \A k \in 1..Len(list) : list[k] \in ProviderSet
      BY <2>2
    <2>4. \A p \in ProviderSet : LoadCall(calls[i], p) \in CallSet(ui.mount)
      BY SceneIs, CallsAre, CallFields, Zenon
    <2>5. more \in [1..Len(list) -> CallSet(ui.mount)]
      BY <2>3, <2>4
    <2> QED BY <2>3, <2>5
  <1> HIDE DEF ended, listed, more
  <1>6. /\ ui.panel.kind = "model" => ModelTyped(ended(ui.panel))
        /\ \A active : ui.panel.kind = "model" => ModelTyped(ended(listed(active)))
    BY <1>2, <1>3, ModelHas
  <1>7. Done(i, With(ui, "model", ended(ui.panel))) => TypesInv'
    BY <1>6, ModelHas
  <1>8. \A active : Then(i, With(ui, "model", ended(listed(active))), more) /\ UNCHANGED store => TypesInv'
    BY <1>5, <1>6, ModelHas, StaysTyped
  <1> QED BY <1>4, <1>7, <1>8

LEMMA TypeModelsAnswer ==
  ASSUME Scenery, NEW i \in DOMAIN calls, AnswerModels(i)
  PROVE  TypesInv'
  <1>1. ASSUME NEW status, NEW models, [status |-> status, models |-> models] \in Load, Loaded(i, status, models)
        PROVE  TypesInv'
    <2> DEFINE load == [status |-> status, models |-> models]
               v == ListRows(ui, "model")
               p == SetProviderModelLoad(ui.panel, calls[i].provider, load, v)
    <2>1. load \in Load /\ v \in Nat \ {0}
      BY <1>1, ModelHas
    <2>2. Done(i, With(ui, "model", p))
      BY <1>1 DEF Loaded
    <2> HIDE DEF load, v
    <2>3. ui.panel.kind = "model" => ModelTyped(p)
      BY <2>1, ModelHas, ModelWritersTyped, Zenon
    <2> HIDE DEF p
    <2> QED BY <2>2, <2>3, ModelHas
  <1>2. CASE Done(i, ui)
    BY <1>2, StaysTyped
  <1>3. \/ Done(i, ui) \/ \E list \in ModelLists : Loaded(i, "loaded", list)
        \/ Loaded(i, "empty", <<>>) \/ Loaded(i, "failed", <<>>)
    BY DEF AnswerModels
  <1> QED BY <1>1, <1>2, <1>3, AnsweredLists

LEMMA TypeSelectAnswer ==
  ASSUME Scenery, NEW i \in DOMAIN calls, AnswerSelect(i)
  PROVE  TypesInv'
  <1> DEFINE v == ListRows(ui, "model")
             selection == [provider |-> calls[i].provider, model |-> calls[i].model]
             p == SetModelActiveSelection(ui.panel, selection, v)
             u == CloseActiveSurface(With(ui, "model", p))
  <1>1. /\ store' \in {[store EXCEPT !.active = selection], store}
        /\ Then(i, u, <<>>) \/ Then(i, ui, <<>>)
    BY DEF AnswerSelect
  <1>2. v \in Nat \ {0}
    BY ModelHas
  <1> HIDE DEF v, selection
  <1>3. ui.panel.kind = "model" => ModelTyped(p)
    BY <1>2, ModelHas, ModelWritersTyped, Zenon
  <1> HIDE DEF p
  <1>4. FromUi(u)
    <2>1. FromUi(With(ui, "model", p))
      BY <1>3, ModelHas
    <2> QED BY <2>1, FramesTyped
  <1>5. StoreTyped(store')
    BY <1>1, StoresTyped, StaysTyped
  <1>6. <<>> \in Seq(CallSet(ui.mount))
    OBVIOUS
  <1> HIDE DEF u
  <1> QED BY <1>1, <1>4, <1>5, <1>6, StaysTyped, StepTyped

LEMMA TypeInlineAnswer ==
  ASSUME Scenery, NEW i \in DOMAIN calls, AnswerInlineKey(i)
  PROVE  TypesInv'
  <1> DEFINE refused == [ui.panel EXCEPT !.outcome = "refused", !.inFlight = FALSE]
             failed  == [ui.panel EXCEPT !.error = TRUE, !.inFlight = FALSE]
             S       == CallSet(ui.mount)
             older   == Superseded(RemoveAt(calls, i), calls[i].mount, {"load", "models"})
             load    == [calls[i] EXCEPT !.op = "load", !.provider = None, !.then = "idle"]
             u       == With(ui, "model", ResetModelSurface)
  <1>1. calls[i].op \in {"inlineKey"}
    BY DEF AnswerInlineKey, Arrives
  <1>2. calls[i].provider \in ProviderSet
    BY <1>1, CallsAre
  <1>3. \/ Connected(calls[i].provider) /\ Commit(u, Append(older, load))
        \/ Refused(calls[i].provider) /\ Then(i, With(ui, "model", refused), <<>>)
        \/ Refused(calls[i].provider) /\ Then(i, With(ui, "model", failed), <<>>)
    BY DEF AnswerInlineKey
  <1>4. ui.panel.kind = "model" => ModelTyped(refused) /\ ModelTyped(failed)
    <2>1. 1 \in Nat \ {0}
      OBVIOUS
    <2> QED BY <2>1, ModelHas, ModelWritersTyped, Zenon
  <1>5. older \in Seq(S) /\ load \in S
    <2>1. RemoveAt(calls, i) \in Seq(S)
      BY SceneIs, RemovalTyped
    <2>2. older \in Seq(S)
      BY <2>1, SceneIs, SupersededTyped
    <2>3. load \in S
      BY SceneIs, CallsAre, CallFields, Zenon
    <2> QED BY <2>2, <2>3
  <1>6. FromUi(u)
    <2>1. ui.panel.kind = "model" => ModelTyped(ResetModelSurface)
      BY ResetsTyped DEF PanelTyped
    <2> QED BY <2>1, ModelHas
  <1>7. Append(older, load) \in Seq(S)
    <2> HIDE DEF older, load, S
    <2> QED BY <1>5
  <1>8. Connected(calls[i].provider) \/ Refused(calls[i].provider) => StoreTyped(store')
    BY <1>2, StoresTyped
  <1>9. Connected(calls[i].provider) /\ Commit(u, Append(older, load)) => TypesInv'
    <2> HIDE DEF u, older, load
    <2> QED BY <1>6, <1>7, <1>8, CommitTyped DEF FromUi
  <1> HIDE DEF refused, failed, u, older, load
  <1> QED BY <1>3, <1>4, <1>8, <1>9, ModelHas

\* The backend's list of providers.
LEMMA ProviderRowsTyped ==
  ASSUME Scenery
  PROVE  ProviderRows \in Seq(KnownRow)
  <1> DEFINE n == Len(Providers)
             row(k) == [id |-> Providers[k], connected |-> Providers[k] \in store.connected,
                        url |-> IF Providers[k] = Custom THEN store.url ELSE TRUE]
  <1>1. n \in Nat /\ DOMAIN Providers = 1..n /\ \A k \in 1..n : Providers[k] \in ProviderSet
    BY CatalogAssumption DEF ProviderSet
  <1>2. store.url \in BOOLEAN
    BY SceneIs DEF StoreTyped
  <1>3. ASSUME NEW k \in 1..n PROVE row(k) \in KnownRow
    <2> DEFINE connected == Providers[k] \in store.connected
               url == IF Providers[k] = Custom THEN store.url ELSE TRUE
    <2>1. connected \in BOOLEAN
      OBVIOUS
    <2>2. url \in BOOLEAN
      BY <1>2, Zenon
    <2> HIDE DEF connected, url
    <2>3. [id |-> Providers[k], connected |-> connected, url |-> url] \in KnownRow
      BY <1>1, <2>1, <2>2 DEF KnownRow
    <2> QED BY <2>3 DEF connected, url
  <1>4. ProviderRows = [k \in 1..n |-> row(k)]
    BY <1>1 DEF ProviderRows
  <1>5. ProviderRows \in [1..n -> KnownRow]
    <2> HIDE DEF row
    <2> QED BY <1>3, <1>4
  <1> HIDE DEF n
  <1> QED BY <1>1, <1>5

\* The panel, if it is the one of /connect.
LEMMA ConnectHas ==
  ASSUME Scenery, NEW i \in DOMAIN calls
  PROVE  /\ ui.panel.kind = "connect" => ConnectTyped(ui.panel) /\ ui.panel.selected \in Nat
         /\ \A u, p : FromUi(u) /\ (u.panel.kind = "connect" => ConnectTyped(p)) => FromUi(With(u, "connect", p))
         /\ \A p : (ui.panel.kind = "connect" => ConnectTyped(p)) => (ConnectFailed(i, p) /\ StoreTyped(store') => TypesInv')
         /\ \A then \in {"none", "idle", "list", "openModel"} : ReadProviders(i, then) \in Seq(CallSet(ui.mount))
  <1>1. ui.panel.kind = "connect" => ConnectTyped(ui.panel) /\ ui.panel.selected \in Nat
    BY SceneIs, PanelIs DEF PanelTyped, Scenery, GoodConnect, OwnSteps
  <1>2. \A p : ConnectTyped(p) => PanelTyped(p) /\ p.kind = "connect"
    BY DEF PanelTyped, ConnectTyped, Panelled
  <1>3. \A u, p : FromUi(u) /\ (u.panel.kind = "connect" => ConnectTyped(p)) => FromUi(With(u, "connect", p))
    BY <1>2, FramesTyped
  <1>4. ASSUME NEW p, ui.panel.kind = "connect" => ConnectTyped(p), ConnectFailed(i, p), StoreTyped(store')
        PROVE  TypesInv'
    <2>1. ConnectTyped(p) => ConnectTyped(EndMutation(p))
      BY ConnectFieldsTyped DEF EndMutation
    <2>2. FromUi(With(ui, "connect", EndMutation(p)))
      BY <1>3, <1>4, <2>1, SceneIs
    <2>3. <<>> \in Seq(CallSet(ui.mount))
      OBVIOUS
    <2> QED BY <1>4, <2>2, <2>3, StepTyped DEF ConnectFailed
  <1>5. ASSUME NEW then \in {"none", "idle", "list", "openModel"}
        PROVE  ReadProviders(i, then) \in Seq(CallSet(ui.mount))
    <2> DEFINE c == [calls[i] EXCEPT !.op = "providers", !.provider = None, !.then = then]
    <2>1. c \in CallSet(ui.mount)
      BY SceneIs, CallsAre, CallFields, Zenon
    <2> HIDE DEF c
    <2>2. <<c>> \in Seq(CallSet(ui.mount))
      BY <2>1
    <2> QED BY <2>2 DEF ReadProviders, c
  <1> QED BY <1>1, <1>3, <1>4, <1>5

LEMMA AfterTyped ==
  ASSUME Scenery, NEW i \in DOMAIN calls, NEW u, FromUi(u), NEW then
  PROVE  FromUi(AfterProviders(u, then))
  <1> DEFINE ended == CASE then = "none" -> u.panel
                        [] then = "list" -> EndMutation([u.panel EXCEPT !.step = "list", !.confirm = FALSE])
                        [] OTHER -> EndMutation(u.panel)
             idle == With(u, "connect", ended)
  <1>1. u.panel.kind = "connect" => ConnectTyped(u.panel)
    BY DEF FromUi, Terminal, PanelTyped
  <1>2. \A c : ConnectTyped(c) => ConnectTyped(EndMutation(c))
    BY ConnectFieldsTyped DEF EndMutation
  <1>3. \A c : ConnectTyped(c) => ConnectTyped([c EXCEPT !.step = "list", !.confirm = FALSE])
    BY ConnectFieldsTyped DEF ConnectSteps
  <1>4. u.panel.kind = "connect" => ConnectTyped(ended)
    BY <1>1, <1>2, <1>3
  <1>5. AfterProviders(u, then) = IF then = "openModel" THEN OpenModelSurface(idle) ELSE idle
    BY DEF AfterProviders
  <1> HIDE DEF ended
  <1>6. FromUi(idle)
    BY <1>4, ConnectHas
  <1> HIDE DEF idle
  <1> QED BY <1>5, <1>6, FramesTyped

LEMMA TypeProvidersAnswer ==
  ASSUME Scenery, NEW i \in DOMAIN calls, AnswerProviders(i)
  PROVE  TypesInv'
  <1> DEFINE p      == SetConnectProviders(ui.panel, ProviderRows, ui.target)
             next   == With(ui, "connect", p)
             target == IF TargetIndex(ProviderRows, ui.target) >= 0 THEN None ELSE next.target
             read   == [next EXCEPT !.known = ProviderRows, !.target = target]
  <1>1. \E u \in {read, ui} : Done(i, AfterProviders(u, calls[i].then))
    BY DEF AnswerProviders
  <1>2. ui.panel.kind = "connect" => ConnectTyped(p)
    BY ConnectHas, ProviderRowsTyped, ConnectWritersTyped, Zenon
  <1> HIDE DEF p, target
  <1>3. FromUi(next)
    BY <1>2, SceneIs, ConnectHas
  <1> HIDE DEF next
  <1>4. FromUi(read)
    BY <1>3, ProviderRowsTyped, FramesTyped
  <1>5. \A u \in {read, ui} : FromUi(AfterProviders(u, calls[i].then))
    BY <1>4, SceneIs, AfterTyped
  <1> HIDE DEF read
  <1> QED BY <1>1, <1>5, StepTyped

LEMMA TypeSetKeyAnswer ==
  ASSUME Scenery, NEW i \in DOMAIN calls, AnswerSetKey(i)
  PROVE  TypesInv'
  <1>1. calls[i].op \in {"setKey"}
    BY DEF AnswerSetKey, Arrives
  <1>2. calls[i].provider \in ProviderSet
    BY <1>1, CallsAre
  <1>3. StoreTyped(store')
    BY <1>2, StoresTyped DEF AnswerSetKey
  <1>4. ConnectFailed(i, ui.panel) => TypesInv'
    BY <1>3, ConnectHas
  <1> QED BY <1>3, <1>4, ConnectHas, StaysTyped DEF AnswerSetKey

LEMMA TypeClearAnswer ==
  ASSUME Scenery, NEW i \in DOMAIN calls, AnswerClear(i)
  PROVE  TypesInv'
  <1>1. StoreTyped(store')
    BY StoresTyped, StaysTyped DEF AnswerClear
  <1>2. ui.panel.kind = "connect" => ConnectTyped([ui.panel EXCEPT !.confirm = FALSE])
    BY ConnectHas, ConnectFieldsTyped
  <1>3. ConnectFailed(i, [ui.panel EXCEPT !.confirm = FALSE]) => TypesInv'
    BY <1>1, <1>2, ConnectHas
  <1>4. "list" \in {"none", "idle", "list", "openModel"}
    OBVIOUS
  <1> QED BY <1>1, <1>3, <1>4, ConnectHas, StaysTyped DEF AnswerClear

LEMMA TypeSaveAnswer ==
  ASSUME Scenery, NEW i \in DOMAIN calls, AnswerSaveTheme(i)
  PROVE  TypesInv'
  <1> DEFINE p == [ui.panel EXCEPT !.warning = TRUE]
  <1>1. Done(i, CloseActiveSurface(ui)) \/ Done(i, With(ui, "theme", p)) \/ Done(i, ui)
    BY DEF AnswerSaveTheme
  <1>2. ui.panel.kind = "theme" => PanelTyped(p) /\ p.kind = "theme"
    <2>1. "kind" \in DOMAIN ui.panel
      BY SceneIs DEF PanelTyped
    <2>2. ui.panel.kind = "theme" => p.kind = "theme" /\ "kind" \in DOMAIN p
      BY <2>1
    <2> QED BY <2>2 DEF PanelTyped, Panelled
  <1> HIDE DEF p
  <1>3. FromUi(CloseActiveSurface(ui))
    BY SceneIs, FramesTyped
  <1> QED BY <1>1, <1>2, <1>3, WithTyped, StaysTyped, StepTyped

LEMMA TypeResumeAnswer ==
  ASSUME Scenery, NEW i \in DOMAIN calls, AnswerSessions(i) \/ AnswerStop(i) \/ AnswerResume(i)
  PROVE  TypesInv'
  <1>1. FromUi(ui) /\ ui.resume \in ResumeState /\ store.sessions \in 0..MaxSessions /\ ui.mount # 0
    BY SceneIs, StoresTyped, CallsAre
  <1>2. SetResumeRows(ui.resume, store.sessions) \in ResumeState /\ SetResumeFailure(ui.resume) \in ResumeState
    BY <1>1, ResumeTyped
  <1>3. /\ FromUi([ui EXCEPT !.resume = SetResumeRows(@, store.sessions)])
        /\ FromUi([ui EXCEPT !.resume = SetResumeFailure(@)])
        /\ FromUi(CloseResumePanel(ui))
    BY <1>1, <1>2, FramesTyped
  <1>4. ResumeFailed(i) => TypesInv'
    BY <1>3, StepTyped DEF ResumeFailed
  <1>5. CASE AnswerSessions(i)
    BY <1>3, <1>4, <1>5, StepTyped DEF AnswerSessions
  <1>6. CASE AnswerResume(i)
    BY <1>3, <1>4, <1>6, StepTyped DEF AnswerResume
  <1>7. CASE AnswerStop(i)
    <2> DEFINE c == [calls[i] EXCEPT !.op = "idle"]
    <2>1. c \in CallSet(ui.mount)
      BY SceneIs, CallsAre, CallFields, Zenon
    <2>2. \/ ConfirmWorkspaceOrResume(ui, RemoveAt(calls, i)) /\ UNCHANGED store
          \/ Then(i, ui, <<c>>) /\ UNCHANGED store
          \/ ResumeFailed(i)
      BY <1>7 DEF AnswerStop
    <2> HIDE DEF c
    <2>3. <<c>> \in Seq(CallSet(ui.mount))
      BY <2>1
    <2> QED BY <1>1, <1>4, <2>2, <2>3, ResumeStepsTyped, StaysTyped
  <1> QED BY <1>5, <1>6, <1>7

LEMMA TypeAnswer ==
  ASSUME Scenery, NEW i \in DOMAIN calls, Answer(i)
  PROVE  TypesInv'
  BY TypeListAnswer, TypeShowAnswer, TypeFormAnswer, TypeMutationAnswer, TypeLoadAnswer, TypeModelsAnswer,
     TypeSelectAnswer, TypeInlineAnswer, TypeProvidersAnswer, TypeSetKeyAnswer, TypeClearAnswer,
     TypeSaveAnswer, TypeResumeAnswer DEF Answer

-----------------------------------------------------------------------------
LEMMA TypesStart == Init => TypesInv
  <1> SUFFICES ASSUME Init PROVE TypesInv
    OBVIOUS
  <1>1. PICK height \in Heights, connected \in ConnectedAtStart :
          /\ ui = [Start(height) EXCEPT !.sent = Cardinality(connected)]
          /\ store = [items |-> 1, inbox |-> 1, sessions |-> MaxSessions, active |-> NoSelection,
                      connected |-> connected, url |-> Custom \in connected]
    BY DEF Init
  <1>2. /\ DOMAIN ui = UiFields /\ ui.surface = "home" /\ ui.question = NoQuestion /\ ui.rows = height
        /\ ui.panel = NoPanel /\ ui.resume = ResetResumeSurface /\ ui.opening = 0 /\ ui.known = <<>>
        /\ ui.mount = 0 /\ ui.resuming = FALSE
    BY <1>1 DEF Start, UiFields
  <1>3. height \in Nat /\ connected \subseteq ProviderSet /\ MaxSessions \in 0..MaxSessions /\ 1 \in 0..MaxItems
    BY SizesAssumption, ItemsAssumption
  <1>4. Terminal(ui)
    <2>1. <<>> \in Seq(KnownRow)
      OBVIOUS
    <2> QED BY <1>2, <1>3, <2>1, ResetsTyped DEF Terminal
  <1>5. StoreTyped(store)
    BY <1>1, <1>3 DEF StoreTyped, StoreShape
  <1>6. calls \in Seq(CallSet(ui.mount))
    <2>1. calls = <<>>
      BY DEF Init
    <2>2. <<>> \in Seq(CallSet(ui.mount))
      OBVIOUS
    <2> QED BY <2>1, <2>2
  <1>7. Mounted(ui) \notin PanelKinds
    BY <1>2 DEF Mounted, ActiveDockedPanel, NoQuestion, PanelKinds
  <1> QED BY <1>4, <1>5, <1>6, <1>7 DEF TypesInv

LEMMA TypesStep == PanelInv /\ TypesInv /\ [Next]_vars => TypesInv'
  <1> SUFFICES ASSUME PanelInv, TypesInv, [Next]_vars PROVE TypesInv'
    OBVIOUS
  <1>1. CASE UNCHANGED vars
    BY <1>1 DEF vars, TypesInv, Terminal, StoreTyped, StoreShape, Mounted, TooSmall, ActiveDockedPanel
  <1>2. Scenery
    BY DEF Scenery
  <1>3. CASE Next
    BY <1>2, <1>3, TypeKey, TypeAnswer DEF Next
  <1> QED BY <1>1, <1>3

LEMMA TypesHold == Spec => []TypesInv
  <1>1. Spec => []PanelInv
    BY PanelsHold
  <1> QED BY <1>1, TypesStart, TypesStep, PTL DEF Spec

\* Whatever the user presses and whatever the backend answers, in whatever order, what the
\* terminal keeps of its panels is of the active surface and within its ranges: the atoms of
\* state/ui for /memory, /model, /connect and /theme, the list of sessions, the question that
\* is asked, and the requests under way, each of a panel that was mounted.
THEOREM PanelTypesCorrect == Spec => []PanelsTypeOK
  <1>1. ASSUME PanelInv, TypesInv PROVE PanelsTypeOK
    <2>1. Scenery
      BY <1>1 DEF Scenery
    <2>2. /\ PanelTyped(ui.panel) /\ ui.resume \in ResumeState /\ ui.question \in QuestionState
          /\ ui.mount \in Nat /\ StoreTyped(store)
      BY <2>1, SceneIs
    <2>3. ui.panel = NoPanel \/ ui.panel.kind = ui.surface
      BY <1>1, <2>2 DEF PanelInv, TerminalInv, PanelTyped
    <2>4. ui.panel.kind = "memory" => ui.panel \in MemoryState
      BY <2>2 DEF PanelTyped
    <2>5. ui.panel.kind = "model" => ModelPanelOK(ui.panel)
      BY <2>2 DEF PanelTyped, ModelTyped, ModelShape, Load, ModelPanelOK
    <2>6. ui.panel.kind = "connect" => ConnectPanelOK(ui.panel)
      <3> SUFFICES ASSUME ui.panel.kind = "connect" PROVE ConnectPanelOK(ui.panel)
        OBVIOUS
      <3>1. ConnectTyped(ui.panel)
        BY <2>2 DEF PanelTyped
      <3>2. OwnSteps(ui.panel, ui.known) /\ KnownAgrees(ui.known)
        BY <1>1, PanelIs DEF GoodConnect
      <3>3. Len(Providers) \in Nat
        BY CatalogAssumption
      <3>4. ui.panel.selected \in 0..Len(Providers)
        BY <3>2, <3>3 DEF OwnSteps, KnownAgrees
      <3> QED BY <3>1, <3>4 DEF ConnectTyped, ConnectPanelOK
    <2>7. ui.panel.kind = "theme" => ui.panel.highlight \in 0..(Catalog - 1) /\ ui.theme \in Themes
      BY <1>1, PanelIs DEF PanelShape
    <2>8. ui.panel.kind \notin {"memory", "model", "connect", "theme"} => ui.panel = NoPanel
      BY <2>2 DEF PanelTyped, Panelled
    <2>9. /\ ui.resume.status \in ResumeStatuses /\ ui.resume.highlight \in 0..MaxSessions
          /\ ui.question \in [kind : {"none", "stop", "folder"}, index : 0..1]
      BY <2>2 DEF ResumeState, QuestionState
    <2>10. \A i \in DOMAIN calls : calls[i].op \in Ops /\ calls[i].mount \in 1..ui.mount
      BY <2>1, CallsAre
    <2>11. store.items \in 0..MaxItems /\ store.connected \subseteq ProviderSet
      BY <2>2 DEF StoreTyped
    <2> QED BY <2>3, <2>4, <2>5, <2>6, <2>7, <2>8, <2>9, <2>10, <2>11 DEF PanelsTypeOK
  <1> QED BY <1>1, PanelsHold, TypesHold, PTL

-----------------------------------------------------------------------------
(* Who takes a request off: only its own answer, so a request for models is taken off *)
(* by its arrival, which leaves the highlight in its place.                            *)

\* A step adds to the requests it leaves at most that of the panel it mounts.
LEMMA CommitAdds ==
  ASSUME NEW S, NEW pending \in Seq(S), NEW u, Commit(u, pending)
  PROVE  \/ calls' = pending
         \/ Len(calls') \in Nat /\ Len(calls') > Len(pending)
  <1>1. PICK more : calls' = pending \o more /\ (more = <<>> \/ \E c : more = <<c>>)
    BY DEF Commit, MountCalls
  <1>2. CASE more = <<>>
    BY <1>1, <1>2
  <1>3. CASE \E c : more = <<c>>
    <2>1. PICK c : more = <<c>>
      BY <1>3
    <2>2. pending \in Seq(S \cup {c}) /\ more \in Seq(S \cup {c}) /\ Len(more) = 1
      BY <2>1
    <2>3. Len(pending \o more) = Len(pending) + Len(more)
      BY <2>2, ConcatProperties
    <2>4. Len(pending) \in Nat
      OBVIOUS
    <2> QED BY <1>1, <2>2, <2>3, <2>4
  <1> QED BY <1>1, <1>2, <1>3

\* A step that leaves no fewer requests than it found.
NoFewer == Len(calls') \in Nat /\ Len(calls') >= Len(calls)

\* Request i at most is taken off.
TakesOff(i) == NoFewer \/ calls' = RemoveAt(calls, i)

\* No key of /model takes a request off.
LEMMA KeysTakeNothing ==
  ASSUME NEW S, calls \in Seq(S), Key, Mounted(ui) = "model"
  PROVE  NoFewer
  <1>1. ASSUME NEW u, Commit(u, calls) PROVE NoFewer
    BY <1>1, CommitAdds DEF NoFewer
  <1>2. ASSUME NEW u, NEW c, Commit(u, Append(calls, c)) PROVE NoFewer
    <2>1. calls \in Seq(S \cup {c})
      OBVIOUS
    <2>2. /\ Append(calls, c) \in Seq(S \cup {c})
          /\ Len(Append(calls, c)) = Len(calls) + 1 /\ Len(calls) \in Nat
      BY <2>1
    <2>3. \/ calls' = Append(calls, c)
          \/ Len(calls') \in Nat /\ Len(calls') > Len(Append(calls, c))
      BY <1>2, <2>2, CommitAdds
    <2> QED BY <2>2, <2>3 DEF NoFewer
  <1>3. (\A u : Press(u) => NoFewer) /\ \A u, c : Send(u, c) => NoFewer
    BY <1>1, <1>2 DEF Press, Send
  <1> HIDE DEF NoFewer
  <1>4. Resize \/ RerouteSubmit => NoFewer
    BY <1>3, Zenon DEF Resize, RerouteSubmit
  <1>5. ModelKey \/ InlineConnectKey => NoFewer
    BY <1>3 DEF ModelKey, InlineConnectKey
  <1> QED BY <1>4, <1>5, KeysOfModel

\* What taking an element out of a sequence leaves: the others, those behind one place nearer.
LEMMA LengthWithout ==
  ASSUME NEW S, NEW s \in Seq(S), NEW i \in DOMAIN s
  PROVE  /\ RemoveAt(s, i) \in Seq(S) /\ Len(RemoveAt(s, i)) = Len(s) - 1 /\ Len(s) \in Nat
         /\ \A k \in 1..(Len(s) - 1) : RemoveAt(s, i)[k] = IF k < i THEN s[k] ELSE s[k + 1]
  <1> DEFINE n == Len(s)
             a == SubSeq(s, 1, i - 1)
             b == SubSeq(s, i + 1, n)
  <1>1. n \in Nat /\ i \in 1..n /\ \A k \in 1..n : s[k] \in S
    OBVIOUS
  <1>2. /\ a \in Seq(S) /\ Len(a) = i - 1 /\ \A k \in 1..(i - 1) : a[k] = s[k]
        /\ b \in Seq(S) /\ Len(b) = n - i /\ \A k \in 1..(n - i) : b[k] = s[i + k]
    BY <1>1
  <1>3. RemoveAt(s, i) = a \o b
    BY DEF RemoveAt
  <1> HIDE DEF n, a, b
  <1>4. /\ a \o b \in Seq(S) /\ Len(a \o b) = n - 1
        /\ \A k \in 1..(n - 1) : (a \o b)[k] = IF k < i THEN a[k] ELSE b[k - (i - 1)]
    <2>1. /\ a \o b \in Seq(S) /\ Len(a \o b) = Len(a) + Len(b)
          /\ \A k \in 1..(Len(a) + Len(b)) : (a \o b)[k] = IF k <= Len(a) THEN a[k] ELSE b[k - Len(a)]
      BY <1>2, ConcatProperties
    <2>2. Len(a) + Len(b) = n - 1 /\ \A k \in 1..(n - 1) : (k <= Len(a)) <=> (k < i)
      BY <1>1, <1>2
    <2> QED BY <1>2, <2>1, <2>2
  <1>5. ASSUME NEW k \in 1..(n - 1) PROVE (a \o b)[k] = IF k < i THEN s[k] ELSE s[k + 1]
    <2>1. CASE k < i
      <3>1. k \in 1..(i - 1)
        BY <1>1, <2>1
      <3> QED BY <1>2, <1>4, <2>1, <3>1
    <2>2. CASE ~(k < i)
      <3>1. k - (i - 1) \in 1..(n - i) /\ i + (k - (i - 1)) = k + 1
        BY <1>1, <2>2
      <3> QED BY <1>2, <1>4, <2>2, <3>1
    <2> QED BY <2>1, <2>2
  <1> QED BY <1>1, <1>3, <1>4, <1>5 DEF n

\* Two places that leave the same sequence hold the same element.
LEMMA SameWithout ==
  ASSUME NEW S, NEW s \in Seq(S), NEW i \in DOMAIN s, NEW j \in DOMAIN s, i <= j,
         RemoveAt(s, i) = RemoveAt(s, j)
  PROVE  s[i] = s[j]
  <1> DEFINE n == Len(s)
             d == j - i
             T == {k \in 0..d : s[i + k] = s[i]}
  <1>1. n \in Nat /\ i \in 1..n /\ j \in 1..n /\ d \in Nat
    OBVIOUS
  <1>2. ASSUME NEW k \in 1..d, k - 1 \in T PROVE k \in T
    <2> DEFINE at == i + k - 1
    <2>1. at \in 1..(n - 1) /\ ~(at < i) /\ at < j /\ at + 1 = i + k /\ at = i + (k - 1)
      BY <1>1
    <2>2. RemoveAt(s, i)[at] = s[at + 1] /\ RemoveAt(s, j)[at] = s[at]
      <3> HIDE DEF at
      <3> QED BY <2>1, LengthWithout
    <2>3. s[i + k] = s[i + (k - 1)]
      BY <2>1, <2>2
    <2> QED BY <1>2, <2>3
  <1>3. 0 \in T
    BY <1>1
  <1>4. 0..d \subseteq T
    <2> HIDE DEF T, d
    <2> QED BY <1>1, <1>2, <1>3, InductionUpTo
  <1>5. d \in T /\ i + d = j
    BY <1>1, <1>4
  <1> QED BY <1>5

\* Every answer but one of models leaves a request of models where it is.
LEMMA AnswersTakeTheirOwn ==
  ASSUME NEW S, calls \in Seq(S), NEW i \in DOMAIN calls, Answer(i), ~AnswerModels(i)
  PROVE  calls[i].op # "models" /\ TakesOff(i)
  <1> DEFINE rest == RemoveAt(calls, i)
             Own  == calls[i].op # "models" /\ TakesOff(i)
  <1>1. rest \in Seq(S) /\ Len(rest) = Len(calls) - 1 /\ Len(calls) \in Nat
    BY LengthWithout
  <1>2. ASSUME NEW u, Commit(u, rest) PROVE TakesOff(i)
    <2>1. calls' = rest \/ (Len(calls') \in Nat /\ Len(calls') > Len(rest))
      BY <1>1, <1>2, CommitAdds
    <2> HIDE DEF rest
    <2> QED BY <1>1, <2>1 DEF TakesOff, NoFewer, rest
  <1>3. ASSUME NEW u, NEW T, NEW more \in Seq(T), Commit(u, rest \o more) PROVE TakesOff(i)
    <2>1. CASE more = <<>>
      <3>1. rest \o more = rest
        BY <1>1, <2>1
      <3> QED BY <1>2, <1>3, <3>1
    <2>2. CASE more # <<>>
      <3>1. /\ rest \o more \in Seq(S \cup T) /\ Len(more) \in Nat \ {0}
            /\ Len(rest \o more) = Len(rest) + Len(more)
        <4>1. rest \in Seq(S \cup T) /\ more \in Seq(S \cup T)
          BY <1>1
        <4> QED BY <2>2, <4>1
      <3>2. calls' = rest \o more \/ (Len(calls') \in Nat /\ Len(calls') > Len(rest \o more))
        BY <1>3, <3>1, CommitAdds
      <3> HIDE DEF rest
      <3>3. NoFewer
        BY <1>1, <3>1, <3>2 DEF NoFewer
      <3> QED BY <3>3 DEF TakesOff
    <2> QED BY <2>1, <2>2
  <1>4. ASSUME NEW u, NEW T, NEW q \in Seq(T), Len(q) = Len(rest), NEW c, Commit(u, Append(q, c))
        PROVE  TakesOff(i)
    <2>1. q \in Seq(T \cup {c})
      OBVIOUS
    <2>2. Append(q, c) \in Seq(T \cup {c}) /\ Len(Append(q, c)) = Len(calls)
      BY <1>1, <1>4, <2>1
    <2>3. calls' = Append(q, c) \/ (Len(calls') \in Nat /\ Len(calls') > Len(Append(q, c)))
      BY <1>4, <2>2, CommitAdds
    <2> HIDE DEF rest
    <2>4. NoFewer
      BY <1>1, <2>2, <2>3 DEF NoFewer
    <2> QED BY <2>4 DEF TakesOff
  <1>5. /\ \A u : Done(i, u) => TakesOff(i)
        /\ \A u : Then(i, u, <<>>) => TakesOff(i)
        /\ \A u, c : Then(i, u, <<c>>) => TakesOff(i)
    <2>1. <<>> \in Seq(S) /\ \A c : <<c>> \in Seq({c})
      OBVIOUS
    <2> HIDE DEF rest
    <2> QED BY <1>3, <2>1 DEF Then, Done, rest
  <1>6. (\A u, c : Commit(u, Append(rest, c)) => TakesOff(i)) /\ \A u : Commit(u, rest) => TakesOff(i)
    <2> HIDE DEF rest
    <2> QED BY <1>1, <1>2, <1>4
  <1> HIDE DEF rest
  <1>7. AnswerList(i) \/ AnswerShow(i) \/ AnswerForm(i) \/ AnswerMutation(i) => Own
    <2>1. MemoryFails(i) \/ MemoryFailed(i) => TakesOff(i)
      BY <1>5 DEF MemoryFailed, MemoryFails
    <2>2. \A u : RefreshMemory(i, u) => TakesOff(i)
      BY <1>5 DEF RefreshMemory
    <2>3. AnswerList(i) \/ AnswerShow(i) => Own
      BY <1>5, <2>1 DEF AnswerList, AnswerShow, Arrives
    <2>4. AnswerForm(i) \/ AnswerMutation(i) => Own
      BY <1>5, <2>1, <2>2 DEF AnswerForm, AnswerMutation, Arrives
    <2> QED BY <2>3, <2>4
  <1>8. AnswerLoad(i) => Own
    <2> DEFINE more == Only(Providers, store.connected)
               asks == [k \in DOMAIN more |-> LoadCall(calls[i], more[k])]
               T    == {LoadCall(calls[i], p) : p \in ProviderSet}
    <2>1. more \in Seq(ProviderSet)
      BY OnlyIs, CatalogAssumption
    <2>2. asks \in Seq(T)
      <3> HIDE DEF more
      <3>1. DOMAIN more = 1..Len(more) /\ Len(more) \in Nat /\ \A k \in DOMAIN more : more[k] \in ProviderSet
        BY <2>1
      <3>2. asks \in [1..Len(more) -> T]
        BY <3>1
      <3> HIDE DEF asks, T
      <3> QED BY <3>1, <3>2
    <2>3. AnswerLoad(i) => \/ \E u : Done(i, u)
                           \/ \E u : Then(i, u, asks)
      BY DEF AnswerLoad
    <2>4. AnswerLoad(i) => calls[i].op # "models"
      BY DEF AnswerLoad, Arrives
    <2> HIDE DEF asks, T
    <2>5. \A u : Then(i, u, asks) => TakesOff(i)
      BY <1>3, <2>2 DEF Then, rest
    <2> QED BY <1>5, <2>3, <2>4, <2>5
  <1>9. AnswerSelect(i) => Own
    BY <1>5 DEF AnswerSelect, Arrives
  <1>10. AnswerInlineKey(i) => Own
    <2> DEFINE older == Superseded(RemoveAt(calls, i), calls[i].mount, {"load", "models"})
    <2>1. \E T : older \in Seq(T) /\ Len(older) = Len(rest)
      <3> DEFINE T == {older[k] : k \in DOMAIN older}
      <3>1. DOMAIN rest = 1..Len(rest) /\ Len(rest) \in Nat /\ rest = RemoveAt(calls, i)
        BY <1>1 DEF rest
      <3>2. older = [k \in 1..Len(rest) |-> older[k]]
        BY <3>1 DEF Superseded
      <3> HIDE DEF older
      <3>3. older \in [1..Len(rest) -> T]
        BY <3>2
      <3> HIDE DEF T
      <3>4. older \in Seq(T) /\ Len(older) = Len(rest)
        BY <3>1, <3>3
      <3> QED BY <3>4
    <2>2. AnswerInlineKey(i) => \/ \E u, c : Commit(u, Append(older, c))
                                \/ \E u : Then(i, u, <<>>)
      BY DEF AnswerInlineKey
    <2>3. AnswerInlineKey(i) => calls[i].op # "models"
      BY DEF AnswerInlineKey, Arrives
    <2> HIDE DEF older
    <2> QED BY <1>4, <1>5, <2>1, <2>2, <2>3
  <1>11. AnswerProviders(i) \/ AnswerSetKey(i) \/ AnswerClear(i) \/ AnswerSaveTheme(i) => Own
    BY <1>5 DEF AnswerProviders, AnswerSetKey, AnswerClear, AnswerSaveTheme, ConnectFailed, ReadProviders, Arrives
  <1>12. AnswerSessions(i) \/ AnswerStop(i) \/ AnswerResume(i) => Own
    <2>1. ResumeFailed(i) => TakesOff(i)
      BY <1>5 DEF ResumeFailed
    <2>2. ConfirmWorkspaceOrResume(ui, RemoveAt(calls, i)) => TakesOff(i)
      BY <1>6 DEF ConfirmWorkspaceOrResume, PerformResume, rest
    <2> QED BY <1>5, <2>1, <2>2 DEF AnswerSessions, AnswerStop, AnswerResume, Arrives
  <1> QED BY <1>7, <1>8, <1>9, <1>10, <1>11, <1>12 DEF Answer

\* A request for models is taken off only by its answer.
LEMMA ArrivalIsAnswer ==
  ASSUME TypesInv, [Next]_vars, ModelsArrive
  PROVE  \E i : AnswerModels(i)
  <1> DEFINE S == CallSet(ui.mount)
  <1>1. calls \in Seq(S)
    BY DEF TypesInv
  <1> HIDE DEF S
  <1>2. PICK i \in DOMAIN calls : calls[i].op = "models" /\ calls' = RemoveAt(calls, i)
    BY DEF ModelsArrive
  <1>3. ~NoFewer /\ calls' # calls
    BY <1>1, <1>2, LengthWithout DEF NoFewer
  <1>4. ~Key
    BY <1>1, <1>3, KeysTakeNothing DEF ModelsArrive
  <1>5. PICK j \in DOMAIN calls : Answer(j)
    BY <1>3, <1>4 DEF Next, vars
  <1>6. ASSUME ~AnswerModels(j) PROVE FALSE
    <2>1. calls[j].op # "models" /\ calls' = RemoveAt(calls, j)
      BY <1>1, <1>3, <1>5, <1>6, AnswersTakeTheirOwn DEF TakesOff
    <2>2. calls[i] = calls[j]
      <3>1. i \in Nat /\ j \in Nat
        BY <1>1
      <3>2. i <= j \/ j <= i
        BY <3>1
      <3> QED BY <1>1, <1>2, <2>1, <3>2, SameWithout
    <2> QED BY <1>2, <2>1, <2>2
  <1> QED BY <1>6

\* A provider's models that arrive (setProviderModelLoadAtom, anchored by the visual row that
\* highlightedVisualRow read before) leave the highlight on its row as long as the row is
\* there, and the row in its place on the screen unless the list ends before.
THEOREM ArrivalKeepsPlace == Spec => AnchoredHighlight
  <1> DEFINE Keeps ==
        \A old \in {ui.panel}, new \in {ui'.panel} :
          (VisualRow(old) >= 0 /\ RowIndex(ModelRows(new), old.highlight) >= 0)
          => /\ new.highlight = old.highlight
             /\ \/ VisualRow(new) = VisualRow(old)
                \/ new.offset \in {0, Len(ModelRows(new)) - ListRows(ui, "model")}
  <1>1. PanelInv /\ ViewInv /\ ModelSeen /\ TypesInv /\ [Next]_vars => (ModelsArrive => Keeps)
    <2> SUFFICES ASSUME PanelInv, ViewInv, ModelSeen, TypesInv, [Next]_vars, ModelsArrive PROVE Keeps
      OBVIOUS
    <2>1. Stage
      BY PanelStep DEF Stage
    <2>2. PICK i : AnswerModels(i)
      BY ArrivalIsAnswer
    <2>3. Mounted(ui) = "model"
      BY DEF ModelsArrive
    <2> QED BY <2>1, <2>2, <2>3, ArrivalAnchors
  <1>2. Spec => [][Next]_vars
    BY DEF Spec
  <1> QED BY <1>1, <1>2, SeenHolds, TypesHold, PTL DEF AnchoredHighlight

=============================================================================
