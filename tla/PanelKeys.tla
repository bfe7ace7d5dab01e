----------------------------- MODULE PanelKeys ------------------------------
(***************************************************************************)
(* What the user's keys do, panel by panel: one action per hook that takes *)
(* keys (use...Input), each a choice over the keys the hook knows.  Every  *)
(* Esc is also seen by App, which closes the surface unless its panel      *)
(* consumes the key.                                                       *)
(***************************************************************************)
EXTENDS Surfaces

CONSTANTS MaxMounts,     \* panels the user brings up
          MaxSends       \* requests sent by keys

Press(u) == Commit(u, calls) /\ UNCHANGED store
MaySend == ui.sent < MaxSends
Sent(u) == [u EXCEPT !.sent = @ + 1]

Send(u, call) ==
    /\ MaySend
    /\ Commit(Sent(u), Append(calls, call))
    /\ UNCHANGED store

InPanel(panel) == [ui EXCEPT !.panel = panel]
MayOpen == ui.mount < MaxMounts

-----------------------------------------------------------------------------
(* The composer's commands *)

ExecuteCommand ==
    /\ Mounted(ui) = "home" /\ MayOpen
    /\ \/ Press(OpenConnectSurface(ui, None, FALSE))
       \/ Press(OpenModelSurface(ui))
       \/ Press(OpenThemeSurface(ui))
       \/ Press(OpenHelpSurface(ui))
       \/ Press(OpenResumePanel(ui))

\* /memory, its tabs and its subcommands: a form or a pick is set before the mount.
ExecuteMemoryCommand ==
    /\ Mounted(ui) = "home" /\ MayOpen
    /\ \E mode \in MemoryModes :
         LET opened == OpenMemory(ui, mode)
             with(panel) == [opened EXCEPT !.panel = panel]
         IN  \/ Press(opened)
             \/ /\ mode = "active"
                /\ \/ Press(with(OpenAddMemoryForm(opened.panel)))
                   \/ \E pick \in {"edit", "forget"} : Press(with(SetPendingItemAction(opened.panel, pick)))

-----------------------------------------------------------------------------
(* App and the terminal *)

EscOutsidePanels ==
    /\ Mounted(ui) \in {"help", "tooSmall"}
    /\ ~EscConsumed(ui)
    /\ Press(AppEsc(ui))

\* Lists are windowed again by the model and theme panels only.
Resize ==
    /\ MayOpen
    /\ \E height \in Heights \ {ui.rows} :
         LET u    == [ui EXCEPT !.rows = height]
             stay == IF Mounted(u) = Mounted(ui) THEN Mounted(u) ELSE "none"
         IN  Press(CASE stay = "model" ->
                          [u EXCEPT !.panel = ScrollModelHighlightIntoView(@, ListRows(u, "model"))]
                     [] stay = "theme" ->
                          [u EXCEPT !.panel = ScrollThemeHighlightIntoView(@, ListRows(u, "theme"))]
                     [] stay = "memory" -> [u EXCEPT !.panel.resized = TRUE]
                     [] stay = "resume" -> [u EXCEPT !.resume.resized = TRUE]
                     [] OTHER -> u)

\* A turn that ends for want of a valid key opens /connect, whatever is open.
RerouteSubmit ==
    /\ MayOpen /\ ui.surface # "connect"
    /\ Press(OpenConnectSurface(ui, None, FALSE))

-----------------------------------------------------------------------------
(* /memory *)

Memory == ui.panel

MemoryListKey ==
    /\ Mounted(ui) = "memory" /\ Memory.form.mode = "none" /\ ~MemoryBlocked(Memory)
    /\ Memory.confirm = 0 /\ Memory.detail = 0
    /\ \/ /\ Memory.pick # "none"                                    \* Esc
          /\ Press(AppEsc(InPanel(SetPendingItemAction(Memory, "none"))))
       \/ /\ Memory.pick = "none" /\ Press(AppEsc(ui))
       \/ \E delta \in {-1, 1} : Press(InPanel(MoveMemoryHighlight(Memory, delta, ListRows(ui, "memory"))))
       \/ Press(InPanel(SwitchMemoryMode(Memory)))                   \* Tab
       \/ Send(InPanel(ResetMemoryData(Memory)), Call(ui, "list"))   \* r

\* Enter or x on an item of the first tab.
MemoryItemKey ==
    /\ Mounted(ui) = "memory" /\ Memory.form.mode = "none" /\ ~MemoryBlocked(Memory)
    /\ Memory.confirm = 0 /\ Memory.detail = 0
    /\ Memory.mode = "active" /\ HighlightedItem(Memory) # 0
    /\ \/ Memory.pick = "edit" /\ Send(ui, Call(ui, "showEdit"))
       \/ /\ Memory.pick = "forget"
          /\ Press(InPanel(SetForgetConfirm(Memory, HighlightedItem(Memory))))
       \/ Memory.pick = "none" /\ Send(ui, Call(ui, "show"))
       \/ Press(InPanel(SetForgetConfirm(Memory, HighlightedItem(Memory))))

\* a, j, s and u on an entry of the second tab.
MemoryEntryKey ==
    /\ Mounted(ui) = "memory" /\ Memory.form.mode = "none" /\ ~MemoryBlocked(Memory)
    /\ Memory.confirm = 0 /\ Memory.detail = 0
    /\ Memory.mode = "inbox" /\ HighlightedEntry(Memory) # 0
    /\ Send(InPanel(SetMemoryBusy(Memory)), Call(ui, "inbox"))

MemoryDetailKey ==
    /\ Mounted(ui) = "memory" /\ Memory.form.mode = "none" /\ ~MemoryBlocked(Memory)
    /\ Memory.confirm = 0 /\ Memory.detail # 0
    /\ \/ Press(AppEsc(ui))
       \/ \E delta \in {-1, 1} :
            Press(InPanel(ScrollMemoryDetail(Memory, delta, MemoryBodyRows(Memory, DockedPanelRows(ui)))))
       \/ Press(InPanel(SetMemoryDetail(Memory, 0, 0)))              \* Enter, q

MemoryConfirmKey ==
    /\ Mounted(ui) = "memory" /\ Memory.form.mode = "none" /\ ~MemoryBlocked(Memory)
    /\ Memory.confirm # 0
    /\ \/ Press(InPanel(SetForgetConfirm(Memory, 0)))                \* Enter, Esc, n
       \/ Send(InPanel(SetForgetConfirm(SetMemoryBusy(Memory), 0)), Call(ui, "forget"))

\* While a request has the panel, only App sees Esc.
MemoryBlockedEsc ==
    /\ Mounted(ui) = "memory" /\ Memory.form.mode = "none" /\ MemoryBlocked(Memory)
    /\ ~EscConsumed(ui)
    /\ Press(AppEsc(ui))

MemoryFormKey ==
    /\ Mounted(ui) = "memory" /\ Memory.form.mode # "none"
    /\ \/ Press(InPanel(CloseMemoryForm(Memory)))                    \* Esc
       \/ Press(InPanel(SetFormField(Memory)))                       \* Tab
       \/ /\ Memory.form.field = "title"
          /\ \E blank \in BOOLEAN : Press(InPanel(SetFormTitle(Memory, blank)))
       \/ Memory.form.field = "body" /\ Press(InPanel(SetFormBody(Memory)))
       \/ Memory.form.blank /\ Press(InPanel(SetFormError(Memory, "title")))
       \/ ~Memory.form.blank /\ Send(ui, Call(ui, IF Memory.form.mode = "edit" THEN "save" ELSE "add"))

-----------------------------------------------------------------------------
(* /model *)

Model == ui.panel

ModelKey ==
    /\ Mounted(ui) = "model" /\ ~Model.inFlight /\ Model.inline = None
    /\ LET row == HighlightedModelRow(Model)
       IN  \/ \E delta \in {-1, 1} : Press(InPanel(MoveModelHighlight(Model, delta, ListRows(ui, "model"))))
           \/ Press(AppEsc(InPanel(IF Model.outcome # "none" \/ Model.error
                                   THEN CancelInlineConnect(Model) ELSE Model)))
           \/ /\ row.type = "model"
              /\ Send(ui, [Call(ui, "select") EXCEPT !.provider = row.provider, !.model = row.model])
           \/ /\ row.type = "status" /\ row.status = "failed"
              /\ Send(InPanel(SetProviderModelLoad(Model, row.provider, NoLoad, ListRows(ui, "model"))),
                      [Call(ui, "models") EXCEPT !.provider = row.provider])
           \/ /\ row.type = "status" /\ row.status = "notConnected"
              /\ IF row.provider = Custom
                 THEN MayOpen /\ Press(OpenConnectSurface(ui, Custom, TRUE))
                 ELSE Press(InPanel(StartInlineConnect(Model, row.provider)))

InlineConnectKey ==
    /\ Mounted(ui) = "model" /\ ~Model.inFlight /\ Model.inline # None
    /\ \/ Press(InPanel(CancelInlineConnect(Model)))
       \/ Send(InPanel(SubmitInlineKey(Model)), [Call(ui, "inlineKey") EXCEPT !.provider = Model.inline])

-----------------------------------------------------------------------------
(* /connect *)

Connect == ui.panel

ConnectKey ==
    /\ Mounted(ui) = "connect" /\ ~Connect.inFlight
    /\ LET known == ui.known
       IN  \/ ui.back /\ Press(OpenModelSurface(ui))                            \* Esc
           \/ /\ Connect.step = "list"
              /\ \/ ~ui.back /\ Press(CloseActiveSurface(ui))
                 \/ \E delta \in {-1, 1} : Press(InPanel(MoveConnectSelection(Connect, delta, known)))
                 \/ Press(InPanel(ChooseSelectedProvider(Connect, known)))
           \/ /\ Connect.step = "connectedActions" /\ ~Connect.confirm
              /\ \/ ~ui.back /\ Press(InPanel(BackConnectStep(Connect, known)))
                 \/ Press(InPanel(ToggleAction(Connect)))
                 \/ Press(InPanel(ReplaceStep(Connect, known)))
                 \/ Press(InPanel([Connect EXCEPT !.confirm = TRUE]))
                 \/ Press(InPanel(EnterOnAction(Connect, known)))
           \/ /\ Connect.step = "connectedActions" /\ Connect.confirm
              /\ \/ Press(InPanel([Connect EXCEPT !.confirm = FALSE]))
                 \/ /\ SelectedProvider(Connect, known) # NoProvider
                    /\ Send(InPanel(BeginMutation(Connect)),
                            [Call(ui, "clear") EXCEPT !.provider = SelectedProvider(Connect, known).id])

ConnectFieldKey ==
    /\ Mounted(ui) = "connect" /\ ~Connect.inFlight
    /\ \/ /\ Connect.step \in {"customUrl", "customLabel"}                    \* Esc, Shift+Tab, Up
          /\ Press(InPanel(BackConnectStep(Connect, ui.known)))
       \/ /\ Connect.step = "customUrl"
          /\ \/ Press(InPanel(LeaveUrl(Connect)))
             \/ \E valid \in BOOLEAN : Press(InPanel(TypeUrl(Connect, valid)))
       \/ /\ Connect.step = "customLabel"
          /\ \/ Press(InPanel(LeaveLabel(Connect)))
             \/ \E valid \in BOOLEAN : Press(InPanel(TypeLabel(Connect, valid)))

\* The key field: Esc goes back (and, from /model, to it), Enter submits.
ConnectKeyField ==
    /\ Mounted(ui) = "connect" /\ ~Connect.inFlight /\ Connect.step = "key"
    /\ LET provider == SelectedProvider(Connect, ui.known)
           call == [Call(ui, "setKey") EXCEPT !.provider = provider.id]
       IN  \/ ~ui.back /\ Press(InPanel(BackConnectStep(Connect, ui.known)))
           \/ provider.id = Custom /\ Press(InPanel([Connect EXCEPT !.step = "customLabel"]))
           \/ /\ provider # NoProvider /\ DraftsPass(Connect, provider)
              /\ Send(InPanel(BeginMutation(Connect)), call)

-----------------------------------------------------------------------------
(* /theme *)

Preview(u, panel) == [u EXCEPT !.panel = panel, !.theme = HighlightedTheme(panel)]

ThemeKey ==
    /\ Mounted(ui) = "theme"
    /\ LET chosen == HighlightedTheme(ui.panel)
       IN  \/ \E delta \in {-1, 1} : Press(Preview(ui, MoveThemeHighlight(ui.panel, delta, ListRows(ui, "theme"))))
           \/ Press(AppEsc(ui))
           \/ /\ MaySend
              /\ Commit([Sent(InPanel(ConfirmTheme(ui.panel, chosen))) EXCEPT !.theme = chosen, !.chosen = chosen],
                        Append(Superseded(calls, ui.mount, {"saveTheme"}),
                               [Call(ui, "saveTheme") EXCEPT !.theme = chosen]))
              /\ UNCHANGED store

-----------------------------------------------------------------------------
(* /resume and its questions *)

PerformResume(u, pending) ==
    /\ Commit([u EXCEPT !.resume = SetResumeResuming(@)], Append(pending, Call(u, "resume")))

\* A session of another folder is asked about, if the list still has it.
ConfirmWorkspaceOrResume(u, pending) ==
    \/ PerformResume(u, pending)
    \/ u.resume.sessions # 0 /\ Commit(OpenUserQuestion(u, "folder"), pending)

ResumeKey ==
    /\ Mounted(ui) = "resume"
    /\ \/ Press(AppEsc(CloseResumePanel(ui)))
       \/ /\ ui.resume.status \notin {"loading", "resuming"}
          /\ \/ \E delta \in {-1, 1} :
                  Press([ui EXCEPT !.resume = MoveResumeHighlight(@, delta, ListRows(ui, "resume"))])
             \/ /\ HasHighlightedSession(ui.resume) /\ MaySend
                /\ UNCHANGED store
                /\ \/ Commit(Sent(OpenUserQuestion(ui, "stop")), calls)    \* a turn runs
                   \/ ConfirmWorkspaceOrResume(Sent(ui), calls)

\* Enter runs the choice selected, a shortcut or Esc its own.
Choose(yes) ==
    LET u == CloseUserQuestion(ui)
    IN  \/ /\ ui.question.kind = "stop" /\ yes
           /\ Commit([u EXCEPT !.resume = SetResumeResuming(@)], Append(calls, Call(u, "stop")))
        \/ ui.question.kind = "stop" /\ ~yes /\ Commit(u, calls)
        \/ ui.question.kind = "folder" /\ yes /\ PerformResume(u, calls)
        \/ ui.question.kind = "folder" /\ ~yes /\ Commit(CloseResumePanel(u), calls)

QuestionKey ==
    /\ Mounted(ui) = "question" /\ UNCHANGED store
    /\ \/ \E delta \in {-1, 1} : Commit([ui EXCEPT !.question.index = Clamp(@ + delta, 0, 1)], calls)
       \/ \E yes \in BOOLEAN : Choose(yes)

Key ==
    \/ ExecuteCommand \/ ExecuteMemoryCommand \/ EscOutsidePanels \/ Resize \/ RerouteSubmit
    \/ MemoryListKey \/ MemoryItemKey \/ MemoryEntryKey \/ MemoryDetailKey \/ MemoryConfirmKey
    \/ MemoryBlockedEsc \/ MemoryFormKey \/ ModelKey \/ InlineConnectKey
    \/ ConnectKey \/ ConnectFieldKey \/ ConnectKeyField \/ ThemeKey \/ ResumeKey \/ QuestionKey

=============================================================================
