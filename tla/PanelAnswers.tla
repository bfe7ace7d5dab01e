---------------------------- MODULE PanelAnswers ----------------------------
(***************************************************************************)
(* What the backend's answers do to the panels: one action per request and *)
(* one alternative per outcome.  A request that fails may have been        *)
(* carried out, in part or wholly: a time-out does not take it back, and a  *)
(* write may fail after others went through.  An answer applies to the      *)
(* state it finds, which may be that of another opening of the panel, or    *)
(* of another panel.                                                        *)
(***************************************************************************)
EXTENDS PanelKeys

\* A request served by a thread of its own overtakes the others.
Arrives(i, ops) ==
    /\ calls[i].op \in ops
    /\ \/ calls[i].op \in Threaded
       \/ \A j \in 1..(i - 1) : calls[j].op \in Threaded

Then(i, u, more) == Commit(u, RemoveAt(calls, i) \o more)
Done(i, u)       == Then(i, u, <<>>) /\ UNCHANGED store

\* u with its panel replaced, if that is the one shown.
With(u, kind, panel) == IF u.panel.kind = kind THEN [u EXCEPT !.panel = panel] ELSE u

-----------------------------------------------------------------------------
(* /memory *)

\* The items once a mutation has been carried out.  An item to forget may be gone
\* already; approving an entry of the inbox may add an item.
ItemsAfter(op) ==
    CASE op = "add"    -> {store.items + 1} \cap (0..MaxItems)
      [] op = "forget" -> {store.items, AtLeast(0, store.items - 1)}
      [] op = "inbox"  -> {store.items, AtMost(store.items + 1, MaxItems)}
      [] OTHER         -> {store.items}

Mutated(op) == {[store EXCEPT !.items = items] : items \in ItemsAfter(op)}

MemoryFails(i)  == Then(i, With(ui, "memory", SetMemoryFailure(ui.panel)), <<>>)
MemoryFailed(i) == MemoryFails(i) /\ UNCHANGED store

IsCurrentMemoryRequest_Surface(call) == ui.surface = "memory"

IsCurrentMemoryRequest(call) == ui.surface = "memory" /\ ui.opening = call.opening

RefreshMemory_None(i, u) == Then(i, u, <<>>)

RefreshMemory(i, u) ==
    Then(i, With(u, "memory", ResetMemoryData(u.panel)), <<[Call(u, "list") EXCEPT !.mount = calls[i].mount]>>)

AnswerList(i) ==
    /\ Arrives(i, {"list"})
    /\ \/ Done(i, With(ui, "memory", SetMemoryData(ui.panel, store.items, store.inbox)))
       \/ MemoryFailed(i)

AnswerShow(i) ==
    /\ Arrives(i, {"show", "showEdit"})
    /\ IF IsCurrentMemoryRequest(calls[i])
       THEN \/ /\ calls[i].op = "show"
               /\ \E lines \in {1, MaxLines} :
                    Done(i, InPanel(SetMemoryDetail(ui.panel, lines, calls[i].opening)))
            \/ /\ calls[i].op = "showEdit"
               /\ Done(i, InPanel(OpenEditMemoryForm(ui.panel, calls[i].opening)))
            \/ MemoryFailed(i)
       ELSE Done(i, ui)

\* A failed submit is told in the form; the list stays as it was read.
SubmitFailed(m) == [SetFormError(m, "submit") EXCEPT !.doubted = TRUE]

AnswerForm(i) ==
    /\ Arrives(i, {"add", "save"})
    /\ \/ /\ store' \in Mutated(calls[i].op)
          /\ RefreshMemory(i, With(ui, "memory", CloseMemoryForm(ui.panel)))
       \/ /\ store' \in Mutated(calls[i].op) \cup {store}
          /\ Then(i, With(ui, "memory", SubmitFailed(ui.panel)), <<>>)

\* Forgetting an item, and the actions on an entry of the inbox, which stays in it with
\* another status.
AnswerMutation(i) ==
    /\ Arrives(i, {"forget", "inbox"})
    /\ \/ store' \in Mutated(calls[i].op) /\ RefreshMemory(i, ui)
       \/ store' \in Mutated(calls[i].op) \cup {store} /\ MemoryFails(i)

-----------------------------------------------------------------------------
(* /model *)

LoadCall(call, p) == [call EXCEPT !.op = "models", !.provider = p, !.then = "none"]

\* The list of providers and the selection, then a request for each connected
\* provider's models.  An inline connect waits for the first two only.
AnswerLoad(i) ==
    /\ Arrives(i, {"load"})
    /\ LET call == calls[i]
           listed(active) ==
               SetModelActiveSelection(
                   SetModelProvidersLoading(ui.panel, store.connected, ListRows(ui, "model")),
                   EffectiveSelection(active, store.connected), ListRows(ui, "model"))
           ended(panel) == IF call.then = "idle" THEN [panel EXCEPT !.inFlight = FALSE] ELSE panel
           more == Only(Providers, store.connected)
       IN  \/ Done(i, With(ui, "model", ended(ui.panel)))
           \/ /\ call.latest
              /\ \E active \in {store.active, NoSelection} :
                   Then(i, With(ui, "model", ended(listed(active))),
                        [k \in DOMAIN more |-> LoadCall(call, more[k])])
              /\ UNCHANGED store

\* The backend's list, or the end of it.
ModelLists == {SubSeq(Models, k, Len(Models)) : k \in DOMAIN Models}

Loaded(i, status, models) ==
    Done(i, With(ui, "model", SetProviderModelLoad(ui.panel, calls[i].provider,
                                  [status |-> status, models |-> models], ListRows(ui, "model"))))

AnswerModels(i) ==
    /\ Arrives(i, {"models"})
    /\ \/ ~calls[i].latest /\ Done(i, ui)
       \/ /\ calls[i].latest /\ calls[i].provider \in store.connected
          /\ \/ \E list \in ModelLists : Loaded(i, "loaded", list)
             \/ Loaded(i, "empty", <<>>)
       \/ calls[i].latest /\ Loaded(i, "failed", <<>>)

\* A selection that fails is reported to no one.
AnswerSelect(i) ==
    /\ Arrives(i, {"select"})
    /\ LET selection == [provider |-> calls[i].provider, model |-> calls[i].model]
           selected  == [store EXCEPT !.active = selection]
       IN  \/ /\ store' = selected
              /\ Then(i, CloseActiveSurface(With(ui, "model",
                            SetModelActiveSelection(ui.panel, selection, ListRows(ui, "model")))), <<>>)
           \/ store' \in {selected, store} /\ Then(i, ui, <<>>)

\* The writes that connect p: its settings without the key, the selection of its default
\* model if it has one, and the bit that says there is a key.
Settings(p) == [store EXCEPT !.connected = @ \ {p}, !.url = @ \/ p = Custom]

Selections(p) ==
    {[Settings(p) EXCEPT !.active = [provider |-> p, model |-> m]] :
       m \in IF DefaultModel[p] # None THEN {DefaultModel[p]} ELSE ModelSet}

Connections(p) == {[stored EXCEPT !.connected = @ \cup {p}] : stored \in Selections(p)}

Connected(p) == store' \in Connections(p)

\* A key that is refused changes nothing, a write that fails leaves those before it, and
\* one that is not answered in time may go through.
Refused(p) == store' \in {store, Settings(p)} \cup Selections(p) \cup Connections(p)

AnswerInlineKey(i) ==
    /\ Arrives(i, {"inlineKey"})
    /\ LET p == calls[i].provider
       IN  \/ /\ Connected(p)
              /\ LET older == Superseded(RemoveAt(calls, i), calls[i].mount, {"load", "models"})
                 IN  Commit(With(ui, "model", ResetModelSurface),
                            Append(older, [calls[i] EXCEPT !.op = "load", !.provider = None, !.then = "idle"]))
           \/ /\ Refused(p)
              /\ Then(i, With(ui, "model", [ui.panel EXCEPT !.outcome = "refused", !.inFlight = FALSE]), <<>>)
           \/ /\ Refused(p)
              /\ Then(i, With(ui, "model", [ui.panel EXCEPT !.error = TRUE, !.inFlight = FALSE]), <<>>)

-----------------------------------------------------------------------------
(* /connect *)

ProviderRows ==
    [k \in DOMAIN Providers |->
       [id |-> Providers[k], connected |-> Providers[k] \in store.connected,
        url |-> IF Providers[k] = Custom THEN store.url ELSE TRUE]]

\* What a mutation does once the list it asked for has been read, or could not be.
AfterProviders(u, then) ==
    LET ended(panel) ==
          CASE then = "none" -> panel
            [] then = "list" -> EndMutation([panel EXCEPT !.step = "list", !.confirm = FALSE])
            [] OTHER -> EndMutation(panel)
        idle == With(u, "connect", ended(u.panel))
    IN  IF then = "openModel" THEN OpenModelSurface(idle) ELSE idle

AnswerProviders(i) ==
    /\ Arrives(i, {"providers"})
    /\ LET read == [With(ui, "connect", SetConnectProviders(ui.panel, ProviderRows, ui.target)) EXCEPT !.known = ProviderRows,
                           !.target = IF TargetIndex(ProviderRows, ui.target) >= 0 THEN None ELSE @]
       IN  \E u \in {read, ui} : Done(i, AfterProviders(u, calls[i].then))

ReadProviders(i, then) == <<[calls[i] EXCEPT !.op = "providers", !.provider = None, !.then = then]>>

ConnectFailed_Stuck(i, panel) == Then(i, With(ui, "connect", panel), <<>>)

ConnectFailed(i, panel) == Then(i, With(ui, "connect", EndMutation(panel)), <<>>)

AnswerSetKey(i) ==
    /\ Arrives(i, {"setKey"})
    /\ \/ Connected(calls[i].provider) /\ Then(i, ui, ReadProviders(i, "openModel"))
       \/ Refused(calls[i].provider) /\ Then(i, ui, ReadProviders(i, "idle"))
       \/ Refused(calls[i].provider) /\ ConnectFailed(i, ui.panel)

AnswerClear(i) ==
    /\ Arrives(i, {"clear"})
    /\ LET cleared == [store EXCEPT !.connected = @ \ {calls[i].provider}]
       IN  \/ store' = cleared /\ Then(i, ui, ReadProviders(i, "list"))
           \/ /\ store' \in {cleared, store}
              /\ ConnectFailed(i, [ui.panel EXCEPT !.confirm = FALSE])

-----------------------------------------------------------------------------
(* /theme: a saved theme closes the surface, one that is not saved warns *)

AnswerSaveTheme(i) ==
    /\ Arrives(i, {"saveTheme"})
    /\ \/ calls[i].latest /\ Done(i, CloseActiveSurface(ui))
       \/ calls[i].latest /\ Done(i, With(ui, "theme", [ui.panel EXCEPT !.warning = TRUE]))
       \/ ~calls[i].latest /\ Done(i, ui)

-----------------------------------------------------------------------------
(* /resume *)

ResumeFailed(i) == Done(i, [ui EXCEPT !.resume = SetResumeFailure(@)])

AnswerSessions(i) ==
    /\ Arrives(i, {"sessions"})
    /\ \/ Done(i, [ui EXCEPT !.resume = SetResumeRows(@, store.sessions)])
       \/ ResumeFailed(i)

\* A stop that is acknowledged is waited for until no turn is in flight, for a time.
AnswerStop(i) ==
    /\ Arrives(i, {"stop", "idle"})
    /\ \/ ConfirmWorkspaceOrResume(ui, RemoveAt(calls, i)) /\ UNCHANGED store
       \/ /\ calls[i].op = "stop"
          /\ Then(i, ui, <<[calls[i] EXCEPT !.op = "idle"]>>) /\ UNCHANGED store
       \/ ResumeFailed(i)

AnswerResume(i) ==
    /\ Arrives(i, {"resume"})
    /\ \/ Done(i, CloseResumePanel(ui))
       \/ ResumeFailed(i)

-----------------------------------------------------------------------------
Answer(i) ==
    \/ AnswerList(i) \/ AnswerShow(i) \/ AnswerForm(i) \/ AnswerMutation(i)
    \/ AnswerLoad(i) \/ AnswerModels(i) \/ AnswerSelect(i) \/ AnswerInlineKey(i)
    \/ AnswerProviders(i) \/ AnswerSetKey(i) \/ AnswerClear(i) \/ AnswerSaveTheme(i)
    \/ AnswerSessions(i) \/ AnswerStop(i) \/ AnswerResume(i)

Next == Key \/ \E i \in DOMAIN calls : Answer(i)

\* Every request is answered, or fails when its time is up.  Keys send finitely many
\* and an answer is followed by finitely many, so that in the end none is pending:
\* weak fairness of the answers, without an ENABLED to evaluate.
RequestsSettle == []<>(calls = <<>>)

Spec == Init /\ [][Next]_vars /\ RequestsSettle

=============================================================================
