---------------------------- MODULE ConnectPanel ----------------------------
(* The state of the /connect surface (state/ui/connect): the provider list and  *)
(* the steps of a connection.  A draft is abstracted to whether it passes its    *)
(* validation, what a request came to is only shown; a key is never in this state.  `known` is the list of providers   *)
(* as last read (rows of [id, connected, url]), which outlives the surface.      *)
EXTENDS TuiLayout, ProviderCatalog

ConnectSteps == {"list", "connectedActions", "customUrl", "customLabel", "key"}

\* CONNECTED_ACTION_REPLACE_INDEX and CONNECTED_ACTION_CLEAR_INDEX
ReplaceAction == 0
ClearAction   == 1

ResetConnectSurface ==
    [kind |-> "connect", selected |-> 0, step |-> "list", inFlight |-> FALSE,
     url |-> FALSE, label |-> TRUE, action |-> ReplaceAction, confirm |-> FALSE]

NoProvider == [id |-> None, connected |-> FALSE, url |-> FALSE]

SelectedProvider(c, known) ==
    IF c.selected < Len(known) THEN known[c.selected + 1] ELSE NoProvider

\* The label of a provider that the backend sent passes the label's validation.
SetProviderFlow(c, provider) ==
    [c EXCEPT !.confirm = FALSE, !.action = ReplaceAction,
              !.url = IF provider.id = Custom THEN provider.url ELSE @,
              !.label = IF provider.id = Custom THEN TRUE ELSE @,
              !.step = IF provider.connected THEN "connectedActions"
                       ELSE IF provider.id = Custom THEN "customUrl" ELSE "key"]

TargetIndex(known, target) ==
    IF \E i \in DOMAIN known : known[i].id = target
    THEN (CHOOSE i \in DOMAIN known : known[i].id = target) - 1
    ELSE -1

\* A deep link jumps to its provider once the list has been read.
SetConnectProviders(c, known, target) ==
    LET index == TargetIndex(known, target)
    IN  IF index >= 0
        THEN SetProviderFlow([c EXCEPT !.selected = index], known[index + 1])
        ELSE [c EXCEPT !.selected = AtMost(@, AtLeast(0, Len(known) - 1))]

MoveConnectSelection(c, delta, known) ==
    [c EXCEPT !.selected = Clamp(@ + delta, 0, AtLeast(0, Len(known) - 1))]

ChooseSelectedProvider(c, known) ==
    IF SelectedProvider(c, known) = NoProvider THEN c
    ELSE SetProviderFlow(c, SelectedProvider(c, known))

BackConnectStep(c, known) ==
    [c EXCEPT !.confirm = FALSE,
              !.step = CASE @ = "customLabel" -> "customUrl"
                         [] @ = "key" /\ SelectedProvider(c, known).id = Custom -> "customLabel"
                         [] OTHER -> "list"]

---------------------------------------------------------------------------
(* Keys (useConnectInput), for a surface that waits for nothing *)

ReplaceStep(c, known) ==
    [c EXCEPT !.step = IF SelectedProvider(c, known).id = Custom THEN "customUrl" ELSE "key"]

ToggleAction(c) ==
    [c EXCEPT !.action = IF @ = ReplaceAction THEN ClearAction ELSE ReplaceAction]

EnterOnAction(c, known) ==
    IF c.action = ReplaceAction THEN ReplaceStep(c, known) ELSE [c EXCEPT !.confirm = TRUE]

\* Leaving a field forwards validates it; an invalid draft keeps the step.
LeaveUrl(c)   == [c EXCEPT !.step = IF c.url THEN "customLabel" ELSE @]
LeaveLabel(c) == [c EXCEPT !.step = IF c.label THEN "key" ELSE @]

TypeUrl(c, valid)   == [c EXCEPT !.url = valid]
TypeLabel(c, valid) == [c EXCEPT !.label = valid]

---------------------------------------------------------------------------
(* Requests (useConnectBackend) *)

\* Checked again when the key is submitted (see OwnOverlay: it always passes).
DraftsPass(c, provider) == provider.id # Custom \/ (c.url /\ c.label)

BeginMutation(c) == [c EXCEPT !.inFlight = TRUE]
EndMutation(c)   == [c EXCEPT !.inFlight = FALSE]

=============================================================================
