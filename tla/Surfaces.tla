------------------------------ MODULE Surfaces ------------------------------
(***************************************************************************)
(* What the terminal shows below the transcript: at most one docked panel  *)
(* at a time, out of an active surface, the resume panel and a question.   *)
(* A panel that comes into view is mounted: it is reset and asks the       *)
(* backend for its data; one that goes out of view is unmounted.  Requests *)
(* are not taken back: their answers find whatever is there by then.       *)
(* This module is the frame; PanelKeys and PanelAnswers add what happens.   *)
(***************************************************************************)
EXTENDS MemoryPanel, ModelPanel, ConnectPanel, ThemePanel, ResumePanel

CONSTANTS MaxSessions,   \* stored sessions
          Heights,       \* heights the terminal may be resized to
          ConnectedAtStart  \* sets of providers that may be connected at the start

\* windowRowsAtom counts rows, the list of sessions has a length, and only providers are
\* connected.
ASSUME SizesAssumption == /\ Heights \subseteq Nat /\ MaxSessions \in Nat
                          /\ \A connected \in ConnectedAtStart : connected \subseteq ProviderSet

VARIABLES ui,            \* the terminal: see Start
          calls,         \* requests whose answer has not arrived, in the order sent
          store          \* the backend's data behind the panels

vars == <<ui, calls, store>>

-----------------------------------------------------------------------------
NoPanel    == [kind |-> "none"]
NoQuestion == [kind |-> "none", index |-> 0]

Start(height) ==
    [surface  |-> "home",         \* activeSurfaceAtom
     resuming |-> FALSE,          \* resumePanelOpenAtom
     question |-> NoQuestion,     \* userQuestionAtom and its selected index
     rows     |-> height,         \* windowRowsAtom
     panel    |-> NoPanel,        \* atoms of the surface's panel
     resume   |-> ResetResumeSurface,
     opening  |-> 0,              \* memoryRequestGenerationAtom
     known    |-> <<>>,           \* connectProvidersAtom
     target   |-> None,           \* connectTargetProviderIdAtom
     back     |-> FALSE,          \* connectReturnToModelAtom
     theme    |-> 1,              \* activeThemeAtom
     chosen   |-> 1,              \* the theme last confirmed
     mount    |-> 0,              \* mounts so far
     sent     |-> 0]              \* requests sent by keys so far

TooSmall(u) == u.rows < MinRows

ActiveDockedPanel(u) ==
    CASE u.question.kind # "none" -> "question"
      [] u.question.kind = "none" /\ u.resuming -> "resume"
      [] u.question.kind = "none" /\ ~u.resuming /\ u.surface \in {"theme", "model", "memory", "connect"}
           -> u.surface
      [] OTHER -> "none"

\* The component that takes the keys.
Mounted(u) ==
    CASE TooSmall(u) -> "tooSmall"
      [] ~TooSmall(u) /\ u.surface = "help" -> "help"
      [] ~TooSmall(u) /\ u.surface # "help" /\ ActiveDockedPanel(u) = "none" -> "home"
      [] OTHER -> ActiveDockedPanel(u)

DockedPanelRows(u) == ResolveDockedPanelRows(u.rows, DockedRows)

\* Rows of the list in a panel of u.
ListRows(u, kind) ==
    CASE kind = "memory" -> MemoryListRows(u.panel, DockedPanelRows(u))
      [] kind \in {"model", "theme"} -> CommandSurfaceBodyRows(DockedPanelRows(u), 4, 0)
      [] kind = "resume" -> AtLeast(1, AtMost(10, CommandSurfaceBodyRows(DockedPanelRows(u), 5, 0)))

-----------------------------------------------------------------------------
(* Requests.  `mount` is the mount that sent one, `latest` whether it is that *)
(* mount's newest of its kind, `then` what follows its answer.                 *)

Call(u, op) == [op |-> op, mount |-> u.mount, opening |-> u.opening, latest |-> TRUE,
                provider |-> None, model |-> None, theme |-> NoTheme, then |-> "none"]

\* The backend answers these on threads of their own, and "idle" is the wait for a
\* turn to end; all others are answered one by one.
Threaded == {"setKey", "inlineKey", "models", "idle"}

\* A new version makes the older requests of its mount stale.
Superseded(pending, mount, ops) ==
    [i \in DOMAIN pending |->
       [pending[i] EXCEPT !.latest = @ /\ ~(pending[i].mount = mount /\ pending[i].op \in ops)]]

MountCalls(u) ==
    CASE Mounted(u) = "memory"  -> <<Call(u, "list")>>
      [] Mounted(u) = "model"   -> <<Call(u, "load")>>
      [] Mounted(u) = "connect" -> <<Call(u, "providers")>>
      [] Mounted(u) = "resume"  -> <<Call(u, "sessions")>>
      [] OTHER -> <<>>

Unmount_Keeps(u, was) == u

\* What goes out of view: an unconfirmed theme is taken back.
Unmount(u, was) ==
    IF was = "theme" /\ u.panel.kind = "theme"
    THEN [u EXCEPT !.theme = RevertThemePreview(u.panel, @), !.panel.origin = NoTheme]
    ELSE u

\* What comes into view.  The forms and picks of the memory panel were set when
\* it was opened, so only its data is reset.
Mount(u) ==
    [u EXCEPT !.mount = @ + 1,
              !.panel = CASE Mounted(u) = "memory"  -> ResetMemoryData(@)
                          [] Mounted(u) = "model"   -> ResetModelSurface
                          [] Mounted(u) = "connect" -> ResetConnectSurface
                          [] Mounted(u) = "theme"   ->
                               ScrollThemeHighlightIntoView(ResetThemeSurface(u.theme), ListRows(u, "theme"))
                          [] OTHER -> @,
              !.resume = IF Mounted(u) = "resume" THEN ResetResumeSurface ELSE @]

PanelKinds == {"memory", "model", "connect", "theme", "resume"}

\* What is forgotten once out of view, as its next opening sets it again.
Forget(u) ==
    [u EXCEPT !.panel  = IF @.kind = u.surface THEN @ ELSE NoPanel,
              !.target = IF u.surface = "connect" THEN @ ELSE None,
              !.back   = @ /\ u.surface = "connect",
              !.resume = IF u.resuming THEN @ ELSE [ResetResumeSurface EXCEPT !.sessions = u.resume.sessions]]

\* The terminal renders u: panels go and come as its surface says.
Rendered(u) ==
    LET was  == Mounted(ui)
        left == Forget(IF Mounted(u) # was THEN Unmount(u, was) ELSE u)
    IN  IF Mounted(u) # was /\ Mounted(u) \in PanelKinds THEN Mount(left) ELSE left

Commit(u, pending) ==
    \E now \in {u} : \E next \in {Rendered(now)} :
      /\ ui' = next
      /\ calls' = pending \o (IF Mounted(next) # Mounted(ui) THEN MountCalls(next) ELSE <<>>)

-----------------------------------------------------------------------------
(* Surfaces *)

CloseActiveSurface(u) ==
    [u EXCEPT !.surface = "home", !.opening = IF u.surface = "memory" THEN @ + 1 ELSE @]

OpenConnectSurface(u, target, back) ==
    [u EXCEPT !.surface = "connect", !.target = target, !.back = back]
OpenHelpSurface(u)  == [u EXCEPT !.surface = "help"]
OpenModelSurface(u) == [u EXCEPT !.surface = "model"]
OpenThemeSurface(u) == [u EXCEPT !.surface = "theme"]
OpenMemory(u, mode) ==
    [u EXCEPT !.surface = "memory", !.opening = @ + 1, !.panel = OpenMemorySurface(mode, u.opening + 1)]

OpenResumePanel(u)  == [u EXCEPT !.resuming = TRUE, !.resume = ResetResumeSurface]
CloseResumePanel(u) == [u EXCEPT !.resuming = FALSE]

OpenUserQuestion(u, kind) == [u EXCEPT !.question = [kind |-> kind, index |-> 0]]
CloseUserQuestion(u)      == [u EXCEPT !.question = NoQuestion]

\* App: Esc closes the surface unless its panel consumes the key.
EscConsumed(u) ==
    \/ u.surface \in {"home", "connect"}
    \/ u.surface = "model" /\ u.panel.kind = "model" /\ ModelSurfaceConsumesEsc(u.panel)
    \/ u.surface = "memory" /\ SurfaceConsumesEsc(u.panel)

AppEsc(u) == IF EscConsumed(ui) THEN u ELSE CloseActiveSurface(u)

-----------------------------------------------------------------------------
\* The request that connected a provider before the start counts as sent.
Init ==
    /\ calls = <<>>
    /\ \E height \in Heights, connected \in ConnectedAtStart :
         /\ ui = [Start(height) EXCEPT !.sent = Cardinality(connected)]
         /\ store = [items |-> 1, inbox |-> 1, sessions |-> MaxSessions, active |-> NoSelection,
                     connected |-> connected, url |-> Custom \in connected]

=============================================================================
