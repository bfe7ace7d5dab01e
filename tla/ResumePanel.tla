---------------------------- MODULE ResumePanel -----------------------------
(* The state of the /resume panel (state/ui/resume): the list of stored sessions *)
(* and the highlight in it.  A list is abstracted to its length.                  *)
EXTENDS TuiLayout

ResumeStatuses == {"loading", "loaded", "empty", "resuming", "failed"}

ResetResumeSurface ==
    [kind |-> "resume", sessions |-> 0, status |-> "loading", highlight |-> 0, offset |-> 0,
     resized |-> FALSE]

SetResumeRows(r, sessions) ==
    [r EXCEPT !.sessions = sessions, !.status = IF sessions = 0 THEN "empty" ELSE "loaded",
              !.highlight = 0, !.offset = 0]

SetResumeFailure(r)  == [r EXCEPT !.status = "failed"]
SetResumeResuming(r) == [r EXCEPT !.status = "resuming"]

MoveResumeHighlight(r, delta, visible) ==
    LET next == Clamp(r.highlight + delta, 0, r.sessions - 1)
    IN  IF r.sessions = 0 \/ r.status # "loaded"
        THEN r
        ELSE [r EXCEPT !.highlight = next, !.resized = FALSE,
                       !.offset = ResolveWindowOffset(next, @, visible, r.sessions)]

HasHighlightedSession(r) == r.highlight < r.sessions

=============================================================================
