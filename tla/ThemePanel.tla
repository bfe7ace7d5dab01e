----------------------------- MODULE ThemePanel -----------------------------
(* The state of the /theme picker (state/ui/theme): moving the highlight applies *)
(* the theme at once, and what was not confirmed is undone when the picker goes.  *)
(* A theme is its place in the catalog, counted from 1.  Operators return the      *)
(* panel's record; the theme in force is the caller's.                             *)
EXTENDS TuiLayout

CONSTANTS Catalog     \* number of themes in the catalog

ASSUME ThemeAssumption == Catalog \in Nat \ {0}

Themes  == 1..Catalog
NoTheme == 0

ResetThemeSurface(active) ==
    [kind |-> "theme", highlight |-> active - 1, offset |-> 0, origin |-> active,
     warning |-> FALSE]

ScrollThemeHighlightIntoView(t, visible) ==
    [t EXCEPT !.offset = ResolveWindowOffset(t.highlight, @, visible, Catalog)]

HighlightedTheme(t) == t.highlight + 1

MoveThemeHighlight_Unclamped(t, delta, visible) ==
    ScrollThemeHighlightIntoView([t EXCEPT !.highlight = @ + delta], visible)

MoveThemeHighlight(t, delta, visible) ==
    ScrollThemeHighlightIntoView(
      [t EXCEPT !.highlight = Clamp(@ + delta, 0, Catalog - 1)], visible)

\* A confirmed theme is what a later cancel falls back to.
ConfirmTheme(t, theme) == [t EXCEPT !.origin = theme, !.warning = FALSE]

\* The theme in force once the picker is gone.
RevertThemePreview(t, active) == IF t.origin # NoTheme THEN t.origin ELSE active

=============================================================================
