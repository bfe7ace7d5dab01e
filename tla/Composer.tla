------------------------------ MODULE Composer ------------------------------
(***************************************************************************)
(* The prompt being typed: a text, a caret, how far the view is scrolled   *)
(* from where it follows the caret, whether an error row is shown; and the *)
(* ring of earlier submissions that Up and Down walk.  Each edit is an     *)
(* operator from one composer record to the next.                          *)
(***************************************************************************)
EXTENDS PromptText

CONSTANT MaxRing   \* submissions kept for recall

ASSUME RingAssumption == MaxRing \in Nat

EmptyComposer == [text |-> <<>>, cursor |-> 0, offset |-> 0, error |-> FALSE]

InsertText(c, inserted) ==
    LET at   == ClampToGraphemeBoundary(c.text, c.cursor)
        text == SubSeq(c.text, 1, at) \o inserted \o SubSeq(c.text, at + 1, Len(c.text))
    IN  IF inserted = <<>>
        THEN c
        ELSE [c EXCEPT !.text = text, !.cursor = at + Len(inserted), !.error = OverLimit(text)]

DeleteBackward(c) ==
    LET at   == ClampToGraphemeBoundary(c.text, c.cursor)
        text == SubSeq(c.text, 1, PreviousGraphemeStart(at)) \o SubSeq(c.text, at + 1, Len(c.text))
    IN  IF at = 0
        THEN c
        ELSE [c EXCEPT !.text = text, !.cursor = PreviousGraphemeStart(at), !.error = OverLimit(text)]

MoveCursor(c, step) ==
    [c EXCEPT !.cursor = IF step < 0 THEN PreviousGraphemeStart(@) ELSE NextGraphemeEnd(c.text, @)]

MoveCursorVertically(c, columns, step) ==
    LET target == ResolveVerticalCursorIndex(c, columns, step)
    IN  IF target = NoTarget THEN c ELSE [c EXCEPT !.cursor = target]

\* A text put in whole, by a recall or a restored draft.
WithText(text, error) ==
    [text |-> text, cursor |-> Len(text), offset |-> 0, error |-> error]

\* What the clipboard or the terminal pastes: no control characters, and one
\* kind of line break.
Return  == "\r"
Control == {"BEL"}
SanitizePastedText(text) ==
    LET kept == Positions(Len(text), {i \in DOMAIN text :
                    /\ text[i] \notin Control
                    /\ ~(text[i] = Newline /\ i > 1 /\ text[i - 1] = Return)})
    IN  [k \in DOMAIN kept |-> IF text[kept[k]] = Return THEN Newline ELSE text[kept[k]]]

-----------------------------------------------------------------------------
(* Recall *)

NoRecall == 0
EmptyRing == [entries |-> <<>>, active |-> NoRecall, draft |-> <<>>]

AppendRecallEntry(ring, text) ==
    LET entries == IF ring.entries # <<>> /\ Last(ring.entries) = text
                   THEN ring.entries ELSE Append(ring.entries, text)
    IN  [EmptyRing EXCEPT !.entries = SubSeq(entries, 1 + AtLeast(0, Len(entries) - MaxRing), Len(entries))]

\* What a walk through the ring shows: nothing when `found` is FALSE.
Recalled(ring, found, text) == [ring |-> ring, found |-> found, text |-> text]

RecallPrevious(ring, draft) ==
    LET first  == ring.active = NoRecall
        active == IF first THEN Len(ring.entries) ELSE AtLeast(1, ring.active - 1)
    IN  IF ring.entries = <<>>
        THEN Recalled(ring, FALSE, <<>>)
        ELSE Recalled([ring EXCEPT !.active = active, !.draft = IF first THEN draft ELSE @],
                      TRUE, ring.entries[active])

RecallNext(ring) ==
    CASE ring.active = NoRecall -> Recalled(ring, FALSE, <<>>)
      [] ring.active \in 1..(Len(ring.entries) - 1) ->
           Recalled([ring EXCEPT !.active = @ + 1], TRUE, ring.entries[ring.active + 1])
      [] OTHER -> Recalled([ring EXCEPT !.active = NoRecall, !.draft = <<>>], TRUE, ring.draft)

=============================================================================
