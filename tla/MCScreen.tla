------------------------------ MODULE MCScreen ------------------------------
(* A terminal of a few columns, commands of one or two letters and texts of a  *)
(* few graphemes, so that lines wrap, windows overflow and words end early.    *)
EXTENDS ScreenProperties

Graphemes == {"a", "/", "w", "c", "e", "h", "r", " ", "\n", "\\", "\r", "BEL", "#", ">", "E", "p", "zero"}
MCWidth == [g \in Graphemes |-> CASE g = "w" -> 2 [] g \in {"\n", "\r", "BEL", "zero"} -> 0 [] OTHER -> 1]
MCBytes == [g \in Graphemes |-> IF g = "w" THEN 3 ELSE 1]

Command(id, name, subs) == [id |-> id, name |-> name, subs |-> subs]
MCRegistry == <<
    Command("resume", <<"/", "r">>, <<>>),
    Command("clear", <<"/", "a">>, <<>>),
    Command("memory", <<"/", "a", "a">>, <<[id |-> "inbox", name |-> <<"a", "e">>]>>),
    Command("help", <<"/", "h">>, <<>>),
    Command("exit", <<"/", "e">>, <<>>)>>

MCTerms == {[rows |-> 15, columns |-> 8]}
MCTyped  == {"a", "/"}
MCPastes == {<<"a", "\r", "\n", "BEL", "w", "\n", "\n", "\n", "a">>, <<"w", "\\">>, <<"/", "h">>}
MCPrompt == <<"w", "a">>
MCChunk  == <<"a", " ", "w", "w", "a">>
MCAnswer == <<"zero", "w", "\n", "w", "w", " ", "w", "zero">>

Turn(text, answer) == [text |-> text, result |-> Result("assistant", answer)]
MCTranscripts == {<<>>, <<Turn(<<"w", "a", "w">>, <<"a", "a", " ", "w", "w", "w", "w", "a", "\n", "\n", "a">>)>>}

Budget(keys, pointer, events, resizes) ==
    [keys |-> keys, pointer |-> pointer, events |-> events, resizes |-> resizes]
MCBudgets == {Budget(4, 0, 0, 0), Budget(0, 3, 1, 0), Budget(2, 0, 2, 0), Budget(2, 0, 0, 1),
              Budget(1, 0, 1, 1), Budget(1, 1, 0, 1), Budget(0, 2, 0, 1)}

=============================================================================
