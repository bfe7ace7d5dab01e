---------------------------- MODULE Subsequences ----------------------------
(* The filter of a list, as a recursive function. *)
EXTENDS Naturals, Sequences

\* The elements of s that are in K, in their order.
Only(s, K) ==
  LET kept[i \in 0..Len(s)] ==
        IF i = 0 THEN <<>>
        ELSE IF s[i] \in K THEN Append(kept[i - 1], s[i]) ELSE kept[i - 1]
  IN  kept[Len(s)]

=============================================================================
