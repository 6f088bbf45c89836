---------------------------- MODULE Subsequences ----------------------------
(***************************************************************************)
(* Filtering a list, as the comprehensions of the code do: a recursive     *)
(* function, so that module RecursionFacts can say what it returns.      *)
(***************************************************************************)
EXTENDS Naturals, Sequences

\* The elements of s at the positions in I, in their order.
At(s, I) ==
  LET upTo[n \in 0 .. Len(s)] ==
        IF n = 0 THEN <<>>
        ELSE IF n \in I THEN Append(upTo[n - 1], s[n]) ELSE upTo[n - 1]
  IN  upTo[Len(s)]
=============================================================================
