----------------------------- MODULE Selection -----------------------------
(***************************************************************************)
(* Iterator::filter, with a set for its predicate.                         *)
(***************************************************************************)
EXTENDS Integers, Sequences

\* The elements of s that are in S, in their order.
Among(s, S) ==
  LET among[n \in 0..Len(s)] ==
        IF n = 0 THEN <<>>
        ELSE IF s[n] \in S THEN Append(among[n - 1], s[n]) ELSE among[n - 1]
  IN among[Len(s)]
=============================================================================
