-------------------------------- MODULE Lists --------------------------------
(***************************************************************************)
(* The lists of the page: filter() of JavaScript, by the set of what is    *)
(* kept, and slice().  Kept is SelectSeq as a function of its arguments    *)
(* alone, about which lemmas can be stated and cited.                      *)
(***************************************************************************)
EXTENDS Naturals, Sequences

\* The elements of s that are in K, in their order.
Kept(s, K) ==
  LET kept[n \in 0 .. Len(s)] ==
        IF n = 0 THEN <<>>
        ELSE IF s[n] \in K THEN Append(kept[n - 1], s[n]) ELSE kept[n - 1]
  IN kept[Len(s)]

\* slice(0, cap): the first elements, or all.
Upto(s, cap) == IF Len(s) <= cap THEN s ELSE SubSeq(s, 1, cap)
=============================================================================
