-------------------------------- MODULE Lists --------------------------------
(***************************************************************************)
(* List comprehensions of the code, as an operator on the set of positions  *)
(* they keep.                                                              *)
(***************************************************************************)
EXTENDS Integers, Sequences

\* [x for i, x in enumerate(s) if i in I]: the entries of s at the positions I.
Kept(s, I) ==
  LET kept[n \in 0..Len(s)] ==
        IF n = 0 THEN <<>>
        ELSE IF n \in I THEN Append(kept[n - 1], s[n]) ELSE kept[n - 1]
  IN kept[Len(s)]
=============================================================================
