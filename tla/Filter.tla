------------------------------- MODULE Filter --------------------------------
(***************************************************************************)
(* Array.prototype.filter, which the seats of a room and the strokes of a  *)
(* board are kept with, for a condition given as the set of what passes it.*)
(* It is written as a recursive function so that proofs may unfold it.     *)
(***************************************************************************)
EXTENDS Naturals, Sequences

\* What of s is in `keep`, in the order of s.
Filter(s, keep) ==
  LET kept[n \in 0..Len(s)] ==      \* of the first n
        IF n = 0 THEN << >>
        ELSE IF s[n] \in keep THEN Append(kept[n - 1], s[n]) ELSE kept[n - 1]
  IN  kept[Len(s)]
=============================================================================
