------------------------------- MODULE Selection -------------------------------
(***************************************************************************)
(* What a walk along a list leaves of it when it deletes every element     *)
(* outside of a set: SelectSeq for a set instead of a test, as a recursive *)
(* function, one turn of the walk after the other.                         *)
(***************************************************************************)
EXTENDS Integers, Sequences

(* The elements of s that are in S, in their order. *)
Selected(s, S) ==
  LET kept[i \in 0 .. Len(s)] ==
        IF i = 0 THEN <<>>
        ELSE IF s[i] \in S THEN Append(kept[i - 1], s[i]) ELSE kept[i - 1]
  IN  kept[Len(s)]
=============================================================================
