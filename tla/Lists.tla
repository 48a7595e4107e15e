------------------------------- MODULE Lists --------------------------------
(***************************************************************************)
(* What the compiler's passes do with lists: SelectSeq of a set, written   *)
(* with the concatenation of lists so that the provers can unfold it.      *)
(***************************************************************************)
EXTENDS Integers, Sequences, SequencesExt

(* The members of s that are in T, in their order.                         *)
Among(s, T) == FlattenSeq([k \in 1 .. Len(s) |-> IF s[k] \in T THEN <<s[k]>> ELSE <<>>])
=============================================================================
