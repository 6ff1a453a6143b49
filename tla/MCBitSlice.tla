----------------------------- MODULE MCBitSlice -----------------------------
(***************************************************************************)
(* BitSlice and BitList on words of three bits: two fields, one of which    *)
(* may lie in the other or reach beyond the word, and lists in lists.      *)
(***************************************************************************)
EXTENDS BitList

MCBounds ==
  {[start |-> 1, range |-> 2], [start |-> 1, range |-> 1], [start |-> 2, range |-> 2]}

MCOperand == {{0}, {1, 2}, Poison}
=============================================================================
