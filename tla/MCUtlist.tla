------------------------------ MODULE MCUtlist ------------------------------
(***************************************************************************)
(* Two lists and four elements: the merge sort then has a pass with two    *)
(* full merges, and with three elements one with an odd run.               *)
(***************************************************************************)
EXTENDS UtLoops
=============================================================================
