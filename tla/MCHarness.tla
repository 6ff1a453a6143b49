------------------------------ MODULE MCHarness -----------------------------
(***************************************************************************)
(* Two modules, of which the verifier rejects one.  The time limit is four *)
(* seconds instead of sixty.                                               *)
(***************************************************************************)
EXTENDS Harness

CONSTANTS good, bad   \* model values

MCModule   == {good, bad}
MCRejected == {bad}

MCCounts(m) == <<m>>
=============================================================================
