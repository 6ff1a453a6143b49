------------------------------- MODULE MCCSE --------------------------------
(***************************************************************************)
(* CSE on small functions, with the interpreter as judge of its result.    *)
(***************************************************************************)
EXTENDS CSE, MCPrograms

\* What SoundOnPlainMemory says, when calls do write: "You should treat call
\* instructions as stores to an unknown and possibly same address as S or L"
\* (p2.cpp).
SoundAcrossCalls ==
  status = "done" /\ (\A i \in Id : prog.kind[i] # "rmw") =>
    SameBehaviour(prog, Left, Env)
=============================================================================
