------------------------------ MODULE Rewriter ------------------------------
(***************************************************************************)
(* What a clean-up pass promises: it erases instructions one batch at a    *)
(* time, and hands the users of a batch one value that is defined before   *)
(* everything it replaces.  CSE (p2.cpp) and DCE (dce.cpp) implement it.   *)
(***************************************************************************)
EXTENDS IR

VARIABLES
  prog,   \* the function as parsed: kinds, blocks, graph; never changes
  live,   \* the instructions still in it
  args    \* their current operands

vars == <<prog, live, args>>

TypeOK ==
  /\ IsProgram(prog)
  /\ live \subseteq Id
  /\ args \in [Id -> [Slot -> Value]]

Init ==
  /\ IsProgram(prog)
  /\ UsesWellPlaced(prog, prog.args)
  /\ live = Id
  /\ args = prog.args

Rewrite(v) ==
  /\ UNCHANGED prog
  /\ live' \subseteq live
  /\ \A r \in live \ live' : HasUse(args, r) => StandsFor(prog, v, r, live')
  /\ args' = Rewritten(args, live \ live', v)

Next == \E v \in Value : Rewrite(v)

Spec == Init /\ [][Next]_vars

-----------------------------------------------------------------------------

\* No live instruction has an erased operand, and an erased one uses nothing:
\* Value::~Value asserts that an erased instruction has no user left.
NoDanglingUse == UsesAlive(live, args)

\* "Instruction does not dominate all uses!", the verifier's complaint.
DefsDominateUses == UsesWellPlaced(prog, args)

\* Whoever had an operand has one still.
NoOperandLost == OperandsFilled(prog, live, args)

WellFormed == NoDanglingUse /\ DefsDominateUses /\ NoOperandLost
=============================================================================
