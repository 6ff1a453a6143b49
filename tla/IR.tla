--------------------------------- MODULE IR ---------------------------------
(***************************************************************************)
(* The LLVM intermediate representation, as much of it as the passes of    *)
(* this repository can tell apart.  A function is a set of instructions    *)
(* 1..N numbered in layout order (the order BasicBlock::iterator visits    *)
(* them); the passes only erase instructions and replace operands, so the  *)
(* changing part of a function is the set of live instructions and their   *)
(* operands.  No variable is declared here: Rewriter, CSE and DCE do that. *)
(*                                                                         *)
(* The library is external to the repository; what the definitions say is  *)
(* what the passes rely on (use lists, replaceAllUsesWith, eraseFromParent,*)
(* the dominator tree).                                                    *)
(***************************************************************************)
EXTENDS Integers

CONSTANTS
  N,         \* number of instructions of a function
  Leaf,      \* the operands that are not instructions: arguments, constants
  Nil,       \* the leaf that fills an operand slot an instruction lacks
  Zero,      \* the leaf that is the integer constant 0
  Block,     \* basic blocks
  Graph,     \* control-flow graphs
  Dom,       \* Dom[g]: the pairs <<b, c>> where b dominates c in graph g
  Reached,   \* Reached[g]: the blocks with a node in the dominator tree of g
  Programs   \* the functions a pass may be given

Id    == 1..N
Value == Id \cup Leaf
Slot  == {1, 2}

NoArgs == [s \in Slot |-> Nil]

(***************************************************************************)
(* A kind stands for the opcodes the passes treat alike: "sub" for every   *)
(* pure operation they may delete, merge and simplify, "div" for those     *)
(* that may trap, "vload" and "vstore" for volatile accesses, "rmw" for    *)
(* the atomics no list names.                                              *)
(***************************************************************************)
Kind == {"sub", "div", "gep", "fcmp", "phi", "alloca", "load", "vload",
         "store", "vstore", "rmw", "call", "term"}

\* The kinds that have a first operand and pass it on.
Passing == {"sub", "gep", "phi", "store", "vstore"}
Void   == {"store", "vstore", "term"}     \* the kinds that yield no value
Stores == {"store", "vstore"}
Loads  == {"load", "vload"}

IsProgram(P) ==
  /\ P.kind  \in [Id -> Kind]
  /\ P.blk   \in [Id -> Block]
  /\ P.from  \in [Id -> [Slot -> Block]]  \* a phi's incoming block per slot
  /\ P.args  \in [Id -> [Slot -> Value]]
  /\ P.graph \in Graph
  /\ \A i \in Id : /\ P.kind[i] \in Passing => P.args[i][1] # Nil
                   /\ P.kind[i] \in Loads => P.args[i][2] = Nil

(***************************************************************************)
(* Instruction i comes before j on every path that reaches j.              *)
(***************************************************************************)
Before(P, i, j) ==
  IF P.blk[i] = P.blk[j] THEN i < j
                         ELSE <<P.blk[i], P.blk[j]>> \in Dom[P.graph]

\* Instruction r may be operand s of i: it yields a value, and its
\* definition dominates the use (a phi uses it at the end of a predecessor).
MayUse(P, r, i, s) ==
  /\ P.kind[r] \notin Void
  /\ IF P.kind[i] = "phi" THEN <<P.blk[r], P.from[i][s]>> \in Dom[P.graph]
                          ELSE Before(P, r, i)

UsesWellPlaced(P, args) ==
  \A i \in Id, s \in Slot : args[i][s] \in Id => MayUse(P, args[i][s], i, s)

\* No instruction that uses anything, and none that is used, is erased.
UsesAlive(live, args) ==
  \A i \in Id, s \in Slot :
    args[i][s] \in Id => i \in live /\ args[i][s] \in live

HasUse(args, r) == \E i \in Id, s \in Slot : args[i][s] = r

(***************************************************************************)
(* replaceAllUsesWith(v) on every instruction of gone, and eraseFromParent.*)
(* An erased instruction gives up its own operands.                        *)
(***************************************************************************)
Rewritten(args, gone, v) ==
  [i \in Id |-> IF i \in gone THEN NoArgs
                ELSE [s \in Slot |-> IF args[i][s] \in gone THEN v
                                                            ELSE args[i][s]]]

\* No instruction that stays has lost an operand.
OperandsFilled(P, live, args) ==
  \A i \in live, s \in Slot : P.args[i][s] # Nil => args[i][s] # Nil

\* v may stand in for r: a constant or argument always, an instruction if it
\* stays, yields a value and comes before r.
StandsFor(P, v, r, stay) ==
  \/ v \in Leaf \ {Nil}
  \/ /\ v \in stay
     /\ P.kind[v] \notin Void
     /\ Before(P, v, r)

\* ++iterator: the next live instruction in layout order, N + 1 at the end.
NextIn(live, i) ==
  IF \E j \in live : i < j
  THEN CHOOSE j \in live : i < j /\ \A k \in live : i < k => j <= k
  ELSE N + 1

\* The blocks the dominator tree hangs directly under b.
Kids(P, b) ==
  LET Under(x) == {c \in Reached[P.graph] \ {x} : <<x, c>> \in Dom[P.graph]}
  IN  {c \in Under(b) : \A d \in Under(b) : c \notin Under(d)}

-----------------------------------------------------------------------------

ASSUME SizeAssumption == N \in Nat

ASSUME LeafAssumption ==
  /\ Leaf \cap Id = {}
  /\ Nil  \in Leaf
  /\ Zero \in Leaf \ {Nil}

\* LLVM's dominance, over graphs with at most one unreachable block (several
\* of them would dominate each other).
ASSUME DomAssumption ==
  \A g \in Graph :
    /\ Dom[g] \subseteq Block \X Block
    /\ \A a \in Block : <<a, a>> \in Dom[g]
    /\ \A a, b \in Block :
         <<a, b>> \in Dom[g] /\ <<b, a>> \in Dom[g] => a = b
    /\ \A a, b, c \in Block :
         <<a, b>> \in Dom[g] /\ <<b, c>> \in Dom[g] => <<a, c>> \in Dom[g]
    /\ Reached[g] \subseteq Block

\* What parseIRFile returns has passed LLVM's verifier.
ASSUME ProgramsAssumption ==
  \A P \in Programs : IsProgram(P) /\ UsesWellPlaced(P, P.args)
=============================================================================
