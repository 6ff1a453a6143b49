--------------------------------- MODULE P3 ---------------------------------
(***************************************************************************)
(* The program of projects/p3/p3.cpp on one function: its main, the loop   *)
(* invariant code motion of module LICM, and then, on what that leaves,    *)
(* its copy of project 2's pass.  The copy differs from project 2 in       *)
(* layout only, so it is module CSE, on the function LICM has laid out.    *)
(***************************************************************************)
EXTENDS LICM

CONSTANTS NoModule, Absent, Partial

VARIABLES
  text,      \* the function laid out for CSE
  live,      \* its instructions not erased yet
  args,      \* their current operands
  at,        \* instIter of CommonSubexpressionElimination
  status,    \* "waiting", then what CSE says of itself
  counted,   \* the six counters of CSE
  licm,      \* not -no-licm
  check,     \* not -no
  target,    \* the output file
  csv,       \* the .stats file
  out,       \* ToolOutputFile
  pc,        \* statement of main
  exit       \* how the program ended

pass == <<vars, text, live, args, at, status, counted>>

p3 == <<pass, licm, check, target, csv, out, pc, exit>>

-----------------------------------------------------------------------------
(* The module in memory.                                                   *)

\* An instruction of the block, for where the block stands.
Place(b) == CHOOSE n \in Id : prog.blk[n] = b

\* A slip: what was moved stands before what the preheader had.
LeavesFirst(i, j) ==
  IF home[i] = home[j] THEN Precedes(j, i)
  ELSE Place(home[i]) < Place(home[j])

\* i comes before j in the order of the blocks and of what is in them.
LaidBefore(i, j) ==
  IF home[i] = home[j] THEN Precedes(i, j)
  ELSE Place(home[i]) < Place(home[j])

\* The number each instruction has when they are laid out, and back.
NewNumber == [i \in Id |-> Cardinality({j \in Id : LaidBefore(j, i)}) + 1]

OldNumber ==
  LET new == NewNumber IN [n \in Id |-> CHOOSE i \in Id : new[i] = n]

\* The function with its instructions numbered anew.
LaidOut ==
  LET old == OldNumber
      new == NewNumber
      anew(v) == IF v \in Id THEN new[v] ELSE v
  IN  [kind  |-> [n \in Id |-> prog.kind[old[n]]],
       blk   |-> [n \in Id |-> home[old[n]]],
       from  |-> [n \in Id |-> prog.from[old[n]]],
       args  |-> [n \in Id |-> [s \in Slot |-> anew(prog.args[old[n]][s])]],
       graph |-> prog.graph]

InMemory ==
  IF pc \notin 3..9 THEN NoModule
  ELSE IF status = "waiting"
       THEN LET laid == LaidOut IN [text |-> laid, live |-> Id, args |-> laid.args]
       ELSE [text |-> text, live |-> live, args |-> args]

Modules ==
  [text : [kind : [Id -> Kind], blk : [Id -> Block],
           from : [Id -> [Slot -> Block]], args : [Id -> [Slot -> Value]],
           graph : Graph],
   live : SUBSET Id,
   args : [Id -> [Slot -> Value]]]

Broken == {m \in Modules : ~UsesWellPlaced(m.text, m.args)}

\* summarize
Summary(m) ==
  [Instructions |-> Cardinality(m.live),
   Loads        |-> Cardinality({i \in m.live : m.text.kind[i] \in Loads}),
   Stores       |-> Cardinality({i \in m.live : m.text.kind[i] \in Stores})]

Main == INSTANCE Driver WITH main <- "p3", mod <- InMemory, Module <- Modules,
                          Rejected <- Broken, Counts <- Summary

Copy == INSTANCE CSE WITH prog <- text, cur <- at, stats <- counted

-----------------------------------------------------------------------------

P3Init ==
  /\ Init
  /\ text = prog
  /\ live = Id
  /\ args = prog.args
  /\ at = 1
  /\ status = "waiting"
  /\ counted = [c \in Copy!Counter |-> 0]
  /\ licm \in BOOLEAN
  /\ check \in BOOLEAN
  /\ target = Absent
  /\ csv = Absent
  /\ out = "closed"
  /\ pc = 0
  /\ exit = "none"

-----------------------------------------------------------------------------
(* if (!NoLICM) LoopInvariantCodeMotion(M.get())                           *)

Working == Main!At("work") /\ UNCHANGED <<licm, check, target, csv, out, pc, exit>>

\* workOnNestedLoops on each loop
Motion ==
  /\ Working
  /\ licm
  /\ ~Done
  /\ Next
  /\ UNCHANGED <<text, live, args, at, status, counted>>

\* CommonSubexpressionElimination(M)
StartCSE ==
  /\ Working
  /\ licm
  /\ Done
  /\ status = "waiting"
  /\ status' = "running"
  /\ text' = LaidOut
  /\ args' = text'.args
  /\ UNCHANGED <<vars, live, at, counted>>

CSEDead == \E i \in Id : Copy!EraseDead(i)

CSESimplify == \E i \in Id : Copy!Simplify(i)

CSEElim == \E i \in Id : Copy!EraseTwins(i) \/ Copy!CrashOnUnreachable(i)

CSELdElim == \E i \in Id : Copy!EraseLoads(i)

CSEStore == \E i \in Id : Copy!EraseAroundStore(i)

CSEPass == \E i \in Id : Copy!Pass(i)

Sweep ==
  /\ Working
  /\ CSEDead \/ CSESimplify \/ CSEElim \/ CSELdElim \/ CSEStore \/ CSEPass \/ Copy!Finish
  /\ UNCHANGED vars

\* A slip: the statistics are taken inside the if.
EndOfWorkNoStats ==
  /\ Main!At("work")
  /\ licm => status = "done"
  /\ pc' = IF licm THEN pc + 1 ELSE pc + 3
  /\ UNCHANGED <<pass, licm, check, target, csv, out, exit>>

\* The pass is over, or was not asked for.
EndOfWork ==
  /\ Main!At("work")
  /\ licm => status = "done"
  /\ pc' = pc + 1
  /\ UNCHANGED <<pass, licm, check, target, csv, out, exit>>

-----------------------------------------------------------------------------
(* The other statements of main.                                           *)

\* parseIRFile, where it finds a function.
Read ==
  /\ Main!At("parse")
  /\ pc' = pc + 1
  /\ UNCHANGED <<pass, licm, check, target, csv, out, exit>>

Begin == exit = "none" /\ UNCHANGED pass /\ Main!Start /\ UNCHANGED licm

Statement ==
  /\ pc' \in {0, pc + 1}
  /\ UNCHANGED <<pass, licm>>
  /\ \/ Main!Open \/ Main!ParseFails \/ Main!Stats \/ Main!PrintStats
     \/ Main!Verify \/ Main!VerifyFails \/ Main!Write \/ Main!Keep \/ Main!End

Signal ==
  /\ pc' = 0
  /\ UNCHANGED <<pass, licm>>
  /\ Main!Interrupt \/ Main!Kill

Ended == pc = 0 /\ exit # "none" /\ UNCHANGED p3

P3Next ==
  \/ Begin \/ Read \/ Motion \/ StartCSE \/ Sweep \/ EndOfWork
  \/ Statement \/ Signal \/ Ended

P3Spec == P3Init /\ [][P3Next]_p3

-----------------------------------------------------------------------------

\* The program is one of the drivers: its passes touch nothing but the module
\* in memory, and only before the statistics are taken.
RefinesDriver == Main!DriverSpec

\* The program never refuses its own work: what LICM and then CSE leave of a
\* verified function would pass the verifier wherever main comes to it, also
\* where -no switches it off (LoopInvariantCodeMotion,
\* CommonSubexpressionElimination, createVerifierPass).
NeverRefused == Main!At("verify") => InMemory \notin Broken

\* The function in the file, under the numbers its instructions had.
Written ==
  LET old == OldNumber
      new == NewNumber
      was(v) == IF v \in Id THEN old[v] ELSE v
  IN  Body({old[n] : n \in target.live},
           [i \in Id |-> [s \in Slot |-> was(target.args[new[i]][s])]],
           home, old)

\* Without atomics and without calls that write memory, the bitcode file p3
\* leaves behaves as the one it read on every path through its loops: a load
\* LICM put before the loop is not merged by CSE with one that reads another
\* value (LoopInvariantCodeMotion, CommonSubexpressionElimination).
EndToEnd ==
  exit = "0" =>
    SameBehaviour(prog, Written, {env \in Env : PlainMemory(prog, env)})

-----------------------------------------------------------------------------

\* Every block that leads to another has its terminator.
ASSUME LayoutAssumption ==
  \A P \in Programs : \A e \in Edge[P.graph] : \E n \in Id : P.blk[n] = e[1]
=============================================================================
