-------------------------------- MODULE DCE --------------------------------
(***************************************************************************)
(* RunDeadCodeElimination of tutorials/3/C++/dce.cpp: a sweep collects the *)
(* dead instructions in a std::set of pointers, then the set is drained in *)
(* the order of the pointers, which is any order.                          *)
(***************************************************************************)
EXTENDS IRSem, FiniteSets

VARIABLES
  prog,      \* the function as parsed; never changes
  live,      \* instructions not erased yet
  args,      \* their current operands
  scan,      \* the iterator of the sweep, N + 1 once it is over
  worklist,  \* std::set<Instruction*>
  dead,      \* statistic DeadInst
  work       \* statistic WorkList

vars == <<prog, live, args, scan, worklist, dead, work>>

Init ==
  /\ prog \in Programs
  /\ live = Id
  /\ args = prog.args
  /\ scan = NextIn(Id, 0)
  /\ worklist = {}
  /\ dead = 0
  /\ work = 0

Removable == {"sub", "div", "gep", "fcmp", "phi", "alloca", "load"}

\* A slip: volatile loads go as well.
DeadVolatileToo(i) ==
  prog.kind[i] \in Removable \cup {"vload"} /\ ~HasUse(args, i)

\* isDead
Dead(i) == prog.kind[i] \in Removable /\ ~HasUse(args, i)

Operands(i) == {args[i][s] : s \in Slot} \cap Id

-----------------------------------------------------------------------------

Collect(i) ==
  /\ scan = i
  /\ i \in Id
  /\ worklist' = worklist \cup {j \in {i} : Dead(j)}
  /\ work' = IF Dead(i) THEN work + 1 ELSE work
  /\ scan' = NextIn(live, i)
  /\ UNCHANGED <<prog, live, args, dead>>

\* *worklist.begin(): any member, the order is that of heap addresses.
Take(i) == scan = N + 1 /\ i \in worklist

\* Slips: the operands are not listed; the pointer stays in the set; isDead
\* is not asked again.
EraseNoRequeue(i) ==
  /\ Take(i)
  /\ Dead(i)
  /\ worklist' = worklist \ {i}
  /\ work' = work
  /\ live' = live \ {i}
  /\ args' = Rewritten(args, {i}, Nil)
  /\ dead' = dead + 1
  /\ UNCHANGED <<prog, scan>>

EraseKeepListed(i) ==
  /\ Take(i)
  /\ Dead(i)
  /\ worklist' = worklist \cup Operands(i)
  /\ work' = work + Cardinality({s \in Slot : args[i][s] \in Id})
  /\ live' = live \ {i}
  /\ args' = Rewritten(args, {i}, Nil)
  /\ dead' = dead + 1
  /\ UNCHANGED <<prog, scan>>

EraseUnchecked(i) ==
  /\ Take(i)
  /\ worklist' = (worklist \ {i}) \cup Operands(i)
  /\ work' = work + Cardinality({s \in Slot : args[i][s] \in Id})
  /\ live' = live \ {i}
  /\ args' = Rewritten(args, {i}, Nil)
  /\ dead' = dead + 1
  /\ UNCHANGED <<prog, scan>>

\* Still dead: its operands, which may die with it, are listed and it goes.
Erase(i) ==
  /\ Take(i)
  /\ Dead(i)
  /\ worklist' = (worklist \ {i}) \cup Operands(i)
  /\ work' = work + Cardinality({s \in Slot : args[i][s] \in Id})
  /\ live' = live \ {i}
  /\ args' = Rewritten(args, {i}, Nil)
  /\ dead' = dead + 1
  /\ UNCHANGED <<prog, scan>>

\* A slip: the pointer is only removed when its instruction is dead.
DropNot(i) ==
  /\ Take(i)
  /\ ~Dead(i)
  /\ UNCHANGED vars

\* Listed as an operand, but another user is left.
Drop(i) ==
  /\ Take(i)
  /\ ~Dead(i)
  /\ worklist' = worklist \ {i}
  /\ UNCHANGED <<prog, live, args, scan, dead, work>>

Done == scan = N + 1 /\ worklist = {}

Stopped == Done /\ UNCHANGED vars

Next ==
  \/ \E i \in Id : Collect(i) \/ Erase(i) \/ Drop(i)
  \/ Stopped

\* One thread runs the two loops: it always takes its next turn.
Spec == Init /\ [][Next]_vars /\ WF_vars(Next)

-----------------------------------------------------------------------------

\* TYPE: what the variables range over.
TypeOK ==
  /\ IsProgram(prog)
  /\ live \subseteq Id
  /\ args \in [Id -> [Slot -> Value]]
  /\ scan \in 1..N+1
  /\ worklist \subseteq Id
  /\ dead \in Nat
  /\ work \in Nat

\* The set never holds a pointer to a freed instruction, although operands
\* are inserted while instructions are erased: *worklist.begin() is safe.
WorklistAlive == worklist \subseteq live

\* What every order of the worklist must leave: the largest set in which
\* each instruction is one that isDead never names or is used by a member.
Kept ==
  UNION {S \in SUBSET Id :
           \A i \in S : \/ prog.kind[i] \notin Removable
                        \/ \E j \in S, s \in Slot : prog.args[j][s] = i}

\* The order of heap addresses does not show in the result.
Confluent == Done => live = Kept

\* No instruction the loops leave is dead: one drain of the list is enough.
Complete == Done => \A i \in live : ~Dead(i)

\* DeadInst counts each erased instruction once, and WorkList each insertion
\* tried: at most one per instruction swept and one per operand freed.
Counted ==
  /\ dead = N - Cardinality(live)
  /\ work <= N + 2 * dead

\* Whatever the pass deletes, an observer of calls, volatile accesses,
\* branch operands and final memory does not miss it, whatever calls write.
BehaviourKept ==
  Done =>
    SameBehaviour(prog, Body(live, args, prog.blk, [i \in Id |-> i]), Env)

Abstract == INSTANCE Rewriter WITH prog <- prog, live <- live, args <- args

\* Erasing dead instructions is a rewriting in which nothing is replaced.
RefinesRewriter == Abstract!Spec

\* The list is drained, although every erasure may list two more.
Termination == <>Done
=============================================================================
