-------------------------------- MODULE CSE --------------------------------
(***************************************************************************)
(* CommonSubexpressionElimination of projects/p2/C++/p2.cpp: one sweep of  *)
(* instIter over a function that erases dead instructions, simplifies,     *)
(* merges identical ones, and removes redundant loads and stores, all of   *)
(* it under the iterator's feet.  A step is one turn of the inner loop.    *)
(***************************************************************************)
EXTENDS IRSem, FiniteSets

VARIABLES
  prog,    \* the function as parsed; never changes
  live,    \* instructions not erased yet
  args,    \* their current operands
  cur,     \* instIter, N + 1 past the last instruction
  status,  \* "running", "done", or "crashed" (a null dominator-tree node)
  stats    \* the six counters printStats adds up

vars == <<prog, live, args, cur, status, stats>>

Counter == {"Dead", "Elim", "Simplify", "LdElim", "Store2Load", "StElim"}

Init ==
  /\ prog \in Programs
  /\ live = Id
  /\ args = prog.args
  /\ cur = NextIn(Id, 0)
  /\ status = "running"
  /\ stats = [c \in Counter |-> 0]

-----------------------------------------------------------------------------
(* Which instructions each part of the pass goes for.                      *)

SameBlock(i, j) == prog.blk[i] = prog.blk[j]

DeadKinds == {"sub", "div", "gep", "fcmp", "phi"}

\* A slip: the use list is not looked at.
DeadWithUses(i) == prog.kind[i] \in DeadKinds

\* isDead
Dead(i) == prog.kind[i] \in DeadKinds /\ ~HasUse(args, i)

(***************************************************************************)
(* SimplifyInstruction: x - x, x - 0, a gep by 0, a phi of one value.  It  *)
(* answers only with values that are defined where i is.                   *)
(***************************************************************************)
Simplifications(i) ==
  LET x == args[i][1]
      y == args[i][2]
      k == prog.kind[i]
      usable(v) == v \in Leaf \/ (Before(prog, v, i) /\ (k = "phi" => ~SameBlock(v, i)))
  IN  {v \in {x, Zero} :
         \/ k = "sub" /\ x = y /\ v = Zero
         \/ k \in {"sub", "gep"} /\ y = Zero /\ v = x /\ usable(v)
         \/ k = "phi" /\ x = y /\ v = x /\ usable(v)}

CSEable(i) == prog.kind[i] \in {"sub", "div", "gep", "phi", "rmw"}

\* isIdenticalTo.  Two phis of different blocks never merge: no block has
\* the predecessors of a block it dominates.
Identical(i, j) ==
  /\ prog.kind[i] = prog.kind[j]
  /\ args[i] = args[j]
  /\ prog.kind[i] = "phi" => SameBlock(i, j) /\ prog.from[i] = prog.from[j]

SameBlockLater(i, j) == SameBlock(i, j) /\ i < j

InChildBlock(i, j) == prog.blk[j] \in Kids(prog, prog.blk[i])

\* A slip: every block of the function instead of the dominated ones.
TwinsInAnyBlock(i) == {j \in live : j # i /\ Identical(i, j)}

\* removeCommonInstructionsIn on the block of i, from i on.
TwinsInBlock(i) == {j \in live : SameBlockLater(i, j) /\ Identical(i, j)}

\* ... and on the blocks the dominator tree hangs directly under it.
Twins(i) ==
  {j \in live : (SameBlockLater(i, j) \/ InChildBlock(i, j)) /\ Identical(i, j)}

\* Slips: the scan runs past stores; it takes volatile loads too.
SameLoadsPastStores(i) ==
  {j \in live : /\ SameBlockLater(i, j)
                /\ prog.kind[j] = "load"
                /\ args[j] = args[i]}

SameLoadsVolatileToo(i) ==
  {j \in live : /\ SameBlockLater(i, j)
                /\ prog.kind[j] \in Loads
                /\ args[j] = args[i]
                /\ \A k \in live : i < k /\ k < j => prog.kind[k] \notin Stores}

(***************************************************************************)
(* eliminateRedundantLoads: the equal loads from i to the next store of    *)
(* the block.  Calls and atomics do not end the scan.                      *)
(***************************************************************************)
SameLoads(i) ==
  {j \in live : /\ SameBlockLater(i, j)
                /\ prog.kind[j] = "load"
                /\ args[j] = args[i]
                /\ \A k \in live : i < k /\ k < j => prog.kind[k] \notin Stores}

(***************************************************************************)
(* The scan reads the opcode of each load it has just erased to see        *)
(* whether it is a store: freed memory, so any erasure may be the last.    *)
(***************************************************************************)
LoadsErased(i) ==
  LET M == SameLoads(i)
  IN  IF M = {} THEN {{}} ELSE {{j \in M : j <= last} : last \in M}

(***************************************************************************)
(* eliminateRedundantStoreCall: loads of the stored address are forwarded  *)
(* until the first other load, store or call; the store itself goes if     *)
(* that is a store to its address.  An atomic does not end the scan.       *)
(***************************************************************************)
Forwardable(i, j) == prog.kind[j] = "load" /\ args[j][1] = args[i][2]

StoreStops(i) ==
  {j \in live : /\ SameBlockLater(i, j)
                /\ prog.kind[j] \in Loads \cup Stores \cup {"call"}
                /\ ~Forwardable(i, j)}

Forwarded(i) ==
  {j \in live : /\ SameBlockLater(i, j)
                /\ Forwardable(i, j)
                /\ \A k \in StoreStops(i) : j < k}

Overwritten(i) ==
  /\ prog.kind[i] = "store"
  /\ \E j \in StoreStops(i) : /\ \A k \in StoreStops(i) : j <= k
                              /\ prog.kind[j] \in Stores
                              /\ args[j][2] = args[i][2]

-----------------------------------------------------------------------------
(* One turn of the loop.                                                   *)

\* for (instIter = begin(); instIter != end(); ) at an instruction
At(i) == status = "running" /\ cur = i /\ i \in Id

\* ... that survived the dead-code and simplification checks.
Examine(i) == At(i) /\ ~Dead(i) /\ Simplifications(i) = {}

Count(c, n) == stats' = [stats EXCEPT ![c] = @ + n]

\* A slip: eraseFromParent without replaceAllUsesWith.
EraseWithoutRAUW(gone, v) ==
  /\ live' = live \ gone
  /\ args' = [i \in Id |-> IF i \in gone THEN NoArgs ELSE args[i]]

\* replaceAllUsesWith(v) and eraseFromParent() on every member of gone.
Erase(gone, v) ==
  /\ live' = live \ gone
  /\ args' = Rewritten(args, gone, v)

EraseDead(i) ==
  /\ At(i)
  /\ Dead(i)
  /\ cur' = NextIn(live, i)
  /\ Erase({i}, Nil)
  /\ Count("Dead", 1)
  /\ UNCHANGED <<prog, status>>

Simplify(i) ==
  /\ At(i)
  /\ ~Dead(i)
  /\ \E v \in Simplifications(i) : Erase({i}, v)
  /\ cur' = NextIn(live, i)
  /\ Count("Simplify", 1)
  /\ UNCHANGED <<prog, status>>

\* A slip: the iterator moves before the twins behind it are erased.
EraseTwinsStaleIterator(i) ==
  /\ Examine(i)
  /\ CSEable(i)
  /\ prog.blk[i] \in Reached[prog.graph]
  /\ Erase(Twins(i), i)
  /\ cur' = NextIn(live, i)
  /\ Count("Elim", Cardinality(Twins(i)))
  /\ UNCHANGED <<prog, status>>

\* basicCSEPass: the iterator moves on over what is left.
EraseTwins(i) ==
  /\ Examine(i)
  /\ CSEable(i)
  /\ prog.blk[i] \in Reached[prog.graph]
  /\ Erase(Twins(i), i)
  /\ cur' = NextIn(live', i)
  /\ Count("Elim", Cardinality(Twins(i)))
  /\ UNCHANGED <<prog, status>>

\* basicCSEPass in a block no path reaches: getNode() returned null, and
\* the twins of the block itself are gone when Node->begin() dereferences it.
CrashOnUnreachable(i) ==
  /\ Examine(i)
  /\ CSEable(i)
  /\ prog.blk[i] \notin Reached[prog.graph]
  /\ Erase(TwinsInBlock(i), i)
  /\ status' = "crashed"
  /\ Count("Elim", Cardinality(TwinsInBlock(i)))
  /\ UNCHANGED <<prog, cur>>

EraseLoads(i) ==
  /\ Examine(i)
  /\ prog.kind[i] \in Loads
  /\ \E gone \in LoadsErased(i) :
       Erase(gone, i) /\ Count("LdElim", Cardinality(gone))
  /\ cur' = NextIn(live', i)
  /\ UNCHANGED <<prog, status>>

\* A slip: the killed store counts as a forwarded load as well.
CountStoreTwice(i, n, k) ==
  stats' = [stats EXCEPT !["Store2Load"] = @ + n + k, !["StElim"] = @ + k]

CountStore(i, n, k) ==
  stats' = [stats EXCEPT !["Store2Load"] = @ + n, !["StElim"] = @ + k]

\* Nothing uses a store, so handing out its value replaces the loads only.
EraseAroundStore(i) ==
  /\ Examine(i)
  /\ prog.kind[i] \in Stores
  /\ LET killed == IF Overwritten(i) THEN {i} ELSE {}
     IN  /\ Erase(Forwarded(i) \cup killed, args[i][1])
         /\ CountStore(i, Cardinality(Forwarded(i)), Cardinality(killed))
  /\ cur' = NextIn(live', i)
  /\ UNCHANGED <<prog, status>>

\* A slip: the last two lines of the loop are left out.
PassForgetsToAdvance(i) ==
  /\ Examine(i)
  /\ ~CSEable(i)
  /\ prog.kind[i] \notin Loads \cup Stores
  /\ cur' = i
  /\ UNCHANGED <<prog, live, args, status, stats>>

\* if (instIter == tempIter) instIter++
Pass(i) ==
  /\ Examine(i)
  /\ ~CSEable(i)
  /\ prog.kind[i] \notin Loads \cup Stores
  /\ cur' = NextIn(live, i)
  /\ UNCHANGED <<prog, live, args, status, stats>>

\* "CSE Total"
Total ==
  stats["Dead"] + stats["Elim"] + stats["Simplify"] + stats["LdElim"]
    + stats["Store2Load"] + stats["StElim"]

\* The last block is done; printStats() ends the pass.
Finish ==
  /\ status = "running"
  /\ cur = N + 1
  /\ status' = "done"
  /\ UNCHANGED <<prog, live, args, cur, stats>>

Stopped ==
  /\ status # "running"
  /\ UNCHANGED vars

Next ==
  \/ \E i \in Id : \/ EraseDead(i)
                   \/ Simplify(i)
                   \/ EraseTwins(i)
                   \/ CrashOnUnreachable(i)
                   \/ EraseLoads(i)
                   \/ EraseAroundStore(i)
                   \/ Pass(i)
  \/ Finish
  \/ Stopped

\* One thread runs the loop and nothing else: it always takes its next turn.
Spec == Init /\ [][Next]_vars /\ WF_vars(Next)

-----------------------------------------------------------------------------

\* TYPE: what the six variables range over.
TypeOK ==
  /\ IsProgram(prog)
  /\ live \subseteq Id
  /\ args \in [Id -> [Slot -> Value]]
  /\ cur \in 1..N+1
  /\ status \in {"running", "done", "crashed"}
  /\ stats \in [Counter -> Nat]

\* Whatever the pass erased had no user left at that moment, so no live
\* instruction holds a pointer to an erased one or misses an operand
\* (eraseFromParent, p2.cpp).
NoDanglingUse ==
  UsesAlive(live, args) /\ OperandsFilled(prog, live, args)

\* Merging into the dominated blocks, simplifying and forwarding never moves
\* a use above its definition: the verifier run of main accepts the module.
DefsDominateUses == UsesWellPlaced(prog, args)

\* instIter never points at an instruction the turn just erased, although
\* the helpers erase right behind and in front of it.
IteratorValid == cur \in live \cup {N + 1}

\* "CSE Total" of printStats is the number of instructions that went, each
\* of them counted once although a load can be forwarded or eliminated.
StatsBalance == Total = N - Cardinality(live)

\* Volatile accesses, calls, allocations and terminators all survive.
EffectsKept ==
  \A i \in Id :
    prog.kind[i] \in {"vload", "vstore", "call", "alloca", "term"} => i \in live

\* CSE moves nothing.
Left == Body(live, args, prog.blk, [i \in Id |-> i])

\* Without atomics and without calls that write memory, the function the
\* pass leaves behaves as the one it was given, whether pointers alias or
\* not: calls, volatile accesses, branch operands and final memory agree.
SoundOnPlainMemory ==
  status = "done" =>
    SameBehaviour(prog, Left, {env \in Env : PlainMemory(prog, env)})

Abstract == INSTANCE Rewriter WITH prog <- prog, live <- live, args <- args

\* The pass is a rewriter: every batch of erased instructions has one
\* replacement, defined before whatever it replaces.
RefinesRewriter == Abstract!Spec

\* The loop whose iterator the body moves comes to its end.
Termination == <>(status \in {"done", "crashed"})
=============================================================================
