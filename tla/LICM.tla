-------------------------------- MODULE LICM --------------------------------
(***************************************************************************)
(* LoopInvariantCodeMotion of projects/p3/p3.cpp on one function: loops    *)
(* from the inside out, the blocks of a loop one by one, and in a block    *)
(* each instruction once.  What is invariant goes to the end of the        *)
(* preheader; operands never change.  The sinking of stores is commented   *)
(* out in the code: stores that qualify are only counted.                  *)
(*                                                                         *)
(* "sub" and "gep" stand for what isSafeToSpeculativelyExecute accepts,    *)
(* "div" for what it refuses, "call" for calls it refuses.                 *)
(***************************************************************************)
EXTENDS IRSem, FiniteSets

CONSTANTS
  Edge,     \* Edge[g]: the edges <<b, c>> of graph g
  Loops,    \* Loops[g]: the natural loops of g, each the set of its blocks
  Global    \* the leaves that are global variables

VARIABLES
  prog,    \* the function as parsed; never changes
  home,    \* the block of each instruction
  stamp,   \* 0, or the number of the move that last put it where it is
  done,    \* loops dealt with
  loop,    \* the loop being dealt with, {} between loops
  todo,    \* its blocks that have not been entered
  cur,     \* instIter, 0 at the end of a block
  seen,    \* num_loads, num_stores, num_calls of the loop
  stats    \* what printStats() prints

vars == <<prog, home, stamp, done, loop, todo, cur, seen, stats>>

Counter == {"Loops", "NoStore", "NoLoad", "NoStoreWithLoad", "WithCall",
            "Basic", "LoadHoist", "StoreSink", "NoPreheader"}

Nothing == [load |-> 0, store |-> 0, call |-> 0]

Init ==
  /\ prog \in Programs
  /\ home = prog.blk
  /\ stamp = [i \in Id |-> 0]
  /\ done = {}
  /\ loop = {}
  /\ todo = {}
  /\ cur = 0
  /\ seen = Nothing
  /\ stats = [c \in Counter |-> 0]

-----------------------------------------------------------------------------
(* LoopInfo.                                                               *)

Dominates(b, c) == <<b, c>> \in Dom[prog.graph]

Succs(b) == {c \in Block : <<b, c>> \in Edge[prog.graph]}

Header(l) == CHOOSE b \in l : \A c \in l : Dominates(b, c)

Entering(l) == {b \in Block \ l : Header(l) \in Succs(b)}

HasPreheader(l) == \E b \in Block : Entering(l) = {b} /\ Succs(b) = {Header(l)}

Preheader(l) == CHOOSE b \in Block : Entering(l) = {b}

Exits(l) == (UNION {Succs(b) : b \in l}) \ l

\* workOnNestedLoops: the loops inside first, and no other loop before the
\* one that holds them.
IsNext(l) ==
  /\ l \in Loops[prog.graph] \ done
  /\ \A m \in Loops[prog.graph] :
       /\ m \subseteq l /\ m # l => m \in done
       /\ m \notin done /\ (\E k \in done : k \subseteq m) => l \subseteq m

-----------------------------------------------------------------------------
(* The order of the instructions of a block: those it had, then those      *)
(* moved to it, oldest first, then its terminator.                         *)

Precedes(i, j) ==
  IF prog.kind[i] = "term" \/ prog.kind[j] = "term"
  THEN prog.kind[j] = "term" /\ (prog.kind[i] = "term" => i < j)
  ELSE stamp[i] < stamp[j] \/ (stamp[i] = stamp[j] /\ i < j)

In(b) == {i \in Id : home[i] = b}

First(S) ==
  IF S = {} THEN 0 ELSE CHOOSE i \in S : \A j \in S \ {i} : Precedes(i, j)

\* instIter++
Following(i) == First({j \in In(home[i]) : Precedes(i, j)})

-----------------------------------------------------------------------------
(* What may move out of loop l.                                            *)

InLoop(l, i) == home[i] \in l

Invariant(l, v) == v \in Id => ~InLoop(l, v)

Speculatable == {"sub", "gep", "fcmp"}

\* A slip: makeLoopInvariant without hasLoopInvariantOperands.
HoistableAnyway(l, i) == prog.kind[i] \in Speculatable

\* hasLoopInvariantOperands, so that makeLoopInvariant moves i alone.
Hoistable(l, i) ==
  /\ prog.kind[i] \in Speculatable
  /\ \A s \in Slot : Invariant(l, prog.args[i][s])

DominatesAllExits(l, i) == \A e \in Exits(l) : Dominates(home[i], e)

IsAlloca(v) == v \in Id /\ prog.kind[v] = "alloca"

\* A slip: pointers the code knows nothing of do not alias either.
IsSameAddressExactly(x, y) == x = y

\* isSameAddress: an alloca or a global is only the same as itself.
IsSameAddress(x, y) == IsAlloca(x) \/ x \in Global => x = y

Address(i) ==
  IF prog.kind[i] \in Stores THEN prog.args[i][2] ELSE prog.args[i][1]

\* A global, or an alloca that is not made anew in each turn of the loop.
Fixed(l, x) == x \in Global \/ (IsAlloca(x) /\ ~InLoop(l, x))

MayWrite(l) ==
  {j \in Id : InLoop(l, j) /\ prog.kind[j] \in Stores \cup {"call"}}

\* A slip: volatile loads as well.
CanMoveAnyLoad(l, i) ==
  /\ prog.kind[i] \in Loads
  /\ \/ /\ Fixed(l, Address(i))
        /\ \A j \in MayWrite(l) : /\ prog.kind[j] \in Stores
                                  /\ ~IsSameAddress(Address(j), Address(i))
     \/ /\ MayWrite(l) = {}
        /\ Invariant(l, Address(i))
        /\ DominatesAllExits(l, i)

\* canMoveLoadOutOfLoop.  isIdempotent() means "And" or "Or": no call is, so
\* every call counts as a store to the address.
CanMoveLoad(l, i) ==
  /\ prog.kind[i] = "load"
  /\ \/ /\ Fixed(l, Address(i))
        /\ \A j \in MayWrite(l) : /\ prog.kind[j] \in Stores
                                  /\ ~IsSameAddress(Address(j), Address(i))
     \/ /\ MayWrite(l) = {}
        /\ Invariant(l, Address(i))
        /\ DominatesAllExits(l, i)

\* canMoveStoreOutOfLoop.  For the same reason no call counts as a load.
CanMoveStore(l, i) ==
  LET other == {j \in Id \ {i} : /\ InLoop(l, j)
                                 /\ prog.kind[j] \in Loads \cup Stores}
  IN  /\ prog.kind[i] = "store"
      /\ \/ /\ Fixed(l, Address(i))
            /\ \A j \in other : ~IsSameAddress(Address(j), Address(i))
         \/ /\ other = {}
            /\ Invariant(l, Address(i))
            /\ DominatesAllExits(l, i)

-----------------------------------------------------------------------------

Count(c) == stats' = [stats EXCEPT ![c] = @ + 1]

Enter(l) ==
  /\ loop = {}
  /\ IsNext(l)
  /\ HasPreheader(l)
  /\ loop' = l
  /\ todo' = l
  /\ seen' = Nothing
  /\ Count("Loops")
  /\ UNCHANGED <<prog, home, stamp, done, cur>>

SkipLoop(l) ==
  /\ loop = {}
  /\ IsNext(l)
  /\ ~HasPreheader(l)
  /\ done' = done \cup {l}
  /\ stats' = [stats EXCEPT !["Loops"] = @ + 1, !["NoPreheader"] = @ + 1]
  /\ UNCHANGED <<prog, home, stamp, loop, todo, cur, seen>>

\* A slip: the blocks in the order of some set.
EnterAnyBlock(b) ==
  /\ cur = 0
  /\ b \in todo
  /\ todo' = todo \ {b}
  /\ cur' = First(In(b))
  /\ UNCHANGED <<prog, home, stamp, done, loop, seen, stats>>

\* LoopInfo lists the blocks in reverse postorder: after their dominators.
EnterBlock(b) ==
  /\ cur = 0
  /\ b \in todo
  /\ \A c \in todo \ {b} : ~Dominates(c, b)
  /\ todo' = todo \ {b}
  /\ cur' = First(In(b))
  /\ UNCHANGED <<prog, home, stamp, done, loop, seen, stats>>

\* A slip: counted after the move, what has left is not seen.
SeeAfterMove(i) ==
  LET one(K) == IF prog.kind[i] \in K /\ ~CanMoveLoad(loop, i) THEN 1 ELSE 0
  IN  seen' = [load  |-> seen.load + one(Loads),
               store |-> seen.store + one(Stores),
               call  |-> seen.call + one({"call"})]

See(i) ==
  LET one(K) == IF prog.kind[i] \in K THEN 1 ELSE 0
  IN  seen' = [load  |-> seen.load + one(Loads),
               store |-> seen.store + one(Stores),
               call  |-> seen.call + one({"call"})]

\* The head of the inner loop: count, and move the iterator on.
Visit(i) ==
  /\ cur = i
  /\ i \in Id
  /\ See(i)
  /\ cur' = Following(i)
  /\ UNCHANGED <<prog, done, loop, todo>>

Moves == stats["Basic"] + stats["LoadHoist"]

\* moveBefore(preHeader->getTerminator())
MoveToPreheader(i) ==
  /\ home' = [home EXCEPT ![i] = Preheader(loop)]
  /\ stamp' = [stamp EXCEPT ![i] = Moves + 1]

Hoist(i) ==
  /\ Visit(i)
  /\ Hoistable(loop, i)
  /\ MoveToPreheader(i)
  /\ Count("Basic")

HoistLoad(i) ==
  /\ Visit(i)
  /\ CanMoveLoad(loop, i)
  /\ MoveToPreheader(i)
  /\ Count("LoadHoist")

CountStore(i) ==
  /\ Visit(i)
  /\ CanMoveStore(loop, i)
  /\ Count("StoreSink")
  /\ UNCHANGED <<home, stamp>>

\* A slip: the iterator is only moved on by what leaves the block.
StayForever(i) ==
  /\ cur = i
  /\ i \in Id
  /\ ~Hoistable(loop, i) /\ ~CanMoveLoad(loop, i) /\ ~CanMoveStore(loop, i)
  /\ UNCHANGED vars

Stay(i) ==
  /\ Visit(i)
  /\ ~Hoistable(loop, i) /\ ~CanMoveLoad(loop, i) /\ ~CanMoveStore(loop, i)
  /\ UNCHANGED <<home, stamp, stats>>

Leave ==
  /\ loop # {}
  /\ todo = {}
  /\ cur = 0
  /\ done' = done \cup {loop}
  /\ loop' = {}
  /\ LET add(c, holds) == stats[c] + IF holds THEN 1 ELSE 0
     IN  stats' = [stats EXCEPT
           !["WithCall"] = add("WithCall", seen.call > 0),
           !["NoStore"]  = add("NoStore", seen.store = 0),
           !["NoLoad"]   = add("NoLoad", seen.load = 0),
           !["NoStoreWithLoad"] =
              add("NoStoreWithLoad", seen.store = 0 /\ seen.load > 0)]
  /\ UNCHANGED <<prog, home, stamp, todo, cur, seen>>

Done == done = Loops[prog.graph]

Stopped == Done /\ UNCHANGED vars

Next ==
  \/ \E l \in Loops[prog.graph] : Enter(l) \/ SkipLoop(l)
  \/ \E b \in Block : EnterBlock(b)
  \/ \E i \in Id : Hoist(i) \/ HoistLoad(i) \/ CountStore(i) \/ Stay(i)
  \/ Leave
  \/ Stopped

\* One thread: it always takes its next turn.
Spec == Init /\ [][Next]_vars /\ WF_vars(Next)

-----------------------------------------------------------------------------

\* TYPE: what the nine variables range over.
TypeOK ==
  /\ IsProgram(prog)
  /\ home \in [Id -> Block]
  /\ stamp \in [Id -> Nat]
  /\ done \subseteq Loops[prog.graph]
  /\ loop \in Loops[prog.graph] \cup {{}}
  /\ todo \subseteq loop
  /\ cur \in 0..N
  /\ seen \in [{"load", "store", "call"} -> Nat]
  /\ stats \in [Counter -> Nat]

\* i comes before j on every path, wherever the moves have put the two.
Reaches(i, j) ==
  IF home[i] = home[j] THEN Precedes(i, j) ELSE Dominates(home[i], home[j])

\* A hoisted instruction stands below the operands that were hoisted before
\* it and above all that use it, over any number of nested loops: the
\* verifier run of main accepts the module.
OperandsBeforeUses ==
  \A i \in Id, s \in Slot :
    LET r == prog.args[i][s] IN
    r \in Id =>
      /\ prog.kind[r] \notin Void
      /\ IF prog.kind[i] = "phi" THEN Dominates(home[r], prog.from[i][s])
                                 ELSE Reaches(r, i)

\* Whatever moves goes up the dominator tree, and is neither an effect nor
\* something that may trap where it stands, a load excepted.
OnlyUpwards ==
  [][\A i \in Id : home'[i] # home[i] =>
       /\ prog.kind[i] \in Speculatable \cup {"load"}
       /\ Dominates(home'[i], home[i])]_vars

\* The pass visits each instruction of a loop once and does not start again:
\* when it leaves the loop, nothing in it would pass the two tests for that
\* loop.  (It may pass them later, when a load has left an outer loop only.)
NothingLeft ==
  [][loop # {} /\ loop' = {} =>
       \A i \in Id : InLoop(loop, i) =>
         ~Hoistable(loop, i) /\ ~CanMoveLoad(loop, i)]_vars

Had(l, K) == {i \in Id : prog.blk[i] \in l /\ prog.kind[i] \in K}

\* The statistics tell of the loops as they were parsed, although loads have
\* left the inner loops when the outer ones are counted.  Accesses and calls
\* are those of the loops that have a preheader: the others are not walked
\* over (workOnNestedLoops).
StatsOfSource ==
  Done =>
    LET seenLoops == {l \in Loops[prog.graph] : HasPreheader(l)}
        number(S) == Cardinality(S)
    IN  /\ stats["Loops"] = number(Loops[prog.graph])
        /\ stats["NoPreheader"] = number(Loops[prog.graph] \ seenLoops)
        /\ stats["NoLoad"] = number({l \in seenLoops : Had(l, Loads) = {}})
        /\ stats["NoStore"] = number({l \in seenLoops : Had(l, Stores) = {}})
        /\ stats["WithCall"] = number({l \in seenLoops : Had(l, {"call"}) # {}})
        /\ stats["NoStoreWithLoad"] =
             number({l \in seenLoops : Had(l, Stores) = {} /\ Had(l, Loads) # {}})

\* The order the pass leaves the instructions in.
Order ==
  LET place == [i \in Id |-> Cardinality({j \in Id : Precedes(j, i)}) + 1]
  IN  [n \in Id |-> CHOOSE i \in Id : place[i] = n]

\* The function as the pass has left it.
Left == Body(Id, prog.args, home, Order)

\* Without atomics the function behaves as before on every path that leaves
\* its loops: no load sees another memory, whatever its pointer aliases, and
\* none traps that was not bound to be executed.
BehaviourKept ==
  Done /\ (\A i \in Id : prog.kind[i] # "rmw") => SameBehaviour(prog, Left, Env)

\* The recursion over the nest of loops and the iterators come to an end.
Termination == <>Done

\* "Requirements: ... 3. Always execute before loop exits"
\* (canMoveStoreOutOfLoop), of the stores counted as loop invariant.
CountedStoresAlwaysExecute ==
  [][stats'["StoreSink"] > stats["StoreSink"] => DominatesAllExits(loop, cur)]_vars

-----------------------------------------------------------------------------

ASSUME GlobalAssumption == Global \subseteq Leaf \ {Nil}

\* Natural loops: the header dominates the loop, and the preheader, if there
\* is one, hangs between the loop and whatever else dominates part of it.
ASSUME LoopAssumption ==
  \A g \in Graph : \A l \in Loops[g] :
    /\ l \subseteq Block
    /\ \E h \in l : \A c \in l : <<h, c>> \in Dom[g]
    /\ \A h \in l, b \in Block \ l :
         (\A c \in l : <<h, c>> \in Dom[g])
           /\ {x \in Block \ l : <<x, h>> \in Edge[g]} = {b}
           => \A c \in l : /\ <<b, c>> \in Dom[g]
                           /\ \A x \in Block \ l :
                                <<x, c>> \in Dom[g] => <<x, b>> \in Dom[g]

\* Two loops are nested or disjoint, and a preheader is in the loops around
\* the one it leads to and in no other.
ASSUME NestAssumption ==
  \A g \in Graph : \A l, m \in Loops[g] :
    l # m =>
      /\ l \subseteq m \/ m \subseteq l \/ l \cap m = {}
      /\ \A h \in l, b \in Block \ l :
           /\ \A c \in l : <<h, c>> \in Dom[g]
           /\ {x \in Block \ l : <<x, h>> \in Edge[g]} = {b}
           /\ {x \in Block : <<b, x>> \in Edge[g]} = {h}
           => (b \in m <=> l \subseteq m)

\* A loop is entered at its header only, and none of its blocks returns.
ASSUME NaturalAssumption ==
  \A g \in Graph : \A l \in Loops[g] :
    /\ \A b \in l : \E c \in Block : <<b, c>> \in Edge[g]
    /\ \A b \in Block \ l, h \in l :
         <<b, h>> \in Edge[g] => \A c \in l : <<h, c>> \in Dom[g]

\* A path goes along edges, to a block that returns.
ASSUME WalkAssumption ==
  \A g \in Graph : \A path \in Path[g] :
    /\ \A k \in 1..Len(path) - 1 : <<path[k], path[k + 1]>> \in Edge[g]
    /\ \A b \in Block : <<path[Len(path)], b>> \notin Edge[g]

\* The terminator of a block is its last instruction.
ASSUME TerminatorAssumption ==
  \A P \in Programs : \A i, j \in Id :
    P.kind[i] = "term" /\ P.blk[j] = P.blk[i] => j <= i

\* What has a place in memory of its own, and its address.
Objects(P) == Global \cup {i \in Id : P.kind[i] = "alloca"}

ASSUME ObjectsAssumption ==
  \A P \in Programs, env \in Env : \A x, y \in Objects(P) :
    /\ PlaceOf(env, x) \in Cell
    /\ x # y => PlaceOf(env, x) # PlaceOf(env, y)
=============================================================================
