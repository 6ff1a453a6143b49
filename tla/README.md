# Verification of the ECE 566 compiler passes

The repository is the course work of a compiler class: three LLVM passes
(common subexpression elimination, loop invariant code motion, dead code
elimination) with their drivers, a compiler for expressions over bit slices, a
library of analyses for passes written in C, two calculators, a header of list
macros, and the scripts that run benchmarks through the passes. The modules in
this directory model them in TLA+, TLC checks them on small instances, and
TLAPS proves their main properties for all instances.

Contents: [parts of the repository](#1-the-repository),
[modules](#2-the-modules), [runs](#3-the-runs), [bounds](#4-bounds-and-why-they-are-enough),
[fairness](#5-fairness), [proofs](#6-proofs), [where code and text
disagree](#7-where-code-and-text-disagree), [not modelled](#8-what-is-not-modelled),
[possible extensions](#9-possible-extensions).

## 1. The repository

| part | source | state it keeps | operations | hard about it | model |
|---|---|---|---|---|---|
| CSE | `projects/p2/C++/p2.cpp` | the function, `instIter`, six counters | one turn of the loop: erase dead, simplify, merge twins, remove loads, forward and remove stores | instructions are erased under the iterator; the helpers scan with iterators of their own; a dominator-tree node may be null; a freed instruction is read | `CSE` |
| LICM | `projects/p3/p3.cpp` 161-505 | the function, `LoopInfo`, nine counters | per loop: each block, each instruction; hoist, hoist a load, count a store | inner loops first; instructions leave the block that is iterated; aliasing, exits, calls | `LICM` |
| CSE, copy | `projects/p3/p3.cpp` 507-819 | the same as CSE | the same statements | runs on what LICM has laid out anew | `CSE` in `P3` |
| p3 as a whole | `projects/p3/p3.cpp` | all of the above, two files | read, LICM, CSE, statistics, verify, write | one pass uses what the other leaves | `P3` |
| DCE | `tutorials/3/C++/dce.cpp` | the function, `std::set<Instruction*>`, two counters | sweep; take, erase or drop | the order of the set is that of heap addresses; pointers to freed instructions | `DCE` |
| LLVM | library | use lists, layout, dominator tree | `replaceAllUsesWith`, `eraseFromParent`, `moveBefore`, `SimplifyInstruction` | | `IR`, `IRSem` |
| drivers | `main`, `summarize`, `print_csv_file` of eight programs | output file, `.stats` file | parse, run, write statistics, verify, write, keep | a failure or a signal between two statements, and the files an earlier run left | `Driver` |
| slice compiler | `projects/p1/C++/p1.y` | `valueSliceDict`, `slicesDict`, `bitsliceFieldIds`, `bitsliceIsID`, `bitsliceRange` | one semantic action per grammar rule | state left behind by one rule for a later one; shifts by the width | `BitSlice`, `BitList`, `Word` |
| slice compiler, C | `projects/p1/C` | | `main`; most actions are empty | | `Driver` |
| C analysis library | `projects/p2/C/dominance.cpp`, `loop.cpp`, `cfg.cpp` | one cached pair of trees, one `LoopInfo` | questions about dominance and loops; First and Next walks | caches keyed by a function pointer and never refreshed; walks without a cursor | `Analysis` |
| C worklist, value map | `worklist.cpp`, `valmap.cpp` | a `std::set`, a map | create, insert, pop | | `Analysis` (worklist) |
| C passes | `projects/p2/C/cse.c`, `tutorials/3/C/dce.c` | | `main`; the passes are skeletons | | `Driver` |
| statistics (C) | `stats.cpp`, `summary.c` | counters | one traversal | | no |
| list macros | `LectureCode/Review/utlist.h` | `next` and `prev` of the caller's elements | insert, delete, replace, concatenate, sort, walk, search, for three kinds of list | the sort relinks the list it reads; the body of a walk frees elements | `Utlist`, `UtLoops` |
| lecture code | the rest of `LectureCode` | | examples, generated lexers, `uthash.h` | | no |
| calculators | `tutorials/1/expr.y`, `tutorials/2/expr.y` | a register counter, a map of registers | code generation | | no |
| project 0 | `projects/p0` | | builds a fixed function and writes it | | `Driver` |
| test bench | `wolfbench/TimedExec.sh`, `RunSafely.sh`, `Makefile.benchmark` | processes and their numbers, files of statuses | run a program under a watchdog, judge it | the program catches signals; its number may be taken over while the watchdog sleeps | `TimedExec`, `Harness` |
| statistics scripts | `wolfbench/*.py`, makefiles | | reports | | no |
| benchmarks | `wolfbench/Benchmarks` | | inputs | | no |

How the parts interact: make runs a driver, links what it leaves and runs the
result under the watchdog. A driver parses a module and calls its passes on it.
A pass calls LLVM, which updates use lists and layout. In `p3.cpp` LICM ends
with a call of its copy of CSE on the module it leaves (the option `-cse` is
another pass, LLVM's early CSE before LICM). A pass in C asks the analysis
library, which keeps answers between calls. The slice compiler is one bison
parser whose actions share global dictionaries and an `IRBuilder`. Only the test
bench has processes that run side by side; in the others what is hard is the
order of their own steps against the state that the steps pass on to each
other, what an earlier run, question or rule has left behind, and, for DCE, an
order that the heap decides.

What makes each part correct:

* every pass leaves verified IR: definitions before uses, no use of an erased
  instruction, no operand lost;
* a pass never touches freed memory: iterator and worklist point at live
  instructions;
* an observer of calls, volatile accesses, branches, memory and results cannot
  tell the function from the one parsed, after one pass or after all of p3;
* the passes end, leave nothing they are meant to remove, and their result
  does not depend on heap addresses;
* the statistics say what happened, and those on disk are about the module that
  is on disk;
* no file that make would use comes from a run that failed, and no test passes
  whose program was killed;
* a watchdog signals only its own program, and gets rid of it in time;
* a slice means the same bits wherever it is written, and touches no others; a
  list of bits is its items side by side;
* an answer of the analysis library is about the function asked about; a walk
  sees every neighbour and ends;
* the list macros keep lists: each implements an operation on sequences.

## 2. The modules

```
IR ──┬── Rewriter ······ what a clean-up pass promises
     └── IRSem ───────── an interpreter, the judge of behaviour
          ├── CSE ─────────── p2.cpp        (implements Rewriter)
          ├── DCE ─────────── dce.cpp       (implements Rewriter)
          ├── LICM ────────── p3.cpp ────── P3 = main + LICM + CSE   (implements Driver)
          └── MCPrograms ── MCCSE (MCCSEMemory, MCCSEFlow), MCDCE, MCLICM, MCP3
Word ── BitSlice ── BitList ── MCBitSlice                      p1.y
Driver ──┐
TimedExec┴── Harness ── MCHarness                              wolfbench, all main()
Lists ······ what list macros promise
Utlist ── UtLoops ── MCUtlist                                  utlist.h  (implements Lists)
Analysis ── MCAnalysis                                         p2/C

proofs: IR_, CSE_, DCE_, P3_ (with LICM), BitList_, Harness_, Analysis_, UtLoops_proofs
```

**IR.** A function has the instructions `1..N`, numbered in layout order. The
passes tell opcodes apart only by class, so `Kind` has one member per class:
`sub` for pure operations, `div` for those that may trap, `load`/`vload`,
`store`/`vstore` (volatile), `rmw` for the atomics that no list in the code
names, `call`, `alloca`, `phi`, `gep`, `fcmp`, `term`. Operands are
instructions or leaves (arguments, constants). `Dom` is LLVM's dominance and
`Reached` the blocks that have a node in its dominator tree. `Rewritten` is
`replaceAllUsesWith` and `eraseFromParent` on a batch.

**Rewriter.** The abstract specification of a clean-up pass: a step erases a
batch of instructions and gives their users one value that is defined before
all it replaces. `CSE` and `DCE` are shown to implement it, by TLC
(`RefinesRewriter`) and by proof.

**CSE.** A step is one turn of the inner loop of
`CommonSubexpressionElimination`.

| variable | code |
|---|---|
| `live`, `args` | the function |
| `cur` | `instIter`, `N + 1` at the end |
| `status` | running, ended, or crashed on a null tree node |
| `stats` | the six counters of `printStats` |

| action | code |
|---|---|
| `EraseDead` | `isDead`, 195-201 |
| `Simplify` | `SimplifyInstruction`, 203-210 |
| `EraseTwins`, `CrashOnUnreachable` | `basicCSEPass` and its helpers, 340-387 |
| `EraseLoads` | `eliminateRedundantLoads`, 393-411. Line 407 reads the opcode of an instruction erased in line 405: what is found there is arbitrary, so any erasure may be the last one |
| `EraseAroundStore` | `eliminateRedundantStoreCall`, 438-471 |
| `Pass`, `Finish` | 228-237 |

**DCE.** `Collect` is one step of the sweep; `Erase` and `Drop` are the two ways
through the body of the drain loop. `*worklist.begin()` is any member of the
set, since its order is that of addresses.

**LICM.** `home` is the block of an instruction and `stamp` the number of its last
move, from which the order inside a block follows (`Precedes`). `Enter`,
`SkipLoop` and `Leave` are the head and the tail of `loopInvariantCodeMotion`;
`EnterBlock` takes the blocks in a reverse postorder, as `LoopInfo` lists them;
`Hoist`, `HoistLoad`, `CountStore` and `Stay` are the four ways through
`moveLoopInvariants`. `CountStore` moves nothing: the call to `sinkStore` is
commented out in the code. `isIdempotent()` is a property of opcodes and false
for every call, so every call stops a load and none stops a store.

**P3.** The program of `p3.cpp`: the statements of its `main`, among them LICM
(module `LICM`, extended) and then CSE (module `CSE`, instantiated) on the
function as LICM has laid it out. `StartCSE` is the passage: the instructions
get numbers in the order they now stand in (`LaidBefore`, `NewNumber`), and the
statistics and the two files come after both. `P3` implements `Driver`, for which the work on the module is
any change at all (`RefinesDriver`); parsing may fail, as there.

**IRSem.** An interpreter for functions before and after a pass. What a word is,
which words are addresses, what the operations compute, what a callee returns
and does to memory, the environments and the paths are constants (`Word`, `Cell`,
`Compute`, `Returns`, `Clobbered`, `Env`, `Path`), so that what is proved about
behaviour holds for all of them. A machine is the values of the instructions, the
memory, what an observer has seen and whether it has trapped; a path takes it from
block to block (`ThroughBlock`), each block begins with its phis, all at once,
and then gives every instruction a `Turn` in the order of the body. `SameBehaviour`
compares the trace of calls, volatile accesses and terminator operands, and the
final memory. A run that traps before the pass is undefined and allows anything.

**Driver.** A program is the sequence of the statements of its `main` (`P2Main`,
`P3Main`, `P2CMain`, `P1Main`, `P0Main`, `DCEMain`, `DCECMain`, `P1CMain`); an action runs one of
them. The state is what outlives the program, the output file and the `.stats`
file, and what does not: the module in memory, `ToolOutputFile` and the place in
`main`. The disk is not emptied between runs, `Interrupt` and `Kill` come between any
two statements, the parser and the verifier may refuse.

**TimedExec, Harness.** `TimedExec` has the test program, its process number and
its watchdog: `Tick` is a second, `Poll` the turn of the polling loop, `Term`,
`Hup` and `Kill9` the three signals with their pauses, `Reap` and `Judge` what
`RunSafely.sh` does. A program may end at any time, with any status, may survive
the two signals that can be caught, and its number may be taken over once it has
been free for `Rest` seconds. `Harness` puts this behind `Driver` the way
`Makefile.benchmark` does.

**Word, BitSlice, BitList.** A word is the set of the positions of its one bits, or
LLVM's poison. `BitSlice` has one action per reduction of bison, in the order of the
parser: the left-hand side first, its slice kept in the variable's entry in
`valueSliceDict`; then the expression; then the assignment, which uses the
slice and resets it. `named` is a history variable: the bits that the steps
written in the program mean, found without the dictionaries. It is `None` when no
text says what the steps mean (`x1 = ...`, whose slice the code builds in a
copy and drops; an index after a field; anything reaching beyond its
surroundings), and its `ranges` part says that a `[hi:lo]` was among them.
`BitList` adds the lists `{a, b.f, c[3]}` and the two globals, which every rule for
a bitslice sets and the rules for lists read and reset: `EndItem` is the action
of `bitslice_list_helper`. Statements and the expressions in them write the globals
as well. `form` says how the last bitslice was written, and a list carries next
to `sum`, the code's `$$`, what it means. `handleBitsliceID`, which line 500 calls, is
defined nowhere in the repository; the model takes it to read the variable and
to set the globals as the rule for numbers does.

**Analysis.** `Current` and `tree` are the function of the cached trees and the graph
they were computed from; `depth` and `turns` are what `LoopInfo` holds. A step is
one call of a pass: a question, the First or the Next of one of six walks, or
an edit of the graph of a function. A walk may be interrupted by questions about
other functions. What LLVM computes from a graph (`Dominance`, `Headers`,
`LoopOf`) is external.

**Utlist, UtLoops, Lists.** Memory is the two link fields of each element; a field of an
element in no list is `Junk`. `Utlist` has the macros without loops and those
that only look for a predecessor, `UtLoops` the sorts (`StartPass`, `StartMerge`, `Take`,
`EndPass` are the levels of the loop), the `FOREACH_SAFE`s whose body may delete the
element it is given, the searches and the counts. `Lists` says what all
of them do to sequences. Under the refinement (`RefinesLists`, checked and proved)
the list read from the links is the list of `Lists`; while a sort relinks it, the
list is the one the sort was given.

The definitions marked as a *slip* are not part of a specification. Each is a
plausible mistake in one definition, and substituting it makes TLC report the
property that it is listed with in `PROJECT.json`.

## 3. The runs

| run | question | result |
|---|---|---|
| `cse` | On straight-line functions from a menu of loads, stores, volatile accesses, calls and atomics on two pointers, and on functions with phis, arithmetic and addresses over five graphs: is IR kept whole, does the iterator stay valid, are effects kept, do the counters add up, is each turn a rewriting, is behaviour kept without atomics and writing calls, does the pass end? | holds, 103,597 states |
| `cse_calls` | Is behaviour kept when calls write to memory? | no, see 7 |
| `dce` | In every order of the worklist: no freed pointer on it, one result, each step a rewriting, behaviour kept, the end reached? | holds, 56,226 states |
| `licm` | On a loop, a loop left in its middle, nested loops, nested loops both left from the inner one, and a loop without a preheader: operands before uses, nothing invariant left in a loop, only upward moves, statistics of the source, behaviour kept, the end reached? | holds, 87,299 states |
| `licm_stores` | Are the stores that are counted executed before every exit? | no, see 7 |
| `p3` | On the same graphs, with copies of what LICM moves in front of the loop: does the written file behave as the one read, after both passes; would the verifier accept what `main` comes to verify, with `-no` too; is the program one of the drivers, also when its input does not parse? | holds, 87,272 states |
| `p3_atomics` | Are atomic updates respected? | no, see 7 |
| `bitslice` | All programs over one variable and two fields, with lists in lists: does an assignment write, and a read yield, the bits that are meant; does every slice end with its assignment; is a list its items side by side? | holds, 3,700,749 states |
| `bitslice_ranges` | Does `x[hi:lo]` read bits `lo` to `hi`? | no, see 7 |
| `harness` | All eight drivers, run again and again, refused, interrupted and killed; what they leave is linked and run under the watchdog: are the statistics those of the file, does make find only what a program that succeeded has left, does the watchdog signal only its own program and end it in time, does `ok` mean ok, is there always a verdict? | holds, 419,196 states |
| `utlist` | All sequences of macros of each family on two lists: are the links right whenever a caller may use them, does a walk visit each element once although its body deletes it, does every macro do what `Lists` says, for comparisons that tell up to three classes apart, do the loops end? | holds, 417,911 states |
| `analysis` | Two functions asked about, walked over and edited in any order: are answers fresh unless the function was edited, are depths right after the first analysis, does a walk see everything, does it end unless two edges lead to one block? | holds, 53,411 states |

`CHECK_DEADLOCK` is on everywhere. The sequential programs have a `Stopped` step
for the states in which the program has ended, so a deadlock would be a state in
which no branch of the code applies; the others always have a caller that may
go on.

## 4. Bounds, and why they are enough

* **Functions of six instructions** (`N`), all assembled from a menu per
  position. Every rule of CSE relates at most three instructions (an access, an
  equal one, and one in between that stops the scan or not), the fourth and the
  terminator observe. Two erasures in a row under the iterator need four. In the
  LICM graphs six is what a definition, a dependent one, an access that
  interferes, a load, a phi and a terminator take.
* **Graphs**: one block; a line laid out against its dominance; a diamond; a
  loop whose phi uses a later instruction; a graph with an unreachable block.
  For LICM the shapes on which the code branches: preheader or not, exit
  at the bottom or in the middle, loop in a loop, both with their own exits or
  one. On the last shape (`break`) an instruction can become movable by what
  the outer loop does.
* **Environments**: two pointers that alias or do not (for LICM also one that
  points nowhere), calls that write or do not, a divisor of 0 or 1 (`Env`). The
  values 0..3 (`MCWord`), of which two are addresses (`MCCell`), make the values in
  play different from each other.
* **Paths** (`Path`): up to three turns of a loop, two for the nest, so that a value
  from an earlier turn can be wrong.
* **Words of three bits** (`W`) stand for 32, with bounds taken modulo `Span`
  (8 for 2^32). Masks are two shifts, and what matters is whether a shift
  reaches the width; the proofs cover every `W` above 1. One declared field can
  lie in the other, and one reaches beyond the word. `MaxIds`, two, bounds the fields
  listed without bounds in one statement; two is needed for an order of them
  and for a duplicate. `MaxOpen`, two, bounds the lists open at a time; the
  number of items has no bound.
* **Harness**: one module that the verifier rejects and one that it accepts; one
  run of a test, since runs share nothing but the module; a time limit (`TIMEOUT`)
  of four seconds and a process number that rests for three (`Rest`). The watchdog
  looks away for two seconds before the signals it sends without looking, so
  three is the least rest for which a number is not taken over in between, and what
  `RestAssumption` states; `age` and `free` are capped where no more is told apart.
* **Lists**: two heads and four elements: a pass of the merge sort then has two
  full merges, and with three elements one with an odd run; `Key` has three
  values, enough for ties and for merges that alternate between more than two
  classes of `cmp`. The proofs are for any set of integers.
* **Analysis**: blocks 1..4 of one function, which may get the shapes of a
  diamond, one or two loops, a double edge, unreachable blocks, or an endless
  loop, and a second function of two blocks; one edit (`MaxEdits`), after which
  any number of questions.

## 5. Fairness

`CSE`, `DCE` and `LICM` have `WF_vars(Next)`: each is one thread that runs a loop
and waits for nothing, so it takes its next turn as long as it has one. No
fairness is asked of the choices inside `Next` (the order of the worklist, what
freed memory holds): termination holds for every resolution of them.

`Harness`: time passes (`Tick`), a watchdog whose sleep is over acts (`Dog`), and
the shell that waits for the program goes on when it may (`Reap`, `Judge`): these are
the operating system's. Nothing makes the program end, nor anyone run a
tool, and a program may ignore all signals but the last; that there is a verdict
all the same (`EveryRunJudged`) is the watchdog's merit.

`UtLoops` has `WF_vars(Turn)`: a macro that has begun goes on. Nobody has to call
one. `Analysis` has `WF_vars(Continue)`: a pass that has begun a walk asks for the
next block.

`BitSlice` and `BitList` have no fairness and no liveness property, because what
comes next is up to the program text.

## 6. Proofs

All theorems are proved from the assumptions that the modules state: `N` a
natural number (`SizeAssumption`), leaves apart from instructions
(`LeafAssumption`), dominance a partial order (`DomAssumption`), functions that
LLVM's verifier accepts (`ProgramsAssumption`); for what concerns behaviour the laws
that SimplifyInstruction uses (`WordAssumption`: `x - x` is 0, `x - 0` and a gep by 0 are
`x`), environments of the right type (`EnvAssumption`), paths that begin at the entry
and follow dominance as paths along edges do (`PathAssumption`) and phis with a value
for each block that leads to theirs (`PhiAssumption`); for LICM natural loops
(`LoopAssumption`: a header that dominates, a preheader through which all other
dominators come; `NestAssumption`: two loops are nested or disjoint, and a preheader
is in the loops around its own only; `NaturalAssumption`: a loop is entered at its
header, and none of its blocks returns) and `GlobalAssumption`, and for the
behaviour of what LICM leaves `WalkAssumption` (a path goes along edges to a block that
returns), `TerminatorAssumption` (nothing of a block stands after its terminator) and
`ObjectsAssumption` (globals and allocas have cells of their own); for slices `WidthAssumption`,
`PoisonAssumption`, `NumbersAssumption`, `NoneAssumption` and `ListAssumption` (a word has
more than one bit); for p3 `LayoutAssumption` (a block that leads to another holds
an instruction, its terminator); for the analysis library `ShapeAssumption`
(finite graphs, whose entry has no predecessor); for the list macros `ListAssumption`
(NULL and what freed memory holds are no elements), `EltAssumption` (memory holds
finitely many) and `KeyAssumption` (integers stand for the order in which `cmp` puts
elements, two or more of them); for the harness `ModuleAssumption` (the absent and the partial
file are no modules), `TimeAssumption` and `RestAssumption` (a process number rests
for more than two seconds). TLC evaluates them in the runs.

| module | theorems | argument |
|---|---|---|
| `IR_proofs` | lemmas on `Before`, `Rewritten`, `NextIn` and on runs | A rewriting keeps a function well formed because `Before` is transitive: whatever stands before a batch stands before its users. About behaviour: two runs along the same path are compared turn by turn, `Agree` being what an observer sees, memory and the values both still have (`AgreeInduction`). What an instruction has computed stays what it was until the path comes to it again, and so does what it was computed from, since that dominates it (`SettledBy`, `Lasting`); so wherever it may be used, a relation that holds when it has run still holds (`HasValue`). Replacing an instruction by a value that it has in this sense changes nothing (`Replaced`). Inside a block, memory stays the same between two accesses with no write between them (`Quiet`, `LoadAgain`, `LoadStored`), and a store that another overwrites before anyone looks leaves two memories that differ in one cell, until the second store (`AgreeBut`, `StoreKilled`). For code that moves (LICM) the two runs cannot be compared turn by turn. Two orders of the instructions of a block that differ only in where some of them stand are walked through together, a step in one, in the other or in both (`Interleaved`, `InterleavedRuns`). An instruction that moves would do the same at every point of the loop (`Steady`), because its operands are defined outside and no iteration writes what it loads (`OfUnwritten`); and where it now runs too early it does not trap, because it loads from an alloca or a global (`Allocated`, `ObjectValue`), or it traps where the run was bound to come to it and trap (`BoundToRun`). `Related` says what this means for a point of the one run and one of the other, and `MoveKeeps` that a move keeps what a path shows. Last, a function behaves as before when its instructions get other numbers, its allocas the same places and its events the new names (`Renumbered`, `SameSeenTwice`). |
| `CSE_proofs` | `RewriterWellFormed`, `CSETypeOK`, `CSENoDanglingUse`, `CSEDefsDominateUses`, `CSEIteratorValid`, `CSEStatsBalance`, `CSEEffectsKept`, `CSERefinesRewriter`, `CSESound`, `CSEFewTurns` | The abstract pass keeps IR whole. Every turn erases a batch with one replacement that comes before it and is not in it (`Sound`). For stores that needs the invariant itself: the stored value may be an instruction, and could be one of the forwarded loads were its definition not above the store. So type correctness, no dangling use and dominance are inductive only together. For behaviour the invariant compares the function parsed with the one left so far, on every path and in every environment without writing calls (`SoundSoFar`); a turn keeps it because each member of its batch has the value of the replacement (`Fits`): by the laws of arithmetic (`SimplifyFits`), by equal operands (`TwinFits`), by quiet memory (`LoadsFit`, `ForwardedFit`). The turn at a store is taken apart: when the loads it answers are gone, nothing that is left between it and the store that overwrites it reads memory (`OverwrittenFacts`), so it may go too. |
| `DCE_proofs` | `DCETypeOK`, `DCEWorklistAlive`, `DCEComplete`, `DCEConfluent`, `DCECounted`, `DCERefinesRewriter`, `DCEBehaviourKept`, `DCEFewTurns` | What is dead is on the list or still to be swept (`DeadListed`); survivors keep their operands (`OperandsKept`), so that the largest self-supporting set `Kept` is never touched, and at the end everything left supports itself. The result is one set, whatever the order. Behaviour: whatever went is of a kind that only yields a value (`GoneRemovable`), and nothing that stays uses it (`Remainder`), so the values of what stays agree along every path (`AgreeAlong`). |
| `P3_proofs` | `LICMTypeOK`, `LICMOperandsBeforeUses`, `LICMOnlyUpwards`, `LICMNothingLeft`, `LICMStatsOfSource`, `LICMBehaviourKept`, `LICMGoesOn`, `P3NeverRefused`, `P3EndToEnd`, `P3RefinesDriver` | An operand outside the loop dominates the preheader, or stands in it and was moved there earlier: a move's stamp exceeds all before (`StampsBounded`). The iterator stays inside the open loop (`CurInside`), which has a preheader (`LoopOpen`). For `NothingLeft`: what has been visited and stayed does not pass the tests later (`VisitedStay`). An operand of it would have to leave the loop afterwards; but operands come first in the order of blocks that dominate (`EnteredFirst`, `CurLast`) and in the block, so they have been visited, and a load's block or the accesses of the loop do not change by other moves. The three parts, `Once`, are inductive together. For `StatsOfSource`: a move leaves the open loop and no loop that is still to come, since a preheader is in exactly the loops around its own (`StillWhole`, `OpenLoop`); what is counted is what the open loop had, and what is not counted is still to be visited in it (`SeenTells`); so every loop that is left adds the right ones (`Tallied`). For `BehaviourKept` the function parsed is compared with the one left so far, after every move (`SameSoFar`, in `Kept`): each move is one of those of `IR_proofs`. The order it leaves is a ranking of the one before (`OrderRanks`, `LeftMoves`), a path through the loop passes the preheader first (`RouteOfLoop`), and what `canMoveLoadOutOfLoop` asks of a load says that nothing in the loop writes its cell and that it may be executed early (`MovedLoads`). Phis stay (`PhisStay`), so what runs at the entry of a block is the same. For the program: the numbers that `StartCSE` gives out are a bijection because `LaidBefore` is a strict total order (`LaidBeforeOrder`, `Numbering`): blocks come in layout order, inside a block what stayed comes before what moved in, the moved ones by their stamps. What CSE then gets is well formed (`LaidOutWellFormed`) by LICM's `OperandsBeforeUses`, which is why LICM's invariant is part of this one; it also needs that the preheader something moved to was in the function as parsed (`HomesStep`). From there on the invariant of `CSE_proofs` holds with other constants (the assumptions it rests on are proved for them), and the verifier at the end finds what it asks for. For `EndToEnd` that invariant is used for every environment (`Environments`) and for every well-formed function (`Functions`), because the function that LICM leaves is none of those parsed and its allocas have other numbers. The copy keeps the behaviour of the function laid out (`Begun`, with the `SoundSoFar` of `CSE_proofs`), the file is what was in memory when `main` returned (`Filed`), and from the file read to the file written there are five runs to compare: parsed, moved, laid out in a new order, renumbered, swept. That `P3` implements `Driver` follows from where `main` is (`pc`) and what it has written. |
| `BitList_proofs` | `MaskIsSlice`, `MaskedValueIsSlice`, `DeclaredBoundsStay`, `BitSliceTypeOK`, `ListTypesHold`, `ListsJoinItems`, `SlicesResetAmongLists`, `ItemsReadNamedBits`, `AssignmentsAmongLists` | The slice in the target's entry is what the steps mean (`SliceIsNamed`). This holds when a left-hand side begins only because all other slices were reset (`WholeOutsideLhs`), and it stays true because a step means something only inside what is around it, so that no sum of starts leaves the word (`NamedInside`). Whenever a bitslice has been reduced the two globals describe it, whoever wrote them last (`ItemGlobals`); when a list waits for its next item they are cleared (`ItemCleared`), which is what makes a list that is itself an item keep its bits. An item is then a word below its width (`ItemIsBslice`), and a word shifted by that width plus the item has no carries (`AddDisjoint`, `ShiftedBeside`). |
| `Harness_proofs` | `HarnessTypeOK`, `HarnessStatsOfTarget`, `HarnessTargetUsable`, `HarnessOwnProcessOnly`, `HarnessInTime`, `HarnessOkMeansOk` | For the driver, the place in `main` says what is in memory and on disk (`Placed`, `Reported`, `Verified`, `Left`). For the watchdog, where it is and how long it still sleeps bound how old the program is and how long its number has been free (`Watched`, part of `Timed`): two seconds at most when it signals. For make, a program under test is made of the file that is there (`Made`). |
| `Analysis_proofs` | `AnswersFreshAlways`, `DepthRightAlways`, `WalkCompleteAlways` | The one cached tree is that of the function asked about last, unless that was edited since (`TreeRight`); LI, which nothing empties, holds what the first analysis of a function said (`DepthKept`); and every question is answered from what is cached at that moment (`Answered`). A walk stands at the first occurrence of the block it returned last and has seen everything up to there (`Along`, in `WalkSound`): a block that is listed twice sends it back, but it never leaves one out. |
| `UtLoops_proofs` | `UtlistLinkedWhenUsed`, `UtlistWalkComplete`, `UtlistRefinesLists` | Between loops every list is a chain of the kind in use: there is a sequence without repetitions whose elements are linked as `Chain` says and are those the list holds (`Holds`). For each macro, what it writes makes the chain of the sequence that the operation yields and touches no element of another list (`Makes`); `Contents` is that sequence (`ContentsIs`). During SORT the list is in two parts (`Links`): `s` as the pass found it, of which from `a` to `m` and from `b` on is still to be linked with its fields as they were, and `t`, linked so far. A pass finds sorted runs of `insize` elements or fewer at the end (`Runs`), what it has linked is in runs twice as long (`RunsSoFar`), and what is linked comes before what is left (`Crosses`), equal keys in their order before the sort (`Ahead`). One merge in a pass means one run, which is what `nmerges <= 1` asks for. In a FOREACH_SAFE the elements after `el` are still linked and still the list's, whatever the body deleted (`Walking`). With this every step is one of `Lists` or shows nothing. |

The type invariants of these modules, and `DCEComplete`, `DCECounted` and
`DeclaredBoundsStay`, are proved and not in the runs, which check what the proofs
rest on and what they do not reach.

Only model-checked is liveness, which the prover does not reach: `Termination` of
the three passes, `EveryRunJudged`, `LoopsEnd` and `WalkEnds`. Every safety and action
property of the runs is proved.

Of `Termination` the half that is no liveness is proved all the same: no turn of a pass
that changes anything is idle. `CSEFewTurns`: the iterator only goes forward, so a
function of `N` instructions takes `N + 1` turns at most. `DCEFewTurns`: twice what the
sweep has before it, plus twice the instructions that are left, plus the length of the
list goes down with every turn (an erasure lists two operands at most and frees one
instruction for good), so `4 * N` turns are enough in every order of the list.
`LICMGoesOn`: the loops not dealt with, the blocks of the open loop not entered and the
instructions of the block not visited (`ToVisit`) go down in lexicographic order, although
instructions leave the block and join others meanwhile. What stays with TLC is that the
pass takes its next turn until it is done: fairness, and that `Next` is enabled until then.

## 7. Where code and text disagree

* **Calls and CSE of loads** (`cse_calls`): the scan for redundant loads ends at
  stores only (p2.cpp:407); the comment at p2.cpp:432-433 asks to treat calls as
  stores to a possibly equal address. A load after a call is replaced by one
  from before it.
* **Stores and LICM** (`licm_stores`): a store to a global or an alloca counts as
  movable although an exit is reached without it (p3.cpp:296-301); the comment at
  p3.cpp:236-239 requires that it is always executed. As sinking is
  commented out, only the statistic is wrong.
* **Atomics** (`p3_atomics`): no list of the code names `AtomicRMW`. A load leaves a
  loop that updates its location atomically (p3.cpp:327-345). It then stands before
  the loop, behind a store to that location, and the scan at the store gives it the
  value stored (p3.cpp:784-819): what follows the loop no longer sees what the atomic
  wrote. In CSE two equal updates are merged into one (p2.cpp:247).
* **Ranges** (`bitslice_ranges`): the slice of `x[hi:lo]` starts at `hi`
  (p1.y:555, 672); the comment above it says that it starts at `lo`.

Other observations on the code, which are modelled as they are:

* a load that is hoisted out of an outer loop only can free an instruction of
  the inner loop, which is not visited again: in the graph `break`, LICM leaves it.
  `NothingLeft` speaks of each loop at the moment LICM leaves it;
* a list knows the width of names, numbers, fields and bits. A range, a
  parenthesis or a list counts as one bit, so that what follows or precedes it
  is added into its bits; a field listed without bounds has the width of a
  word, and shifting a list by that is poison (p1.y:577);
* a field listed without bounds gets the range of a whole word, so reading it
  yields all bits from its position on;
* `x1 = e` assigns the whole of `x`;
* an index on the left replaces a field before it instead of going into it;
* `yyerror` prints and the action goes on;
* p1.y:500 calls a function that the repository does not define, so the compiler
  does not build as committed;
* CSE dereferences a null tree node when a block that no path reaches holds a
  candidate;
* the Next functions of `cfg.cpp` find their place by the block they returned
  last, so a walk over a block with two edges to the same block does not end
  (cfg.cpp:60);
* the analysis library answers for a graph that is gone when the function asked
  about last has been edited, and `LoopInfo` is never emptied (dominance.cpp:37, 138);
* `worklist_destroy` frees a new empty set and leaks the one it was given;
* `RunSafelyAndStable.sh` runs its test once and not three times, because `exec`
  does not come back.

## 8. What is not modelled

* *Memory use*: `p2.cpp` builds and leaks a dominator tree per candidate.
* *Several functions*: the passes treat functions one by one; the counters of
  one function stand for their share of the total.
* *Endless executions*: LICM may hoist a load out of a loop that spins for ever
  before reaching it (p3.cpp:210). Behaviour is compared on paths that leave the
  loops.
* *Intrinsic calls that LLVM may speculate* are not told apart from other calls
  in LICM.
* *Types*: forwarding between accesses of different types (`sameDataType`) is
  left out, all cells have one type.
* *Arithmetic of p1.y*, `reduce`, `expand`: each emits one or a few fixed
  instructions; any value stands for what they yield, and any width for what
  they leave in the globals.
* *Unknown fields and variables of p1.y* (p1.y:538): modelled, without a
  property, because no text says what such a program should compile to.
* *Forwards of the C library* to one LLVM call each (single and counted
  neighbours, preheader, single exit, loop invariance, clone), the dominance
  frontiers, which return NULL, `transform.cpp` and `valmap.cpp`.
* *`stats.cpp`, `summary.c`*: counters printed at exit, one traversal.
* *The LL macros for compilers without decltype*, which repeat the others with
  casts, and `uthash.h`, which no code of the repository includes.
* *The calculators*: each rule emits one or two instructions. The state is one
  counter of registers or one map from registers to values.
* *`RunDiff.sh`, the remote runs of `RunSafely.sh`, report scripts, build files,
  generated lexers, lecture examples, benchmarks.*

## 9. Possible extensions

* Measures like those of the three passes (section 6) for the loops of the list macros
  (`LoopsEnd`) and for the walk over the blocks (`WalkEnds`).
