------------------------------ MODULE Analysis ------------------------------
(***************************************************************************)
(* The analysis library behind the C version of project 2: dominance.cpp,  *)
(* cfg.cpp, loop.cpp and worklist.cpp.  A pass asks questions about the    *)
(* blocks of any function, walks over neighbours with pairs of First and   *)
(* Next calls, and edits the graph in between.  The library keeps one      *)
(* dominator tree, that of the function it was last asked about, and one   *)
(* LoopInfo, into which every function it is asked about is analysed.      *)
(*                                                                         *)
(* External: recalculate and analyze, by what they compute of a graph; a   *)
(* LoopInfo that still holds loops of a function when the function is      *)
(* analysed again may answer anything about its blocks.                    *)
(***************************************************************************)
EXTENDS Integers, FiniteSets, Sequences, SequencesExt

CONSTANTS
  Function,
  Shapes,    \* the graphs a function may get: sets of [its blocks -> Seq(its blocks)]
  NULL,
  Unknown,   \* a depth LLVM does not define
  MaxEdits

VARIABLES
  succ,      \* the successors of each block of each function, now
  Current,   \* the function DT and PDT were computed for, or NULL
  tree,      \* the graph they were computed from, or NULL
  depth,     \* LI: the depth of the blocks of each function, or Unknown
  turns,     \* LI: how often each function was analysed into it, up to 2
  edited,    \* functions edited since Current last became them
  answer,    \* what the last call, if a question, was answered from: the
             \* graph of a "tree" or the depths of LI; or NULL
  walk,      \* the walk under way or just ended, or NULL
  crashed,   \* a null node was dereferenced
  edits      \* edits made, up to MaxEdits

vars == <<succ, Current, tree, depth, turns, edited, answer, walk, crashed, edits>>

-----------------------------------------------------------------------------
(* What LLVM computes from a graph g.                                      *)

Edges(g) == UNION {{<<b, c>> : c \in Range(g[b])} : b \in DOMAIN g}

Converse(E) == {<<e[2], e[1]>> : e \in E}

Without(E, b) == {e \in E : b \notin {e[1], e[2]}}

\* What the edges of E lead to from the blocks of from.
Closure(E, from) ==
  LET nodes == from \cup {e[2] : e \in E}
      Closed(S) == from \subseteq S /\ \A e \in E : e[1] \in S => e[2] \in S
  IN  {b \in nodes : \A S \in SUBSET nodes : Closed(S) => b \in S}

\* The entry is the first block; the ends are those without successors.
Root(g) == CHOOSE b \in DOMAIN g : \A c \in DOMAIN g : b <= c

Dominance(g) ==
  LET E == Edges(g)
      ends == {b \in DOMAIN g : g[b] = <<>>}
      from(b) == Closure(E, {b})
      dom == {e \in (DOMAIN g) \X (DOMAIN g) :
                e[1] = e[2] \/ e[2] \notin Closure(Without(E, e[1]), {Root(g)} \ {e[1]})}
      latches(h) == {x \in from(Root(g)) : <<x, h>> \in E /\ <<h, x>> \in dom}
  IN  [of      |-> g,
       reached |-> from(Root(g)),
       dom     |-> dom,
       pdom    |-> {e \in (DOMAIN g) \X (DOMAIN g) :
                      e[1] = e[2] \/ Closure(Without(E, e[1]), {e[2]}) \cap ends = {}},
       endless |-> {b \in DOMAIN g : from(b) \cap ends = {}},
       loop    |-> UNION {{h} \X ({h} \cup Closure(Without(Converse(E), h), latches(h) \ {h})) :
                            h \in {b \in DOMAIN g : latches(b) # {}}}]

Graphs == UNION {Shapes[f] : f \in Function}

Analyses == {Dominance(g) : g \in Graphs}

Of(g) == CHOOSE x \in Analyses : x.of = g

Headers(g) == {e[1] : e \in Of(g).loop}

LoopOf(g, h) == {e[2] : e \in {d \in Of(g).loop : d[1] = h}}

LoopDepth(g, b) == Cardinality({h \in Headers(g) : b \in LoopOf(g, h)})

\* The order of children, predecessors and loops: any fixed one.
InOrder(set) == CHOOSE s \in [1..Cardinality(set) -> set] : Range(s) = set

\* The one of ds that all others dominate by the relation R.
Nearest(ds, R) ==
  IF ds = {} THEN NULL ELSE CHOOSE d \in ds : \A e \in ds : <<e, d>> \in R

-----------------------------------------------------------------------------
(* The cache.                                                              *)

Init ==
  /\ succ \in {s \in [Function -> Graphs] : \A f \in Function : s[f] \in Shapes[f]}
  /\ Current = NULL
  /\ tree = NULL
  /\ depth = [f \in Function |-> [b \in DOMAIN succ[f] |-> 0]]
  /\ turns = [f \in Function |-> 0]
  /\ edited = {}
  /\ answer = NULL
  /\ walk = NULL
  /\ crashed = FALSE
  /\ edits = 0

\* Slips: the tree and LI are those of the first function.
RecalculatedOnce(f) == IF Current = NULL THEN succ[f] ELSE tree

AnalyzedOnce(f) ==
  IF Current = NULL THEN [b \in DOMAIN succ[f] |-> LoopDepth(succ[f], b)] ELSE depth[f]

\* DT->recalculate(*F), PDT->recalculate(*F)
Recalculated(f) == succ[f]

\* LI->analyze(*DT)
Analyzed(f) ==
  [b \in DOMAIN succ[f] |->
     IF turns[f] > 0 /\ (Headers(succ[f]) # {} \/ \E c \in DOMAIN succ[f] : depth[f][c] # 0)
     THEN Unknown ELSE LoopDepth(succ[f], b)]

UpdateDominators(f) ==
  \/ /\ Current = f
     /\ UNCHANGED <<Current, tree, depth, turns, edited>>
  \/ /\ Current # f
     /\ Current' = f
     /\ tree' = Recalculated(f)
     /\ depth' = [depth EXCEPT ![f] = Analyzed(f)]
     /\ turns' = [turns EXCEPT ![f] = IF @ = 2 THEN 2 ELSE @ + 1]
     /\ edited' = edited \ {f}

-----------------------------------------------------------------------------
(* Questions; g is the graph the tree was computed from.  Where LLVM       *)
(* leaves the answer open there are several.                               *)

LLVMDominates(g, a, b) == {(<<a, b>> \in Of(g).dom)}

\* A block that reaches no end of the function hangs under a root LLVM picks.
LLVMPostDominates(g, a, b) ==
  IF b \in Of(g).endless THEN BOOLEAN ELSE {(<<a, b>> \in Of(g).pdom)}

LLVMIsReachableFromEntry(g, b) == {(b \in Of(g).reached)}

\* NULL for a block without a node, and for the root.
LLVMImmDom(g, b) ==
  {IF b \notin Of(g).reached THEN NULL
   ELSE Nearest({a \in Of(g).reached \ {b} : <<a, b>> \in Of(g).dom}, Of(g).dom)}

LLVMImmPostDom(g, b) ==
  IF b \in Of(g).endless THEN (DOMAIN g) \cup {NULL}
  ELSE {Nearest({a \in (DOMAIN g) \ {b} : <<a, b>> \in Of(g).pdom}, Of(g).pdom)}

LLVMNearestCommonDominator(g, a, b) ==
  {IF {a, b} \subseteq Of(g).reached
   THEN Nearest({d \in Of(g).reached : {<<d, a>>, <<d, b>>} \subseteq Of(g).dom}, Of(g).dom)
   ELSE NULL}

Answers(g, q) ==
  CASE q[1] = "dom"       -> LLVMDominates(g, q[2], q[3])
    [] q[1] = "pdom"      -> LLVMPostDominates(g, q[2], q[3])
    [] q[1] = "reachable" -> LLVMIsReachableFromEntry(g, q[2])
    [] q[1] = "idom"      -> LLVMImmDom(g, q[2])
    [] q[1] = "ipdom"     -> LLVMImmPostDom(g, q[2])
    [] q[1] = "common"    -> LLVMNearestCommonDominator(g, q[2], q[3])

Walking == walk # NULL /\ walk.last # NULL

Kind == {"dom", "pdom", "reachable", "idom", "ipdom", "common"}

Agree(g, h) ==
  g = h \/ \A q \in Kind \X (DOMAIN h) \X (DOMAIN h) : Answers(g, q) = Answers(h, q)

\* An ended walk is forgotten.
WalkStays == walk' = IF Walking THEN walk ELSE NULL

\* After UpdateDominators a question changes nothing: all are asked at once,
\* and answered from the graph g.
Ask(f) ==
  /\ UpdateDominators(f)
  /\ answer' = [of |-> "tree", f |-> f, tree |-> tree']
  /\ WalkStays
  /\ UNCHANGED <<succ, crashed, edits>>

\* Only the first call of all asks for an analysis.
LLVMGetLoopNestingDepth(f) ==
  /\ IF Current = NULL THEN UpdateDominators(f)
                       ELSE UNCHANGED <<Current, tree, depth, turns, edited>>
  /\ answer' = [of |-> "LI", f |-> f, depth |-> depth'[f]]
  /\ WalkStays
  /\ UNCHANGED <<succ, crashed, edits>>

-----------------------------------------------------------------------------
(* Walks: a First call, then Next calls with what the last one returned.   *)

NoQuestion == UNCHANGED <<Current, tree, depth, turns, edited>> /\ answer' = NULL

FirstOf(list) == IF list = <<>> THEN NULL ELSE Head(list)

\* A slip: next is set before the block is compared, not after.
NextItself(list, x) == IF x \in Range(list) THEN x ELSE NULL

\* The one loop all Next functions have: what follows the first x.
NextOf(list, x) ==
  LET after == {i \in 2..Len(list) : \E j \in 1..(i-1) : list[j] = x}
  IN  IF after = {} THEN NULL ELSE list[CHOOSE i \in after : \A j \in after : i <= j]

\* w is what is walked over, kept that the graph was and stays as it is.
Starts(kind, f, b, first, left, kept) ==
  /\ ~Walking
  /\ walk' = [kind |-> kind, f |-> f, at |-> b, last |-> first, left |-> left,
              kept |-> kept, seen |-> {first} \ {NULL},
              info |-> IF kind = "loops" THEN succ[f] ELSE NULL]
  /\ UNCHANGED <<succ, crashed, edits>>

GoesOn(kind, next) ==
  /\ Walking
  /\ walk.kind = kind
  /\ walk' = [walk EXCEPT !.last = next, !.seen = @ \cup ({next} \ {NULL})]
  /\ UNCHANGED <<succ, crashed, edits>>

LLVMGetFirstSuccessor(f, b) ==
  Starts("succs", f, b, FirstOf(succ[f][b]), {}, TRUE) /\ NoQuestion

LLVMGetNextSuccessor ==
  GoesOn("succs", NextOf(succ[walk.f][walk.at], walk.last)) /\ NoQuestion

\* A block with two edges to b is its predecessor twice.
Predecessors(g, b) ==
  LET into == InOrder(UNION {{x} \X {i \in DOMAIN g[x] : g[x][i] = b} : x \in DOMAIN g})
  IN  [i \in DOMAIN into |-> into[i][1]]

LLVMGetFirstPredecessor(f, b) ==
  Starts("preds", f, b, FirstOf(Predecessors(succ[f], b)), {}, TRUE) /\ NoQuestion

LLVMGetNextPredecessor ==
  GoesOn("preds", NextOf(Predecessors(succ[walk.f], walk.at), walk.last)) /\ NoQuestion

\* The children of the node of b, which a block no path reaches does not have.
Under(g, b) == {c \in DOMAIN g : b \in Of(g).reached /\ LLVMImmDom(g, c) = {b}}

Children(g, b) == InOrder(Under(g, b))

LLVMFirstDomChild(f, b) ==
  /\ UpdateDominators(f)
  /\ Starts("kids", f, b, FirstOf(Children(tree', b)), {}, f \notin edited')
  /\ answer' = NULL

\* A slip: the tree of whatever function was asked about last.
NextChildOfLastTree ==
  /\ NoQuestion
  /\ GoesOn("kids", NextOf(Children(tree, walk.at), walk.last))

\* Unlike LLVMFirstDomChild it does not ask whether there is a node.
LLVMNextDomChild ==
  /\ Walking
  /\ walk.kind = "kids"
  /\ UpdateDominators(walk.f)
  /\ \/ /\ walk.at \in Of(tree').reached
        /\ GoesOn("kids", NextOf(Children(tree', walk.at), walk.last))
     \/ /\ walk.at \notin Of(tree').reached
        /\ crashed' = TRUE
        /\ UNCHANGED <<succ, walk, edits>>
  /\ answer' = NULL

TopLevel(g) == {h \in Headers(g) : LoopDepth(g, h) = 1}

TopLoops(g) == InOrder(TopLevel(g))

\* LLVMCreateLoopInfoRef, LLVMGetFirstLoop
LLVMGetFirstLoop(f) ==
  Starts("loops", f, NULL, FirstOf(TopLoops(succ[f])), {}, TRUE) /\ NoQuestion

LLVMGetNextLoop ==
  /\ walk # NULL /\ walk.info # NULL
  /\ GoesOn("loops", NextOf(TopLoops(walk.info), walk.last))
  /\ NoQuestion

\* A worklist is a set: what is inserted twice is in it once.
worklist_create == {}

worklist_insert(w, blocks) == w \cup blocks

worklist_empty == walk.left = {}

\* LLVMGetLoopRef, and a worklist of the blocks of the loop
LLVMGetBlocksInLoop(f, h) ==
  /\ h \in Headers(succ[f])
  /\ Starts("blocks", f, h, h, worklist_insert(worklist_create, LoopOf(succ[f], h)), TRUE)
  /\ NoQuestion

ExitBlocks(g, h) == (UNION {Range(g[b]) : b \in LoopOf(g, h)}) \ LoopOf(g, h)

\* An exit reached by two edges is in it once.
LLVMGetExitBlocks(f, h) ==
  /\ h \in Headers(succ[f])
  /\ Starts("exits", f, h, h, worklist_insert(worklist_create, ExitBlocks(succ[f], h)), TRUE)
  /\ NoQuestion

\* In the order of addresses; NULL when there is nothing left.
worklist_pop ==
  /\ Walking
  /\ walk.kind \in {"blocks", "exits"}
  /\ \/ worklist_empty /\ walk' = [walk EXCEPT !.last = NULL]
     \/ \E b \in walk.left :
          walk' = [walk EXCEPT !.left = @ \ {b}, !.last = b, !.seen = @ \cup {b}]
  /\ UNCHANGED <<succ, crashed, edits>>
  /\ NoQuestion

-----------------------------------------------------------------------------
(* The pass that uses the library.                                         *)

\* The terminator of one block is replaced.
Edit(f) ==
  /\ edits < MaxEdits
  /\ edits' = edits + 1
  /\ \E g \in Shapes[f] :
       /\ Cardinality({b \in DOMAIN g : g[b] # succ[f][b]}) = 1
       /\ succ' = [succ EXCEPT ![f] = g]
  /\ edited' = edited \cup {f}
  /\ answer' = NULL
  /\ walk' = IF walk # NULL /\ walk.f = f THEN [walk EXCEPT !.kept = FALSE] ELSE walk
  /\ UNCHANGED <<Current, tree, depth, turns, crashed>>

Begin(f) ==
  \/ LLVMGetFirstLoop(f)
  \/ \E b \in DOMAIN succ[f] :
       \/ LLVMGetFirstSuccessor(f, b) \/ LLVMGetFirstPredecessor(f, b)
       \/ LLVMFirstDomChild(f, b)
       \/ LLVMGetBlocksInLoop(f, b) \/ LLVMGetExitBlocks(f, b)

Continue ==
  /\ ~crashed
  /\ \/ LLVMGetNextSuccessor \/ LLVMGetNextPredecessor \/ LLVMNextDomChild
     \/ LLVMGetNextLoop \/ worklist_pop

Crashed == crashed /\ UNCHANGED vars

Next ==
  \/ ~crashed /\ \E f \in Function : Ask(f) \/ LLVMGetLoopNestingDepth(f) \/ Begin(f) \/ Edit(f)
  \/ Continue
  \/ Crashed

\* A pass that walks goes on with its walk.
Spec == Init /\ [][Next]_vars /\ WF_vars(Continue)

-----------------------------------------------------------------------------

\* TYPE: what the variables range over.
TypeOK ==
  /\ succ \in [Function -> Graphs]
  /\ \A f \in Function : succ[f] \in Shapes[f]
  /\ Current \in Function \cup {NULL}
  /\ Current # NULL => tree \in Shapes[Current]
  /\ DOMAIN depth = Function
  /\ \A f \in Function : depth[f] \in [DOMAIN succ[f] -> 0..Cardinality(DOMAIN succ[f]) \cup {Unknown}]
  /\ turns \in [Function -> 0..2]
  /\ edited \subseteq Function
  /\ crashed \in BOOLEAN
  /\ edits \in 0..MaxEdits

\* The single cached tree answers for any function in any order of questions;
\* only an edit of the function asked about last goes unnoticed, until
\* another function is asked about (UpdateDominators, LLVMDominates ...).
\* Answers, walks and caches keep their types.
AnswersFresh ==
  /\ TypeOK
  /\ answer # NULL /\ answer.of = "tree" /\ answer.f \notin edited =>
       Agree(answer.tree, succ[answer.f])

Depths(g) == [b \in DOMAIN g |-> LoopDepth(g, b)]

\* LI is never emptied: the depth of a block is right once its function has
\* been asked about, until it is edited, or asked about again after another
\* was (LLVMGetLoopNestingDepth).
DepthRight ==
  /\ answer # NULL
  /\ answer.of = "LI"
  /\ turns[answer.f] = 1
  /\ answer.f \notin edited
  => answer.depth = Depths(succ[answer.f])

\* What a walk of a kind has to see.
WalkedOver(kind) ==
  LET g == succ[walk.f] IN
  {x \in DOMAIN g :
     \/ kind = "succs"  /\ x \in Range(g[walk.at])
     \/ kind = "preds"  /\ walk.at \in Range(g[x])
     \/ kind = "kids"   /\ x \in Under(g, walk.at)
     \/ kind = "loops"  /\ x \in TopLevel(g)
     \/ kind = "blocks" /\ x \in LoopOf(g, walk.at)
     \/ kind = "exits"  /\ x \in {walk.at} \cup ExitBlocks(g, walk.at)}

\* A walk that has ended has seen everything, and a node it goes through is
\* there, whatever the pass asks about other functions between two calls,
\* unless it edits the function (the First and Next functions, worklist_pop).
WalkComplete ==
  walk # NULL /\ walk.kept =>
    /\ ~crashed
    /\ walk.last = NULL => walk.seen = WalkedOver(walk.kind)

\* Two edges from one block to another.
Doubled(g, x, y) == Len(SelectSeq(g[x], LAMBDA c : c = y)) > 1

Repeats ==
  \/ /\ walk.kind = "succs"
     /\ \E y \in DOMAIN succ[walk.f] : Doubled(succ[walk.f], walk.at, y)
  \/ /\ walk.kind = "preds"
     /\ \E x \in DOMAIN succ[walk.f] : Doubled(succ[walk.f], x, walk.at)

\* A walk comes to an end, or is one over a block with two edges to the same
\* block, which the Next functions cannot tell apart and walk round for ever.
WalkEnds == []<>(~Walking \/ Repeats \/ crashed)

-----------------------------------------------------------------------------

ASSUME ShapeAssumption ==
  /\ NULL \notin Function \cup Nat
  /\ MaxEdits \in Nat
  /\ \A f \in Function : \A g \in Shapes[f] :
       /\ IsFiniteSet(DOMAIN g) /\ DOMAIN g # {} /\ DOMAIN g \subseteq Nat
       /\ g \in [DOMAIN g -> Seq((DOMAIN g) \ {Root(g)})]
       /\ \A h \in Shapes[f] : DOMAIN h = DOMAIN g
=============================================================================
