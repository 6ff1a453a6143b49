--------------------------- MODULE Analysis_proofs ---------------------------
(***************************************************************************)
(* Theorems of Analysis, proved by TLAPS for every set of functions and    *)
(* every shape they may get: what the cached tree and LI answer, and that  *)
(* the First and Next walks see everything.                                *)
(***************************************************************************)
EXTENDS Analysis, FiniteSetTheorems, NaturalsInduction, TLAPS

LEMMA NullApart == NULL \notin Nat /\ NULL \notin Function
  BY ShapeAssumption

-----------------------------------------------------------------------------
(* Numbers, sequences and orders.                                          *)

\* A set of naturals that is not empty has a least member.
LEMMA LeastNumber ==
  ASSUME NEW S \in SUBSET Nat, S # {}
  PROVE  \E n \in S : \A m \in S : n <= m
<1> DEFINE R == OpToRel(<, Nat)
<1>1. \E n \in S : \A m \in S : ~(<<m, n>> \in R)
  BY NatLessThanWellFounded, WFMin
<1>2. PICK n \in S : \A m \in S : ~(<<m, n>> \in R)
  BY <1>1
<1>3. ASSUME NEW m \in S
      PROVE  n <= m
  <2>1. <<m, n>> \in Nat \X Nat
    OBVIOUS
  <2>2. ~(m < n)
    BY <1>2, <2>1 DEF OpToRel
  <2> QED BY <2>2
<1> QED BY <1>3

\* What a walk over the list has seen when it stands at last: everything up
\* to its first occurrence, and everything once there is no more.
Along(list, last, seen) ==
  /\ seen \subseteq Range(list)
  /\ last = NULL => seen = Range(list)
  /\ last # NULL => \E i \in 1..Len(list) :
                       /\ list[i] = last
                       /\ \A j \in 1..(i-1) : list[j] # last
                       /\ \A j \in 1..i : list[j] \in seen

LEMMA StandsAt ==
  ASSUME NEW list \in Seq(Nat), NEW k \in 1..Len(list), NEW seen,
         seen \subseteq Range(list), \A j \in 1..k : list[j] \in seen
  PROVE  Along(list, list[k], seen)
<1> DEFINE At == {j \in 1..Len(list) : list[j] = list[k]}
<1>1. k \in At /\ At \subseteq Nat
  OBVIOUS
<1>2. PICK i \in At : \A m \in At : i <= m
  BY <1>1, LeastNumber
<1>3. i <= k /\ i \in 1..Len(list) /\ list[i] = list[k]
  BY <1>1, <1>2
<1>4. \A j \in 1..(i-1) : list[j] # list[k]
  BY <1>2, <1>3
<1>5. \A j \in 1..i : list[j] \in seen
  BY <1>3
<1>6. list[k] # NULL
  BY NullApart
<1> QED BY <1>3, <1>4, <1>5, <1>6 DEF Along

\* The First functions begin a walk.
LEMMA WalkBegins ==
  ASSUME NEW list \in Seq(Nat)
  PROVE  /\ FirstOf(list) \in Nat \cup {NULL}
         /\ Along(list, FirstOf(list), {FirstOf(list)} \ {NULL})
<1>1. CASE list = <<>>
  <2>1. Range(list) = {}
    BY <1>1 DEF Range
  <2> QED BY <1>1, <2>1 DEF FirstOf, Along
<1>2. CASE list # <<>>
  <2>1. 1 \in 1..Len(list) /\ FirstOf(list) = list[1] /\ list[1] \in Nat
    BY <1>2 DEF FirstOf
  <2>2. {list[1]} \ {NULL} = {list[1]} /\ list[1] \in Range(list)
    BY <2>1, NullApart DEF Range
  <2>3. Along(list, list[1], {list[1]})
    <3>1. {list[1]} \subseteq Range(list)
      BY <2>2
    <3>2. \A j \in 1..1 : list[j] \in {list[1]}
      BY <2>1
    <3> QED BY <2>1, <3>1, <3>2, StandsAt
  <2> QED BY <2>1, <2>2, <2>3
<1> QED BY <1>1, <1>2

\* A Next function goes on to what follows the first occurrence.
LEMMA WalkGoesOn ==
  ASSUME NEW list \in Seq(Nat), NEW last \in Nat, NEW seen, Along(list, last, seen)
  PROVE  /\ NextOf(list, last) \in Nat \cup {NULL}
         /\ Along(list, NextOf(list, last), seen \cup ({NextOf(list, last)} \ {NULL}))
<1> DEFINE after == {i \in 2..Len(list) : \E j \in 1..(i-1) : list[j] = last}
<1>1. last # NULL
  BY NullApart
<1>2. PICK k \in 1..Len(list) :
        /\ list[k] = last
        /\ \A j \in 1..(k-1) : list[j] # last
        /\ \A j \in 1..k : list[j] \in seen
  BY <1>1 DEF Along
<1>3. seen \subseteq Range(list)
  BY DEF Along
<1>4. \A i \in after : k + 1 <= i
  BY <1>2
<1>5. CASE k = Len(list)
  <2>1. after = {}
    BY <1>4, <1>5
  <2>2. NextOf(list, last) = NULL
    BY <2>1 DEF NextOf
  <2>3. Range(list) \subseteq seen
    <3>1. DOMAIN list = 1..k
      BY <1>5
    <3> QED BY <1>2, <3>1 DEF Range
  <2>4. seen \cup ({NULL} \ {NULL}) = seen
    OBVIOUS
  <2> QED BY <2>2, <2>3, <2>4, <1>3 DEF Along
<1>6. CASE k < Len(list)
  <2>1. k + 1 \in after
    BY <1>2, <1>6
  <2> DEFINE it == CHOOSE i \in after : \A j \in after : i <= j
  <2>2. it \in after /\ \A j \in after : it <= j
    BY <2>1, <1>4
  <2>3. it = k + 1
    <3>1. it <= k + 1 /\ k + 1 <= it
      BY <2>1, <2>2, <1>4
    <3>2. it \in Int
      BY <2>2
    <3>3. k \in Int
      OBVIOUS
    <3> HIDE DEF it
    <3> QED BY <3>1, <3>2, <3>3
  <2>4. NextOf(list, last) = list[k + 1]
    BY <2>1, <2>3 DEF NextOf
  <2>5. k + 1 \in 1..Len(list) /\ list[k + 1] \in Nat
    BY <1>6
  <2>6. list[k + 1] \in Range(list)
    BY <2>5 DEF Range
  <2>7. seen \cup ({list[k + 1]} \ {NULL}) = seen \cup {list[k + 1]}
    BY <2>5, NullApart
  <2>8. ASSUME NEW j \in 1..(k + 1)
        PROVE  list[j] \in seen \cup {list[k + 1]}
    <3>1. j \in 1..k \/ j = k + 1
      OBVIOUS
    <3> QED BY <1>2, <3>1 DEF Along
  <2>9. Along(list, list[k + 1], seen \cup {list[k + 1]})
    BY <2>5, <2>6, <2>8, <1>3, StandsAt
  <2> QED BY <2>4, <2>5, <2>7, <2>9
<1> QED BY <1>5, <1>6

\* Any fixed order of a finite set is a sequence of exactly its members.
LEMMA InOrderLists ==
  ASSUME NEW S, IsFiniteSet(S)
  PROVE  InOrder(S) \in Seq(S) /\ Range(InOrder(S)) = S
<1>1. Cardinality(S) \in Nat /\ ExistsBijection(1..Cardinality(S), S)
  BY FS_CardinalityType
<1>2. PICK s \in [1..Cardinality(S) -> S] : \A x \in S : \E i \in 1..Cardinality(S) : s[i] = x
  BY <1>1 DEF ExistsBijection, Bijection, Surjection
<1>3. Range(s) = S
  BY <1>2 DEF Range
<1>4. InOrder(S) \in [1..Cardinality(S) -> S] /\ Range(InOrder(S)) = S
  BY <1>2, <1>3 DEF InOrder
<1> QED BY <1>1, <1>4

-----------------------------------------------------------------------------
(* What the walks over a graph list.                                       *)

LEMMA GraphFacts ==
  ASSUME NEW g \in Graphs
  PROVE  /\ IsFiniteSet(DOMAIN g) /\ DOMAIN g \subseteq Nat
         /\ \A b \in DOMAIN g : g[b] \in Seq(DOMAIN g) /\ Range(g[b]) \subseteq DOMAIN g
<1>1. PICK f \in Function : g \in Shapes[f]
  BY DEF Graphs
<1>2. IsFiniteSet(DOMAIN g) /\ DOMAIN g \subseteq Nat
  BY <1>1, ShapeAssumption
<1>3. g \in [DOMAIN g -> Seq((DOMAIN g) \ {Root(g)})]
  BY <1>1, ShapeAssumption
<1>4. ASSUME NEW b \in DOMAIN g
      PROVE  g[b] \in Seq(DOMAIN g) /\ Range(g[b]) \subseteq DOMAIN g
  <2>1. g[b] \in Seq((DOMAIN g) \ {Root(g)})
    BY <1>3
  <2>2. g[b] \in Seq(DOMAIN g)
    BY <2>1
  <2>3. Range(g[b]) \subseteq DOMAIN g
    BY <2>2 DEF Range
  <2> QED BY <2>2, <2>3
<1> QED BY <1>2, <1>4

LEMMA ShapeFacts ==
  ASSUME NEW f \in Function, NEW g \in Shapes[f]
  PROVE  g \in Graphs /\ \A h \in Shapes[f] : DOMAIN h = DOMAIN g
<1>1. g \in Graphs
  BY DEF Graphs
<1>2. \A h \in Shapes[f] : DOMAIN h = DOMAIN g
  BY ShapeAssumption
<1> QED BY <1>1, <1>2

LEMMA ClosureStays ==
  ASSUME NEW E, NEW from, NEW V, from \subseteq V, \A e \in E : e[2] \in V
  PROVE  Closure(E, from) \subseteq V
BY DEF Closure

LEMMA LoopShape ==
  ASSUME NEW g \in Graphs, NEW e \in Of(g).loop
  PROVE  e[1] \in DOMAIN g /\ e[2] \in DOMAIN g /\ <<e[1], e[1]>> \in Of(g).loop
<1>1. Of(g) = Dominance(g)
  <2>1. Dominance(g) \in Analyses
    BY DEF Analyses
  <2>2. Dominance(g).of = g
    BY DEF Dominance
  <2>3. Of(g) \in Analyses /\ Of(g).of = g
    BY <2>1, <2>2 DEF Of
  <2>4. PICK h \in Graphs : Of(g) = Dominance(h)
    BY <2>3 DEF Analyses
  <2>5. Dominance(h).of = h
    BY DEF Dominance
  <2> QED BY <2>3, <2>4, <2>5
<1> DEFINE E == Edges(g)
           from(b) == Closure(E, {b})
           dom == {d \in (DOMAIN g) \X (DOMAIN g) :
                     d[1] = d[2] \/ d[2] \notin Closure(Without(E, d[1]), {Root(g)} \ {d[1]})}
           latches(h) == {x \in from(Root(g)) : <<x, h>> \in E /\ <<h, x>> \in dom}
           body(h) == {h} \cup Closure(Without(Converse(E), h), latches(h) \ {h})
           heads == {b \in DOMAIN g : latches(b) # {}}
<1>2. Of(g).loop = UNION {{h} \X body(h) : h \in heads}
  BY <1>1 DEF Dominance
<1>3. \A x, y : <<x, y>> \in E => x \in DOMAIN g
  BY DEF Edges
<1>4. \A d \in E : d[1] \in DOMAIN g
  BY DEF Edges
<1>5. ASSUME NEW h \in heads
      PROVE  h \in DOMAIN g /\ body(h) \subseteq DOMAIN g /\ h \in body(h)
  <2>1. latches(h) \ {h} \subseteq DOMAIN g
    BY <1>3
  <2>2. \A d \in Without(Converse(E), h) : d[2] \in DOMAIN g
    BY <1>4 DEF Without, Converse
  <2>3. Closure(Without(Converse(E), h), latches(h) \ {h}) \subseteq DOMAIN g
    <3> HIDE DEF E, latches
    <3> QED BY <2>1, <2>2, ClosureStays
  <2> QED BY <2>3
<1> HIDE DEF E, from, dom, latches, body, heads
<1>6. PICK h \in heads : e \in {h} \X body(h)
  BY <1>2
<1>7. e[1] = h /\ e[2] \in body(h)
  BY <1>6
<1>8. <<h, h>> \in {h} \X body(h)
  BY <1>5
<1> QED BY <1>2, <1>5, <1>7, <1>8

\* The blocks of a loop are blocks of the function; its header is one.
LEMMA LoopFacts ==
  ASSUME NEW g \in Graphs
  PROVE  /\ Headers(g) \subseteq DOMAIN g
         /\ \A h \in Headers(g) : h \in LoopOf(g, h) /\ LoopOf(g, h) \subseteq DOMAIN g
         /\ \A b : LoopDepth(g, b) \in 0..Cardinality(DOMAIN g)
<1>1. Headers(g) \subseteq DOMAIN g
  BY LoopShape DEF Headers
<1>2. ASSUME NEW h \in Headers(g)
      PROVE  h \in LoopOf(g, h) /\ LoopOf(g, h) \subseteq DOMAIN g
  <2>1. <<h, h>> \in Of(g).loop
    BY LoopShape DEF Headers
  <2>2. h \in LoopOf(g, h)
    BY <2>1 DEF LoopOf
  <2>3. LoopOf(g, h) \subseteq DOMAIN g
    BY LoopShape DEF LoopOf
  <2> QED BY <2>2, <2>3
<1>3. ASSUME NEW b
      PROVE  LoopDepth(g, b) \in 0..Cardinality(DOMAIN g)
  <2> DEFINE S == {h \in Headers(g) : b \in LoopOf(g, h)}
  <2>1. S \in SUBSET DOMAIN g
    BY <1>1
  <2>2. IsFiniteSet(S) /\ Cardinality(S) <= Cardinality(DOMAIN g)
    BY <2>1, GraphFacts, FS_Subset
  <2>3. Cardinality(S) \in Nat /\ Cardinality(DOMAIN g) \in Nat
    BY <2>2, GraphFacts, FS_CardinalityType
  <2>4. LoopDepth(g, b) = Cardinality(S)
    BY DEF LoopDepth
  <2> HIDE DEF S
  <2> QED BY <2>2, <2>3, <2>4
<1> QED BY <1>1, <1>2, <1>3

\* A block occurs among the predecessors once for each edge it has to b.
LEMMA PredecessorsListed ==
  ASSUME NEW g \in Graphs, NEW b \in DOMAIN g
  PROVE  /\ Predecessors(g, b) \in Seq(DOMAIN g)
         /\ Range(Predecessors(g, b)) = {x \in DOMAIN g : b \in Range(g[x])}
<1> DEFINE At(x) == {i \in DOMAIN g[x] : g[x][i] = b}
           Uses(x) == {x} \X At(x)
           all == {Uses(x) : x \in DOMAIN g}
<1>1. ASSUME NEW x \in DOMAIN g
      PROVE  IsFiniteSet(Uses(x))
  <2>1. g[x] \in Seq(DOMAIN g)
    BY GraphFacts
  <2>2. DOMAIN g[x] = 1..Len(g[x]) /\ Len(g[x]) \in Int
    BY <2>1
  <2>3. IsFiniteSet(DOMAIN g[x])
    BY <2>2, FS_Interval
  <2>4. IsFiniteSet(At(x))
    <3>1. At(x) \in SUBSET (DOMAIN g[x])
      OBVIOUS
    <3> QED BY <2>3, <3>1, FS_Subset
  <2>5. IsFiniteSet({x})
    BY FS_Singleton
  <2> QED BY <2>4, <2>5, FS_Product
<1>2. IsFiniteSet(all)
  <2> DEFINE F == [x \in DOMAIN g |-> Uses(x)]
  <2>1. F \in Surjection(DOMAIN g, all)
    BY DEF Surjection
  <2>2. IsFiniteSet(DOMAIN g)
    BY GraphFacts
  <2> HIDE DEF F, all
  <2> QED BY <2>1, <2>2, FS_Surjection
<1>3. \A T \in all : IsFiniteSet(T)
  BY <1>1
<1>4. IsFiniteSet(UNION all)
  <2> HIDE DEF all
  <2> QED BY <1>2, <1>3, FS_UNION
<1> DEFINE into == InOrder(UNION all)
<1>5. into \in Seq(UNION all) /\ Range(into) = UNION all
  <2> HIDE DEF all
  <2> QED BY <1>4, InOrderLists
<1>6. Predecessors(g, b) = [i \in DOMAIN into |-> into[i][1]]
  BY DEF Predecessors
<1>7. \A u \in UNION all : u[1] \in DOMAIN g /\ u[2] \in DOMAIN g[u[1]] /\ g[u[1]][u[2]] = b
  OBVIOUS
<1>8. \A x \in DOMAIN g : b \in Range(g[x]) => \E u \in UNION all : u[1] = x
  <2> SUFFICES ASSUME NEW x \in DOMAIN g, b \in Range(g[x])
               PROVE  \E u \in UNION all : u[1] = x
    OBVIOUS
  <2>1. PICK i \in DOMAIN g[x] : g[x][i] = b
    BY DEF Range
  <2>2. <<x, i>> \in Uses(x)
    BY <2>1
  <2>3. <<x, i>> \in UNION all
    BY <2>2
  <2> QED BY <2>3
<1> HIDE DEF all, into
<1>9. DOMAIN into = 1..Len(into) /\ Len(into) \in Nat /\ \A i \in DOMAIN into : into[i] \in UNION all
  BY <1>5
<1>10. Predecessors(g, b) \in Seq(DOMAIN g)
  BY <1>6, <1>7, <1>9
<1>11. ASSUME NEW x
       PROVE  x \in Range(Predecessors(g, b)) <=> x \in DOMAIN g /\ b \in Range(g[x])
  <2>1. x \in Range(Predecessors(g, b)) <=> \E i \in DOMAIN into : into[i][1] = x
    BY <1>6 DEF Range
  <2>2. (\E i \in DOMAIN into : into[i][1] = x) <=> \E u \in UNION all : u[1] = x
    BY <1>5 DEF Range
  <2>3. (\E u \in UNION all : u[1] = x) => x \in DOMAIN g /\ b \in Range(g[x])
    BY <1>7 DEF Range
  <2> QED BY <2>1, <2>2, <2>3, <1>8
<1> QED BY <1>10, <1>11

LEMMA ChildrenListed ==
  ASSUME NEW g \in Graphs, NEW b
  PROVE  Children(g, b) \in Seq(DOMAIN g) /\ Range(Children(g, b)) = Under(g, b)
<1>1. Under(g, b) \in SUBSET DOMAIN g
  BY DEF Under
<1>2. IsFiniteSet(Under(g, b))
  BY <1>1, GraphFacts, FS_Subset
<1>3. InOrder(Under(g, b)) \in Seq(Under(g, b)) /\ Range(InOrder(Under(g, b))) = Under(g, b)
  BY <1>2, InOrderLists
<1> QED BY <1>1, <1>3 DEF Children

LEMMA LoopsListed ==
  ASSUME NEW g \in Graphs
  PROVE  TopLoops(g) \in Seq(DOMAIN g) /\ Range(TopLoops(g)) = TopLevel(g)
<1>1. TopLevel(g) \in SUBSET DOMAIN g
  BY LoopFacts DEF TopLevel
<1>2. IsFiniteSet(TopLevel(g))
  BY <1>1, GraphFacts, FS_Subset
<1>3. InOrder(TopLevel(g)) \in Seq(TopLevel(g)) /\ Range(InOrder(TopLevel(g))) = TopLevel(g)
  BY <1>2, InOrderLists
<1> QED BY <1>1, <1>3 DEF TopLoops

-----------------------------------------------------------------------------
(* The inductive invariant.                                                *)

\* TypeOK without crashed, the one variable that is a truth value.
Typed ==
  /\ succ \in [Function -> Graphs]
  /\ \A f \in Function : succ[f] \in Shapes[f]
  /\ Current \in Function \cup {NULL}
  /\ Current # NULL => tree \in Shapes[Current]
  /\ DOMAIN depth = Function
  /\ \A f \in Function : depth[f] \in [DOMAIN succ[f] -> 0..Cardinality(DOMAIN succ[f]) \cup {Unknown}]
  /\ turns \in [Function -> 0..2]
  /\ edited \subseteq Function
  /\ edits \in 0..MaxEdits

\* The tree is that of the function asked about last, unless it was edited.
TreeRight == Current # NULL /\ Current \notin edited => tree = succ[Current]

\* LI holds what a first analysis of a function said.
DepthKept == \A f \in Function : turns[f] = 1 /\ f \notin edited => depth[f] = Depths(succ[f])

Cache == Typed /\ TreeRight /\ DepthKept

\* A question was answered from the cache as it is.
Answered ==
  answer # NULL =>
    /\ answer.of = "tree" => Current # NULL /\ answer.f = Current /\ answer.tree = tree
    /\ answer.of = "LI" => answer.f \in Function /\ answer.depth = depth[answer.f]

WalkKinds == {"succs", "preds", "kids", "loops", "blocks", "exits"}

Walks ==
  [kind : WalkKinds, f : Function, at : Nat \cup {NULL}, last : Nat \cup {NULL},
   left : SUBSET Nat, kept : BOOLEAN, seen : SUBSET Nat, info : Graphs \cup {NULL}]

\* The list a First and a Next function go through.
Listing(kind) ==
  LET g == succ[walk.f] IN
  IF kind = "succs" THEN g[walk.at]
  ELSE IF kind = "preds" THEN Predecessors(g, walk.at)
  ELSE IF kind = "kids" THEN Children(g, walk.at)
  ELSE TopLoops(g)

Listed == {"succs", "preds", "kids", "loops"}

\* What is known of a walk over a function that has not been edited.
WalkKept ==
  /\ walk.kind = "loops" => walk.info = succ[walk.f]
  /\ walk.kind = "kids" => /\ walk.f \notin edited
                           /\ walk.last # NULL => walk.at \in Of(succ[walk.f]).reached
  /\ walk.kind \in Listed => Along(Listing(walk.kind), walk.last, walk.seen)
  /\ walk.kind \notin Listed =>
       /\ walk.seen \cup walk.left = WalkedOver(walk.kind)
       /\ walk.last = NULL => walk.left = {}

WalkSound ==
  walk # NULL =>
    /\ walk \in Walks
    /\ walk.kind # "loops" => walk.at \in DOMAIN succ[walk.f]
    /\ walk.kept => ~crashed
    /\ walk.kept => WalkKept

Inv == Cache /\ crashed \in BOOLEAN /\ Answered /\ WalkSound

-----------------------------------------------------------------------------
(* The cache.                                                              *)

LEMMA InitInv == Init => Inv
<1> SUFFICES ASSUME Init
             PROVE  Inv
  OBVIOUS
<1>1. \A f \in Function : succ[f] \in Shapes[f] /\ succ[f] \in Graphs
  BY ShapeFacts DEF Init
<1>2. succ \in [Function -> Graphs]
  BY DEF Init
<1>3. ASSUME NEW f \in Function
      PROVE  0 \in 0..Cardinality(DOMAIN succ[f])
  <2>1. IsFiniteSet(DOMAIN succ[f])
    BY <1>1, GraphFacts
  <2>2. Cardinality(DOMAIN succ[f]) \in Nat
    BY <2>1, FS_CardinalityType
  <2> QED BY <2>2
<1>4. ASSUME NEW f \in Function
      PROVE  depth[f] \in [DOMAIN succ[f] -> 0..Cardinality(DOMAIN succ[f]) \cup {Unknown}]
  <2>1. depth[f] = [b \in DOMAIN succ[f] |-> 0]
    BY DEF Init
  <2> QED BY <2>1, <1>3
<1>5. edits \in 0..MaxEdits
  BY ShapeAssumption DEF Init
<1>6. Typed
  BY <1>1, <1>2, <1>4, <1>5 DEF Init, Typed
<1>7. TreeRight /\ DepthKept
  BY DEF Init, TreeRight, DepthKept
<1>8. crashed \in BOOLEAN /\ Answered /\ WalkSound
  BY DEF Init, Answered, WalkSound
<1> QED BY <1>6, <1>7, <1>8 DEF Inv, Cache

LEMMA DepthsTyped ==
  ASSUME NEW g \in Graphs
  PROVE  Depths(g) \in [DOMAIN g -> 0..Cardinality(DOMAIN g)]
BY LoopFacts DEF Depths

\* UpdateDominators(f) leaves a tree of f, up to date unless f was edited.
LEMMA UpdateKeepsCache ==
  ASSUME Cache, NEW f \in Function, UpdateDominators(f), UNCHANGED <<succ, edits>>
  PROVE  /\ Cache'
         /\ Current' = f /\ f # NULL
         /\ tree' \in Graphs
         /\ f \notin edited' => tree' = succ'[f]
         /\ edited' \subseteq edited
<1> USE DEF Cache
<1>1. CASE Current = f /\ UNCHANGED <<Current, tree, depth, turns, edited>>
  <2>1. Typed' /\ TreeRight' /\ DepthKept'
    BY <1>1 DEF Typed, TreeRight, DepthKept
  <2>2. tree \in Graphs /\ f # NULL
    BY <1>1, NullApart, ShapeFacts DEF Typed
  <2> QED BY <1>1, <2>1, <2>2 DEF TreeRight
<1>2. CASE /\ Current # f
           /\ Current' = f
           /\ tree' = Recalculated(f)
           /\ depth' = [depth EXCEPT ![f] = Analyzed(f)]
           /\ turns' = [turns EXCEPT ![f] = IF @ = 2 THEN 2 ELSE @ + 1]
           /\ edited' = edited \ {f}
  <2>1. succ[f] \in Shapes[f] /\ succ[f] \in Graphs /\ f # NULL
    BY NullApart DEF Typed
  <2>2. tree' = succ[f]
    BY <1>2 DEF Recalculated
  <2>3. turns' \in [Function -> 0..2]
    BY <1>2 DEF Typed
  <2>4. \A b \in DOMAIN succ[f] : LoopDepth(succ[f], b) \in 0..Cardinality(DOMAIN succ[f])
    BY <2>1, LoopFacts
  <2>5. Analyzed(f) \in [DOMAIN succ[f] -> 0..Cardinality(DOMAIN succ[f]) \cup {Unknown}]
    BY <2>4 DEF Analyzed
  <2>6. depth'[f] = Analyzed(f) /\ DOMAIN depth' = Function
    BY <1>2 DEF Typed
  <2>7. \A h \in Function \ {f} : depth'[h] = depth[h] /\ turns'[h] = turns[h]
    BY <1>2 DEF Typed
  <2>8. Typed'
    BY <1>2, <2>1, <2>2, <2>3, <2>5, <2>6, <2>7 DEF Typed
  <2>9. turns'[f] = 1 => turns[f] = 0
    BY <1>2 DEF Typed
  <2>10. turns[f] = 0 => Analyzed(f) = Depths(succ[f])
    BY DEF Analyzed, Depths
  <2>11. DepthKept'
    BY <1>2, <2>6, <2>7, <2>9, <2>10 DEF DepthKept
  <2>12. TreeRight'
    BY <1>2, <2>2 DEF TreeRight
  <2> QED BY <1>2, <2>1, <2>2, <2>8, <2>11, <2>12
<1> QED BY <1>1, <1>2 DEF UpdateDominators

LEMMA CacheStays ==
  ASSUME Cache, UNCHANGED <<succ, edits>>, UNCHANGED <<Current, tree, depth, turns, edited>>
  PROVE  Cache'
BY DEF Cache, Typed, TreeRight, DepthKept

\* A walk goes on unharmed while its function is not edited.
LEMMA WalkUnharmed ==
  ASSUME WalkSound, walk' = walk, UNCHANGED <<succ, crashed>>, edited' \subseteq edited
  PROVE  WalkSound'
<1> SUFFICES ASSUME walk # NULL
             PROVE  WalkSound'
  BY DEF WalkSound
<1>1. \A kind : WalkedOver(kind)' = WalkedOver(kind) /\ Listing(kind)' = Listing(kind)
  BY DEF WalkedOver, Listing
<1>2. WalkKept => WalkKept'
  <2> SUFFICES ASSUME WalkKept
               PROVE  WalkKept'
    OBVIOUS
  <2>1. Listing(walk.kind)' = Listing(walk.kind) /\ WalkedOver(walk.kind)' = WalkedOver(walk.kind)
    BY DEF WalkedOver, Listing
  <2> QED BY <2>1 DEF WalkKept
<1>3. WalkSound' <=> /\ walk \in Walks
                     /\ walk.kind # "loops" => walk.at \in DOMAIN succ[walk.f]
                     /\ walk.kept => ~crashed
                     /\ walk.kept => WalkKept'
  BY DEF WalkSound
<1> QED BY <1>2, <1>3 DEF WalkSound

LEMMA WalkForgotten ==
  ASSUME walk' = NULL
  PROVE  WalkSound'
BY DEF WalkSound

-----------------------------------------------------------------------------
(* The walks.                                                              *)

LEMMA ListsAreSequences ==
  ASSUME NEW g \in Graphs, NEW b
  PROVE  /\ b \in DOMAIN g => g[b] \in Seq(Nat) /\ Predecessors(g, b) \in Seq(Nat)
         /\ Children(g, b) \in Seq(Nat) /\ TopLoops(g) \in Seq(Nat)
<1>1. DOMAIN g \subseteq Nat
  BY GraphFacts
<1>2. \A s \in Seq(DOMAIN g) : s \in Seq(Nat)
  BY <1>1
<1>3. b \in DOMAIN g => g[b] \in Seq(DOMAIN g) /\ Predecessors(g, b) \in Seq(DOMAIN g)
  BY GraphFacts, PredecessorsListed
<1>4. Children(g, b) \in Seq(DOMAIN g) /\ TopLoops(g) \in Seq(DOMAIN g)
  BY ChildrenListed, LoopsListed
<1> QED BY <1>2, <1>3, <1>4

\* A First function begins a walk that has seen what it has passed.
LEMMA FirstKeeps ==
  ASSUME NEW kind \in Listed, NEW f \in Function, NEW b \in Nat \cup {NULL},
         NEW list \in Seq(Nat), NEW kept \in BOOLEAN,
         succ[f] \in Graphs, kind # "loops" => b \in DOMAIN succ[f], ~crashed,
         Starts(kind, f, b, FirstOf(list), {}, kept),
         kept => list = Listing(kind)',
         kept /\ kind = "kids" =>
           f \notin edited' /\ (FirstOf(list) # NULL => b \in Of(succ[f]).reached)
  PROVE  WalkSound'
<1> DEFINE first == FirstOf(list)
           seen == {first} \ {NULL}
           info == IF kind = "loops" THEN succ[f] ELSE NULL
<1>1. first \in Nat \cup {NULL} /\ Along(list, first, seen)
  BY WalkBegins
<1>2. seen \in SUBSET Nat /\ info \in Graphs \cup {NULL} /\ kind \in WalkKinds
  BY <1>1 DEF Listed, WalkKinds
<1>3. /\ walk' = [kind |-> kind, f |-> f, at |-> b, last |-> first, left |-> {},
                 kept |-> kept, seen |-> seen, info |-> info]
      /\ succ' = succ /\ crashed' = crashed
  BY DEF Starts
<1> HIDE DEF first, seen
<1>4. walk' \in Walks
  BY <1>1, <1>2, <1>3 DEF Walks
<1>5. /\ walk'.kind = kind /\ walk'.f = f /\ walk'.at = b /\ walk'.last = first
      /\ walk'.seen = seen /\ walk'.info = info
  BY <1>3
<1>6. walk'.kept <=> kept
  BY <1>3
<1>7. kind # "loops" => walk'.at \in DOMAIN succ'[walk'.f]
  BY <1>3, <1>5
<1>8. kept => WalkKept'
  <2> SUFFICES ASSUME kept
               PROVE  WalkKept'
    OBVIOUS
  <2>1. Along(Listing(kind)', first, seen)
    BY <1>1
  <2>2. kind = "loops" => info = succ'[f]
    BY <1>3
  <2>3. kind = "kids" => f \notin edited' /\ (first # NULL => b \in Of(succ'[f]).reached)
    BY <1>3 DEF first
  <2> HIDE DEF info
  <2> QED BY <1>5, <2>1, <2>2, <2>3 DEF WalkKept
<1> QED BY <1>3, <1>4, <1>5, <1>6, <1>7, <1>8 DEF WalkSound

\* A Next function sees what comes next in the list it goes through.
LEMMA NextKeeps ==
  ASSUME WalkSound, NEW kind \in Listed, NEW list \in Seq(Nat),
         edited' \subseteq edited, GoesOn(kind, NextOf(list, walk.last)),
         walk.kept => list = Listing(kind)
  PROVE  WalkSound'
<1> DEFINE next == NextOf(list, walk.last)
           seen == walk.seen \cup ({next} \ {NULL})
<1>1. /\ walk # NULL /\ walk.last # NULL /\ walk.kind = kind
      /\ walk' = [walk EXCEPT !.last = next, !.seen = seen]
      /\ succ' = succ /\ crashed' = crashed
  BY DEF GoesOn, Walking
<1>2. walk \in Walks /\ (kind # "loops" => walk.at \in DOMAIN succ[walk.f])
  BY <1>1 DEF WalkSound
<1>3. (walk.kept => ~crashed) /\ (walk.kept => WalkKept)
  BY <1>1 DEF WalkSound
<1>4. walk.last \in Nat /\ walk.seen \in SUBSET Nat
  BY <1>1, <1>2 DEF Walks
<1>5. next \in Nat \cup {NULL}
  <2>1. CASE walk.last \in Range(list)
    <3> DEFINE all == Range(list)
    <3>1. PICK k \in 1..Len(list) : list[k] = walk.last
      BY <2>1 DEF Range
    <3>2. Along(list, list[k], all)
      <4>1. \A j \in 1..k : list[j] \in all
        BY DEF Range
      <4> QED BY <4>1, StandsAt
    <3> QED BY <1>4, <3>1, <3>2, WalkGoesOn
  <2>2. CASE walk.last \notin Range(list)
    <3>1. \A j \in DOMAIN list : list[j] # walk.last
      BY <2>2 DEF Range
    <3>2. DOMAIN list = 1..Len(list) /\ Len(list) \in Nat
      OBVIOUS
    <3>3. {i \in 2..Len(list) : \E j \in 1..(i-1) : list[j] = walk.last} = {}
      <4> SUFFICES ASSUME NEW i \in 2..Len(list), NEW j \in 1..(i-1)
                   PROVE  list[j] # walk.last
        OBVIOUS
      <4>1. j \in 1..Len(list)
        BY <3>2
      <4> QED BY <4>1, <3>1, <3>2
    <3>4. next = NULL
      BY <3>3 DEF NextOf
    <3> QED BY <3>4
  <2> QED BY <2>1, <2>2
<1> HIDE DEF next
<1>6. seen \in SUBSET Nat
  BY <1>4, <1>5
<1>7. walk' \in Walks
  BY <1>1, <1>2, <1>5, <1>6 DEF Walks
<1>8. /\ walk'.kind = kind /\ walk'.f = walk.f /\ walk'.at = walk.at /\ walk'.last = next
      /\ walk'.seen = seen /\ walk'.info = walk.info
  BY <1>1, <1>2 DEF Walks
<1>9. walk'.kept <=> walk.kept
  BY <1>1, <1>2 DEF Walks
<1>10. Listing(kind)' = Listing(kind)
  BY <1>1, <1>8 DEF Listing
<1>11. walk.kept => WalkKept'
  <2> SUFFICES ASSUME walk.kept
               PROVE  WalkKept'
    OBVIOUS
  <2>1. Along(list, walk.last, walk.seen)
    BY <1>1, <1>3 DEF WalkKept
  <2>2. Along(Listing(kind)', next, seen)
    BY <1>4, <1>10, <2>1, WalkGoesOn DEF next
  <2>3. kind = "kids" => walk.f \notin edited' /\ walk.at \in Of(succ'[walk.f]).reached
    BY <1>1, <1>3 DEF WalkKept
  <2>4. kind = "loops" => walk.info = succ'[walk.f]
    BY <1>1, <1>3 DEF WalkKept
  <2> HIDE DEF seen
  <2> QED BY <1>8, <2>2, <2>3, <2>4 DEF WalkKept
<1>12. walk'.kept => ~crashed'
  BY <1>1, <1>3, <1>9
<1>13. walk'.kind # "loops" => walk'.at \in DOMAIN succ'[walk'.f]
  BY <1>1, <1>2, <1>8
<1> QED BY <1>7, <1>9, <1>11, <1>12, <1>13 DEF WalkSound

\* A worklist of the blocks of a loop, or of those it is left to.
LEMMA WorklistBegins ==
  ASSUME NEW f \in Function, succ[f] \in Graphs, NEW h \in Headers(succ[f]), ~crashed,
         NEW kind \in {"blocks", "exits"}, NEW left,
         kind = "blocks" => left = LoopOf(succ[f], h),
         kind = "exits" => left = ExitBlocks(succ[f], h),
         Starts(kind, f, h, h, left, TRUE)
  PROVE  WalkSound'
<1> DEFINE g == succ[f]
<1>1. DOMAIN g \subseteq Nat /\ h \in DOMAIN g /\ h \in LoopOf(g, h) /\ LoopOf(g, h) \subseteq DOMAIN g
  BY GraphFacts, LoopFacts
<1>2. ExitBlocks(g, h) \subseteq DOMAIN g
  <2>1. \A b \in LoopOf(g, h) : Range(g[b]) \subseteq DOMAIN g
    BY <1>1, GraphFacts
  <2> QED BY <2>1 DEF ExitBlocks
<1>3. /\ walk' = [kind |-> kind, f |-> f, at |-> h, last |-> h, left |-> left,
                 kept |-> TRUE, seen |-> {h} \ {NULL}, info |-> NULL]
      /\ succ' = succ /\ crashed' = crashed
  BY DEF Starts
<1>4. {h} \ {NULL} = {h} /\ h \in Nat /\ h # NULL /\ left \in SUBSET Nat
  BY <1>1, <1>2, NullApart
<1>5. walk' \in Walks
  BY <1>3, <1>4 DEF Walks, WalkKinds
<1>6. /\ walk'.kind = kind /\ walk'.f = f /\ walk'.at = h /\ walk'.last = h
      /\ walk'.seen = {h} /\ walk'.left = left
  BY <1>3, <1>4
<1>7. WalkKept'
  <2>1. {h} \cup left = WalkedOver(kind)'
    BY <1>1, <1>2, <1>3, <1>6 DEF WalkedOver
  <2> QED BY <2>1, <1>4, <1>6 DEF WalkKept, Listed
<1>8. ~crashed' /\ walk'.at \in DOMAIN succ'[walk'.f]
  BY <1>1, <1>3, <1>6
<1> QED BY <1>5, <1>7, <1>8 DEF WalkSound

\* What is popped has been seen, until nothing is left.
LEMMA PopKeeps ==
  ASSUME WalkSound, worklist_pop
  PROVE  WalkSound'
<1>1. /\ walk # NULL /\ walk.last # NULL /\ walk.kind \in {"blocks", "exits"}
      /\ succ' = succ /\ crashed' = crashed
  BY DEF worklist_pop, Walking
<1>2. walk \in Walks /\ walk.at \in DOMAIN succ[walk.f]
  BY <1>1 DEF WalkSound
<1>3. (walk.kept => ~crashed) /\ (walk.kept => WalkKept)
  BY <1>1 DEF WalkSound
<1>4. walk.left \in SUBSET Nat /\ walk.seen \in SUBSET Nat
  BY <1>2 DEF Walks
<1> DEFINE Popped == /\ walk' \in Walks
                     /\ walk'.kind = walk.kind /\ walk'.f = walk.f /\ walk'.at = walk.at
                     /\ walk'.kept <=> walk.kept
                     /\ walk'.seen \cup walk'.left = walk.seen \cup walk.left
                     /\ walk'.last = NULL => walk'.left = {}
<1>5. Popped
  <2>1. CASE worklist_empty /\ walk' = [walk EXCEPT !.last = NULL]
    <3>1. walk.left = {}
      BY <2>1 DEF worklist_empty
    <3>2. walk' \in Walks
      BY <2>1, <1>2 DEF Walks
    <3>3. /\ walk'.kind = walk.kind /\ walk'.f = walk.f /\ walk'.at = walk.at
          /\ walk'.seen = walk.seen /\ walk'.left = walk.left
      BY <2>1, <1>2 DEF Walks
    <3>4. walk'.kept <=> walk.kept
      BY <2>1, <1>2 DEF Walks
    <3> QED BY <3>1, <3>2, <3>3, <3>4
  <2>2. ASSUME NEW b \in walk.left,
               walk' = [walk EXCEPT !.left = @ \ {b}, !.last = b, !.seen = @ \cup {b}]
        PROVE  Popped
    <3>1. b \in Nat /\ b # NULL
      BY <1>4, NullApart
    <3>2. walk' \in Walks
      BY <2>2, <3>1, <1>2, <1>4 DEF Walks
    <3>3. /\ walk'.kind = walk.kind /\ walk'.f = walk.f /\ walk'.at = walk.at /\ walk'.last = b
          /\ walk'.seen = walk.seen \cup {b} /\ walk'.left = walk.left \ {b}
      BY <2>2, <1>2 DEF Walks
    <3>4. walk'.kept <=> walk.kept
      BY <2>2, <1>2 DEF Walks
    <3>5. (walk.seen \cup {b}) \cup (walk.left \ {b}) = walk.seen \cup walk.left
      OBVIOUS
    <3> QED BY <3>1, <3>2, <3>3, <3>4, <3>5
  <2> QED BY <2>1, <2>2 DEF worklist_pop
<1>6. WalkedOver(walk.kind)' = WalkedOver(walk.kind)
  BY <1>1, <1>5 DEF WalkedOver
<1>7. walk.kept => WalkKept'
  <2> SUFFICES ASSUME walk.kept
               PROVE  WalkKept'
    OBVIOUS
  <2>1. walk.seen \cup walk.left = WalkedOver(walk.kind)
    BY <1>1, <1>3 DEF WalkKept, Listed
  <2> QED BY <2>1, <1>1, <1>5, <1>6 DEF WalkKept, Listed
<1>8. walk'.at \in DOMAIN succ'[walk'.f]
  BY <1>1, <1>2, <1>5
<1>9. walk'.kept => ~crashed'
  BY <1>1, <1>3, <1>5
<1> QED BY <1>5, <1>7, <1>8, <1>9 DEF WalkSound

-----------------------------------------------------------------------------
(* One lemma per step of the pass that uses the library.                   *)

LEMMA TypedFacts ==
  ASSUME Cache, NEW f \in Function
  PROVE  succ[f] \in Shapes[f] /\ succ[f] \in Graphs
BY ShapeFacts DEF Cache, Typed

LEMMA AskKeeps ==
  ASSUME Inv, NEW f \in Function, Ask(f) \/ LLVMGetLoopNestingDepth(f)
  PROVE  Inv'
<1> USE DEF Inv
<1>1. UNCHANGED <<succ, crashed, edits>> /\ WalkStays
  BY DEF Ask, LLVMGetLoopNestingDepth
<1>2. Cache' /\ edited' \subseteq edited /\ Answered'
  <2>1. CASE Ask(f)
    <3>1. UpdateDominators(f) /\ answer' = [of |-> "tree", f |-> f, tree |-> tree']
      BY <2>1 DEF Ask
    <3>2. Cache' /\ Current' = f /\ f # NULL /\ edited' \subseteq edited
      BY <1>1, <3>1, UpdateKeepsCache
    <3> QED BY <3>1, <3>2 DEF Answered
  <2>2. CASE LLVMGetLoopNestingDepth(f)
    <3>1. answer' = [of |-> "LI", f |-> f, depth |-> depth'[f]]
      BY <2>2 DEF LLVMGetLoopNestingDepth
    <3>2. Cache' /\ edited' \subseteq edited
      <4>1. CASE UpdateDominators(f)
        BY <4>1, <1>1, UpdateKeepsCache
      <4>2. CASE UNCHANGED <<Current, tree, depth, turns, edited>>
        BY <4>2, <1>1, CacheStays
      <4> QED BY <2>2, <4>1, <4>2 DEF LLVMGetLoopNestingDepth
    <3> QED BY <3>1, <3>2 DEF Answered
  <2> QED BY <2>1, <2>2
<1>3. WalkSound'
  <2>1. walk' = walk \/ walk' = NULL
    BY <1>1 DEF WalkStays
  <2> QED BY <1>1, <1>2, <2>1, WalkUnharmed, WalkForgotten
<1>4. crashed' \in BOOLEAN
  BY <1>1
<1> QED BY <1>2, <1>3, <1>4

\* The First and Next functions that ask nothing of the cache.
LEMMA NoQuestionKeeps ==
  ASSUME Inv, NoQuestion, UNCHANGED <<succ, crashed, edits>>
  PROVE  Cache' /\ crashed' \in BOOLEAN /\ Answered' /\ edited' \subseteq edited
<1>1. Cache'
  BY CacheStays DEF Inv, NoQuestion
<1>2. Answered' /\ edited' \subseteq edited
  BY DEF Answered, NoQuestion
<1>3. crashed' \in BOOLEAN
  BY DEF Inv
<1> QED BY <1>1, <1>2, <1>3

LEMMA BeginKeeps ==
  ASSUME Inv, ~crashed, NEW f \in Function, Begin(f)
  PROVE  Inv'
<1> USE DEF Inv
<1> DEFINE g == succ[f]
<1>1. g \in Graphs /\ DOMAIN g \subseteq Nat
  BY TypedFacts, GraphFacts
<1>2. CASE LLVMGetFirstLoop(f)
  <2>1. Starts("loops", f, NULL, FirstOf(TopLoops(g)), {}, TRUE) /\ NoQuestion
    BY <1>2 DEF LLVMGetFirstLoop
  <2>2. UNCHANGED <<succ, crashed, edits>> /\ walk'.f = f
    BY <2>1 DEF Starts
  <2>3. TopLoops(g) \in Seq(Nat) /\ TopLoops(g) = Listing("loops")'
    BY <1>1, <2>2, ListsAreSequences DEF Listing
  <2>4. WalkSound'
    BY <1>1, <2>1, <2>3, FirstKeeps DEF Listed
  <2> QED BY <2>1, <2>2, <2>4, NoQuestionKeeps
<1>3. ASSUME NEW b \in DOMAIN g, LLVMGetFirstSuccessor(f, b)
      PROVE  Inv'
  <2>1. Starts("succs", f, b, FirstOf(g[b]), {}, TRUE) /\ NoQuestion
    BY <1>3 DEF LLVMGetFirstSuccessor
  <2>2. UNCHANGED <<succ, crashed, edits>> /\ walk'.f = f /\ walk'.at = b
    BY <2>1 DEF Starts
  <2>3. g[b] \in Seq(Nat) /\ g[b] = Listing("succs")'
    BY <1>1, <2>2, ListsAreSequences DEF Listing
  <2>4. WalkSound'
    BY <1>1, <2>1, <2>3, FirstKeeps DEF Listed
  <2> QED BY <2>1, <2>2, <2>4, NoQuestionKeeps
<1>4. ASSUME NEW b \in DOMAIN g, LLVMGetFirstPredecessor(f, b)
      PROVE  Inv'
  <2>1. Starts("preds", f, b, FirstOf(Predecessors(g, b)), {}, TRUE) /\ NoQuestion
    BY <1>4 DEF LLVMGetFirstPredecessor
  <2>2. UNCHANGED <<succ, crashed, edits>> /\ walk'.f = f /\ walk'.at = b
    BY <2>1 DEF Starts
  <2>3. Predecessors(g, b) \in Seq(Nat) /\ Predecessors(g, b) = Listing("preds")'
    BY <1>1, <2>2, ListsAreSequences DEF Listing
  <2>4. WalkSound'
    BY <1>1, <2>1, <2>3, FirstKeeps DEF Listed
  <2> QED BY <2>1, <2>2, <2>4, NoQuestionKeeps
<1>5. ASSUME NEW b \in DOMAIN g, LLVMFirstDomChild(f, b)
      PROVE  Inv'
  <2>1. /\ UpdateDominators(f) /\ answer' = NULL
        /\ Starts("kids", f, b, FirstOf(Children(tree', b)), {}, f \notin edited')
    BY <1>5 DEF LLVMFirstDomChild
  <2>2. UNCHANGED <<succ, crashed, edits>> /\ walk'.f = f /\ walk'.at = b
    BY <2>1 DEF Starts
  <2>3. Cache' /\ tree' \in Graphs /\ (f \notin edited' => tree' = g)
    BY <2>1, <2>2, UpdateKeepsCache
  <2>4. Children(tree', b) \in Seq(Nat) /\ (f \notin edited' => Children(tree', b) = Listing("kids")')
    BY <2>2, <2>3, ListsAreSequences DEF Listing
  <2>5. f \notin edited' /\ FirstOf(Children(tree', b)) # NULL => b \in Of(g).reached
    <3> SUFFICES ASSUME f \notin edited', FirstOf(Children(tree', b)) # NULL
                 PROVE  b \in Of(g).reached
      OBVIOUS
    <3>1. Children(g, b) # <<>> /\ Children(g, b) \in Seq(DOMAIN g)
      BY <2>3, <1>1, ChildrenListed DEF FirstOf
    <3>2. 1 \in DOMAIN Children(g, b)
      BY <3>1
    <3>3. Children(g, b)[1] \in Under(g, b)
      BY <3>2, <1>1, ChildrenListed DEF Range
    <3> QED BY <3>3 DEF Under
  <2> DEFINE list == Children(tree', b)
             kept == f \notin edited'
  <2>6. PICK l \in Seq(Nat), k \in BOOLEAN : l = list /\ (k <=> kept) /\ k = kept
    BY <2>4
  <2>7. Starts("kids", f, b, FirstOf(l), {}, k)
    BY <2>1, <2>6
  <2>8. (k => l = Listing("kids")') /\ (k => f \notin edited' /\ (FirstOf(l) # NULL => b \in Of(g).reached))
    BY <2>4, <2>5, <2>6
  <2>9. WalkSound'
    BY <1>1, <2>7, <2>8, FirstKeeps DEF Listed
  <2> QED BY <2>1, <2>2, <2>3, <2>9 DEF Answered
<1>6. ASSUME NEW h \in DOMAIN g, LLVMGetBlocksInLoop(f, h) \/ LLVMGetExitBlocks(f, h)
      PROVE  Inv'
  <2>1. h \in Headers(g) /\ NoQuestion
    BY <1>6 DEF LLVMGetBlocksInLoop, LLVMGetExitBlocks
  <2>2. CASE Starts("blocks", f, h, h, LoopOf(g, h), TRUE)
    <3>1. UNCHANGED <<succ, crashed, edits>>
      BY <2>2 DEF Starts
    <3>2. WalkSound'
      BY <1>1, <2>1, <2>2, WorklistBegins
    <3> QED BY <2>1, <3>1, <3>2, NoQuestionKeeps
  <2>3. CASE Starts("exits", f, h, h, ExitBlocks(g, h), TRUE)
    <3>1. UNCHANGED <<succ, crashed, edits>>
      BY <2>3 DEF Starts
    <3>2. WalkSound'
      BY <1>1, <2>1, <2>3, WorklistBegins
    <3> QED BY <2>1, <3>1, <3>2, NoQuestionKeeps
  <2>4. {} \cup LoopOf(g, h) = LoopOf(g, h) /\ {} \cup ExitBlocks(g, h) = ExitBlocks(g, h)
    OBVIOUS
  <2> QED BY <1>6, <2>2, <2>3, <2>4
          DEF LLVMGetBlocksInLoop, LLVMGetExitBlocks, worklist_insert, worklist_create
<1> QED BY <1>2, <1>3, <1>4, <1>5, <1>6 DEF Begin

\* The walk there is, and what it goes through.
LEMMA WalkFacts ==
  ASSUME Inv, walk # NULL
  PROVE  /\ walk \in Walks /\ walk.f \in Function /\ succ[walk.f] \in Graphs
         /\ walk.kind # "loops" => walk.at \in DOMAIN succ[walk.f]
         /\ walk.kept => WalkKept
<1>1. walk \in Walks /\ (walk.kind # "loops" => walk.at \in DOMAIN succ[walk.f])
  BY DEF Inv, WalkSound
<1>2. walk.f \in Function
  BY <1>1 DEF Walks
<1>3. walk.kept => WalkKept
  BY DEF Inv, WalkSound
<1> QED BY <1>1, <1>2, <1>3, TypedFacts DEF Inv

LEMMA ContinueKeeps ==
  ASSUME Inv, Continue
  PROVE  Inv'
<1> DEFINE g == succ[walk.f]
<1>1. WalkSound /\ Cache /\ ~crashed
  BY DEF Inv, Continue
<1>2. CASE LLVMGetNextSuccessor
  <2>1. GoesOn("succs", NextOf(g[walk.at], walk.last)) /\ NoQuestion
    BY <1>2 DEF LLVMGetNextSuccessor
  <2>2. UNCHANGED <<succ, crashed, edits>> /\ walk # NULL /\ walk.kind = "succs"
    BY <2>1 DEF GoesOn, Walking
  <2>3. g[walk.at] \in Seq(Nat) /\ g[walk.at] = Listing("succs")
    BY <2>2, WalkFacts, ListsAreSequences DEF Listing
  <2>4. edited' \subseteq edited
    BY <2>1 DEF NoQuestion
  <2>5. WalkSound'
    BY <1>1, <2>1, <2>3, <2>4, NextKeeps DEF Listed
  <2> QED BY <2>1, <2>2, <2>5, NoQuestionKeeps DEF Inv
<1>3. CASE LLVMGetNextPredecessor
  <2>1. GoesOn("preds", NextOf(Predecessors(g, walk.at), walk.last)) /\ NoQuestion
    BY <1>3 DEF LLVMGetNextPredecessor
  <2>2. UNCHANGED <<succ, crashed, edits>> /\ walk # NULL /\ walk.kind = "preds"
    BY <2>1 DEF GoesOn, Walking
  <2>3. Predecessors(g, walk.at) \in Seq(Nat) /\ Predecessors(g, walk.at) = Listing("preds")
    BY <2>2, WalkFacts, ListsAreSequences DEF Listing
  <2>4. edited' \subseteq edited
    BY <2>1 DEF NoQuestion
  <2>5. WalkSound'
    BY <1>1, <2>1, <2>3, <2>4, NextKeeps DEF Listed
  <2> QED BY <2>1, <2>2, <2>5, NoQuestionKeeps DEF Inv
<1>4. CASE LLVMGetNextLoop
  <2>1. GoesOn("loops", NextOf(TopLoops(walk.info), walk.last)) /\ NoQuestion /\ walk.info # NULL
    BY <1>4 DEF LLVMGetNextLoop
  <2>2. UNCHANGED <<succ, crashed, edits>> /\ walk # NULL /\ walk.kind = "loops"
    BY <2>1 DEF GoesOn, Walking
  <2>3. walk.info \in Graphs
    BY <2>1, <2>2, WalkFacts DEF Walks
  <2>4. TopLoops(walk.info) \in Seq(Nat)
    BY <2>3, ListsAreSequences
  <2>5. walk.kept => TopLoops(walk.info) = Listing("loops")
    BY <2>2, WalkFacts DEF WalkKept, Listing
  <2>6. edited' \subseteq edited
    BY <2>1 DEF NoQuestion
  <2>7. WalkSound'
    BY <1>1, <2>1, <2>4, <2>5, <2>6, NextKeeps DEF Listed
  <2> QED BY <2>1, <2>2, <2>7, NoQuestionKeeps DEF Inv
<1>5. CASE worklist_pop
  <2>1. NoQuestion /\ UNCHANGED <<succ, crashed, edits>>
    BY <1>5 DEF worklist_pop
  <2> QED BY <2>1, <1>1, <1>5, PopKeeps, NoQuestionKeeps DEF Inv
<1>6. CASE LLVMNextDomChild
  <2>1. Walking /\ walk.kind = "kids" /\ UpdateDominators(walk.f) /\ answer' = NULL
    BY <1>6 DEF LLVMNextDomChild
  <2>2. walk # NULL /\ walk.last # NULL /\ walk.f \in Function /\ walk \in Walks
    BY <2>1, WalkFacts DEF Walking
  <2>3. UNCHANGED <<succ, edits>>
    BY <1>6 DEF LLVMNextDomChild, GoesOn
  <2>4. /\ Cache' /\ tree' \in Graphs /\ edited' \subseteq edited
        /\ walk.f \notin edited' => tree' = g
    BY <1>1, <2>1, <2>2, <2>3, UpdateKeepsCache
  <2>5. walk.kept => tree' = g /\ walk.at \in Of(g).reached
    BY <2>1, <2>2, <2>4, WalkFacts DEF WalkKept
  <2>6. CASE walk.at \in Of(tree').reached
    <3>1. GoesOn("kids", NextOf(Children(tree', walk.at), walk.last))
      BY <1>6, <2>6 DEF LLVMNextDomChild
    <3>2. PICK l \in Seq(Nat) : l = Children(tree', walk.at)
      BY <2>4, ListsAreSequences
    <3>3. walk.kept => l = Listing("kids")
      BY <3>2, <2>5 DEF Listing
    <3>4. GoesOn("kids", NextOf(l, walk.last))
      BY <3>1, <3>2
    <3>5. WalkSound'
      BY <1>1, <2>4, <3>3, <3>4, NextKeeps DEF Listed
    <3>6. crashed' = crashed
      BY <3>1 DEF GoesOn
    <3>7. crashed' \in BOOLEAN
      BY <3>6 DEF Inv
    <3> QED BY <2>1, <2>4, <3>5, <3>7 DEF Inv, Answered
  <2>7. CASE walk.at \notin Of(tree').reached
    <3>1. crashed' = TRUE /\ walk' = walk
      BY <1>6, <2>7 DEF LLVMNextDomChild
    <3>2. ~walk.kept
      BY <2>5, <2>7
    <3>3. ~walk'.kept
      BY <3>1, <3>2
    <3>4. walk'.kind # "loops" => walk'.at \in DOMAIN succ'[walk'.f]
      BY <2>2, <2>3, <3>1, WalkFacts
    <3>5. WalkSound'
      BY <2>2, <3>1, <3>3, <3>4 DEF WalkSound
    <3>6. crashed' \in BOOLEAN
      BY <3>1
    <3> QED BY <2>1, <2>4, <3>5, <3>6 DEF Inv, Answered
  <2> QED BY <2>6, <2>7
<1> QED BY <1>2, <1>3, <1>4, <1>5, <1>6 DEF Continue

\* An edit spoils what is known of the function, and of nothing else.
LEMMA EditKeeps ==
  ASSUME Inv, ~crashed, NEW f \in Function, Edit(f)
  PROVE  Inv'
<1> USE DEF Inv
<1>1. PICK g \in Shapes[f] : succ' = [succ EXCEPT ![f] = g]
  BY DEF Edit
<1>2. /\ edited' = edited \cup {f} /\ answer' = NULL
      /\ UNCHANGED <<Current, tree, depth, turns, crashed>>
      /\ edits < MaxEdits /\ edits' = edits + 1
  BY DEF Edit
<1>3. succ[f] \in Shapes[f] /\ g \in Graphs /\ DOMAIN g = DOMAIN succ[f]
  BY <1>1, TypedFacts, ShapeFacts
<1>4. succ'[f] = g /\ \A h \in Function \ {f} : succ'[h] = succ[h]
  BY <1>1 DEF Cache, Typed
<1>5. succ' \in [Function -> Graphs]
  BY <1>1, <1>3 DEF Cache, Typed
<1>6. \A h \in Function : succ'[h] \in Shapes[h] /\ DOMAIN succ'[h] = DOMAIN succ[h]
  BY <1>1, <1>3, <1>4 DEF Cache, Typed
<1>7. edits' \in 0..MaxEdits
  BY <1>2, ShapeAssumption DEF Cache, Typed
<1>8. Typed'
  BY <1>2, <1>5, <1>6, <1>7 DEF Cache, Typed
<1>9. TreeRight' /\ DepthKept'
  BY <1>2, <1>4 DEF Cache, Typed, TreeRight, DepthKept
<1>10. WalkSound'
  <2>1. CASE walk # NULL /\ walk.f = f
    <3>1. walk' = [walk EXCEPT !.kept = FALSE]
      BY <2>1 DEF Edit
    <3>2. walk' \in Walks /\ walk'.kind = walk.kind /\ walk'.at = walk.at /\ walk'.f = walk.f
      BY <2>1, <3>1, WalkFacts DEF Walks
    <3>3. ~walk'.kept
      BY <2>1, <3>1, WalkFacts DEF Walks
    <3>4. walk'.kind # "loops" => walk'.at \in DOMAIN succ'[walk'.f]
      BY <1>6, <2>1, <3>2, WalkFacts
    <3> QED BY <3>2, <3>3, <3>4 DEF WalkSound
  <2>2. CASE walk # NULL /\ walk.f # f
    <3>1. walk' = walk
      BY <2>2 DEF Edit
    <3>2. succ'[walk.f] = succ[walk.f]
      BY <1>4, <2>2, WalkFacts
    <3>3. /\ Listing(walk.kind)' = Listing(walk.kind)
          /\ WalkedOver(walk.kind)' = WalkedOver(walk.kind)
      BY <3>1, <3>2 DEF Listing, WalkedOver
    <3>4. WalkKept => WalkKept'
      BY <1>2, <2>2, <3>1, <3>2, <3>3 DEF WalkKept
    <3>5. walk'.kept => WalkKept'
      BY <3>1, <3>4, <2>2, WalkFacts
    <3>6. ~crashed'
      BY <1>2
    <3>7. walk' \in Walks /\ (walk'.kind # "loops" => walk'.at \in DOMAIN succ'[walk'.f])
      BY <2>2, <3>1, <3>2, WalkFacts
    <3> QED BY <3>5, <3>6, <3>7 DEF WalkSound
  <2>3. CASE walk = NULL
    <3>1. walk' = NULL
      BY <2>3 DEF Edit
    <3> QED BY <3>1, WalkForgotten
  <2> QED BY <2>1, <2>2, <2>3
<1>11. crashed' \in BOOLEAN
  BY <1>2
<1> QED BY <1>2, <1>8, <1>9, <1>10, <1>11 DEF Cache, Answered

LEMMA StutterKeeps ==
  ASSUME Inv, UNCHANGED vars
  PROVE  Inv'
<1> USE DEF vars
<1>1. Cache'
  BY CacheStays DEF Inv
<1>2. crashed' \in BOOLEAN /\ Answered'
  BY DEF Inv, Answered
<1>3. WalkSound'
  BY WalkUnharmed DEF Inv
<1> QED BY <1>1, <1>2, <1>3 DEF Inv

THEOREM Invariance == Spec => []Inv
<1>1. Init => Inv
  BY InitInv
<1>2. Inv /\ [Next]_vars => Inv'
  <2> SUFFICES ASSUME Inv, [Next]_vars
               PROVE  Inv'
    OBVIOUS
  <2>1. ASSUME ~crashed, NEW f \in Function, Ask(f) \/ LLVMGetLoopNestingDepth(f)
        PROVE  Inv'
    BY <2>1, AskKeeps
  <2>2. ASSUME ~crashed, NEW f \in Function, Begin(f)
        PROVE  Inv'
    BY <2>2, BeginKeeps
  <2>3. ASSUME ~crashed, NEW f \in Function, Edit(f)
        PROVE  Inv'
    BY <2>3, EditKeeps
  <2>4. CASE Continue
    BY <2>4, ContinueKeeps
  <2>5. CASE Crashed
    BY <2>5, StutterKeeps DEF Crashed
  <2>6. CASE UNCHANGED vars
    BY <2>6, StutterKeeps
  <2> QED BY <2>1, <2>2, <2>3, <2>4, <2>5, <2>6 DEF Next
<1> QED BY <1>1, <1>2, PTL DEF Spec

-----------------------------------------------------------------------------

\* The one cached tree answers every question about every function from what
\* the function is now, unless the function asked about was edited since it
\* was last asked about after another (UpdateDominators).
THEOREM AnswersFreshAlways == Spec => []AnswersFresh
<1>1. Inv => TypeOK
  <2>1. Inv => Typed
    BY DEF Inv, Cache
  <2>2. Inv => crashed \in BOOLEAN
    BY DEF Inv
  <2> QED BY <2>1, <2>2 DEF Typed, TypeOK
<1>2. ASSUME Inv, answer # NULL, answer.of = "tree", answer.f \notin edited
      PROVE  Agree(answer.tree, succ[answer.f])
  <2>1. answer.tree = succ[answer.f]
    BY <1>2 DEF Inv, Answered, Cache, TreeRight
  <2> QED BY <2>1 DEF Agree
<1>3. Inv => AnswersFresh
  BY <1>1, <1>2 DEF AnswersFresh
<1> QED BY <1>3, Invariance, PTL

\* LI, though never emptied, knows the loops of a function that was analysed
\* into it once and not edited since (LLVMGetLoopNestingDepth).
THEOREM DepthRightAlways == Spec => []DepthRight
<1>1. Inv => DepthRight
  BY DEF Inv, Answered, Cache, DepthKept, DepthRight
<1> QED BY <1>1, Invariance, PTL

\* Every walk of First and Next calls that ends has seen all there is, and
\* dereferences no null node, whatever is asked in between, as long as its
\* function is not edited (the First and Next functions, worklist_pop).
THEOREM WalkCompleteAlways == Spec => []WalkComplete
<1>1. ASSUME Inv, walk # NULL, walk.kept
      PROVE  ~crashed /\ (walk.last = NULL => walk.seen = WalkedOver(walk.kind))
  <2>1. ~crashed /\ WalkKept
    BY <1>1 DEF Inv, WalkSound
  <2>2. /\ walk \in Walks /\ succ[walk.f] \in Graphs
        /\ walk.kind # "loops" => walk.at \in DOMAIN succ[walk.f]
    BY <1>1, WalkFacts
  <2>3. ASSUME walk.last = NULL
        PROVE  walk.seen = WalkedOver(walk.kind)
    <3> DEFINE g == succ[walk.f]
    <3>1. CASE walk.kind \notin Listed
      BY <2>1, <2>3, <3>1 DEF WalkKept
    <3>2. CASE walk.kind \in Listed
      <4>1. walk.seen = Range(Listing(walk.kind))
        BY <2>1, <2>3, <3>2 DEF WalkKept, Along
      <4>2. CASE walk.kind = "succs"
        <5>1. Range(g[walk.at]) \subseteq DOMAIN g
          BY <2>2, <4>2, GraphFacts
        <5> QED BY <4>1, <4>2, <5>1 DEF Listing, WalkedOver
      <4>3. CASE walk.kind = "preds"
        <5>1. Range(Predecessors(g, walk.at)) = {x \in DOMAIN g : walk.at \in Range(g[x])}
          BY <2>2, <4>3, PredecessorsListed
        <5> QED BY <4>1, <4>3, <5>1 DEF Listing, WalkedOver
      <4>4. CASE walk.kind = "kids"
        <5>1. Range(Children(g, walk.at)) = Under(g, walk.at) /\ Under(g, walk.at) \subseteq DOMAIN g
          BY <2>2, ChildrenListed DEF Under
        <5> QED BY <4>1, <4>4, <5>1 DEF Listing, WalkedOver
      <4>5. CASE walk.kind = "loops"
        <5>1. Range(TopLoops(g)) = TopLevel(g) /\ TopLevel(g) \subseteq DOMAIN g
          BY <2>2, LoopsListed, LoopFacts DEF TopLevel
        <5> QED BY <4>1, <4>5, <5>1 DEF Listing, WalkedOver
      <4> QED BY <3>2, <4>2, <4>3, <4>4, <4>5 DEF Listed
    <3> QED BY <3>1, <3>2
  <2> QED BY <2>1, <2>3
<1>2. Inv => WalkComplete
  BY <1>1 DEF WalkComplete
<1> QED BY <1>2, Invariance, PTL
=============================================================================
