------------------------------ MODULE IR_proofs -----------------------------
(***************************************************************************)
(* Facts about the operators of IR and IRSem that the passes' proofs rest  *)
(* on: what rewriting does to a function, what replacing an instruction by *)
(* a value it has does to its runs, and what moving one out of a loop      *)
(* does.                                                                   *)
(***************************************************************************)
EXTENDS IRSem, TLAPS, FiniteSetTheorems, SequenceTheorems

\* "Comes before" is transitive: dominance is, and it has no cycles.
LEMMA BeforeTransitive ==
  ASSUME NEW P, IsProgram(P), NEW x \in Id, NEW y \in Id, NEW z \in Id,
         Before(P, x, y), Before(P, y, z)
  PROVE  Before(P, x, z)
<1> DEFINE D == Dom[P.graph]
<1>1. P.graph \in Graph /\ P.blk[x] \in Block /\ P.blk[y] \in Block
      /\ P.blk[z] \in Block
  BY DEF IsProgram
<1>2. /\ \A a, b \in Block : <<a, b>> \in D /\ <<b, a>> \in D => a = b
      /\ \A a, b, c \in Block : <<a, b>> \in D /\ <<b, c>> \in D => <<a, c>> \in D
  BY <1>1, DomAssumption
<1>3. x \in Int /\ y \in Int /\ z \in Int
  BY SizeAssumption DEF Id
<1>4. CASE P.blk[x] = P.blk[y]
  BY <1>3, <1>4 DEF Before
<1>5. CASE P.blk[x] # P.blk[y]
  <2>1. <<P.blk[x], P.blk[y]>> \in D
    BY <1>5 DEF Before
  <2>2. CASE P.blk[y] = P.blk[z]
    BY <1>5, <2>1, <2>2 DEF Before
  <2>3. CASE P.blk[y] # P.blk[z]
    <3>1. <<P.blk[y], P.blk[z]>> \in D
      BY <2>3 DEF Before
    <3>2. P.blk[x] # P.blk[z]
      BY <1>1, <1>2, <1>5, <2>1, <3>1
    <3>3. <<P.blk[x], P.blk[z]>> \in D
      BY <1>1, <1>2, <2>1, <3>1
    <3> QED BY <3>2, <3>3 DEF Before
  <2> QED BY <2>2, <2>3
<1> QED BY <1>4, <1>5

\* Nothing comes before itself.
LEMMA BeforeIrreflexive ==
  ASSUME NEW P, NEW x \in Id
  PROVE  ~Before(P, x, x)
BY SizeAssumption DEF Before, Id

\* A value that comes before what it replaces may be used where that was.
LEMMA MayUseEarlier ==
  ASSUME NEW P, IsProgram(P), NEW v \in Id, NEW r \in Id, NEW i \in Id,
         NEW s \in Slot,
         Before(P, v, r), P.kind[v] \notin Void, MayUse(P, r, i, s)
  PROVE  MayUse(P, v, i, s)
<1> DEFINE D == Dom[P.graph]
<1>1. CASE P.kind[i] = "phi"
  <2>1. <<P.blk[r], P.from[i][s]>> \in D
    BY <1>1 DEF MayUse
  <2>2. P.graph \in Graph /\ P.blk[v] \in Block /\ P.blk[r] \in Block
        /\ P.from[i][s] \in Block
    BY DEF IsProgram
  <2>3. /\ \A a \in Block : <<a, a>> \in D
        /\ \A a, b, c \in Block : <<a, b>> \in D /\ <<b, c>> \in D => <<a, c>> \in D
    BY <2>2, DomAssumption
  <2>4. <<P.blk[v], P.blk[r]>> \in D
    BY <2>2, <2>3 DEF Before
  <2>5. <<P.blk[v], P.from[i][s]>> \in D
    BY <2>1, <2>2, <2>3, <2>4
  <2> QED BY <1>1, <2>5 DEF MayUse
<1>2. CASE P.kind[i] # "phi"
  BY <1>2, BeforeTransitive DEF MayUse
<1> QED BY <1>1, <1>2

\* replaceAllUsesWith and eraseFromParent keep a function well formed when
\* the value handed out stands for everything it replaces.
LEMMA RewrittenWellFormed ==
  ASSUME NEW P, IsProgram(P), NEW L \in SUBSET Id,
         NEW M \in [Id -> [Slot -> Value]], NEW gone \in SUBSET L, NEW v \in Value,
         UsesWellPlaced(P, M), UsesAlive(L, M), OperandsFilled(P, L, M),
         \A r \in gone : HasUse(M, r) => StandsFor(P, v, r, L \ gone)
  PROVE  /\ Rewritten(M, gone, v) \in [Id -> [Slot -> Value]]
         /\ UsesWellPlaced(P, Rewritten(M, gone, v))
         /\ UsesAlive(L \ gone, Rewritten(M, gone, v))
         /\ OperandsFilled(P, L \ gone, Rewritten(M, gone, v))
<1> DEFINE R == Rewritten(M, gone, v)
<1>1. NoArgs \in [Slot -> Value] /\ \A s \in Slot : NoArgs[s] \notin Id
  BY LeafAssumption DEF NoArgs, Value
<1>2. R \in [Id -> [Slot -> Value]]
  BY <1>1 DEF Rewritten
<1>3. ASSUME NEW i \in Id, NEW s \in Slot, R[i][s] \in Id
      PROVE  /\ MayUse(P, R[i][s], i, s)
             /\ i \in L \ gone
             /\ R[i][s] \in L \ gone
  <2>1. i \notin gone
    BY <1>1, <1>3 DEF Rewritten
  <2>2. R[i][s] = IF M[i][s] \in gone THEN v ELSE M[i][s]
    BY <2>1 DEF Rewritten
  <2>3. CASE M[i][s] \in gone
    <3> DEFINE r == M[i][s]
    <3>1. r \in Id /\ i \in L /\ MayUse(P, r, i, s)
      BY <2>3 DEF UsesAlive, UsesWellPlaced
    <3>2. HasUse(M, r)
      BY DEF HasUse
    <3>3. v \in Id /\ v \notin Leaf
      BY <1>3, <2>2, <2>3, LeafAssumption
    <3>4. v \in L \ gone /\ P.kind[v] \notin Void /\ Before(P, v, r)
      BY <2>3, <3>2, <3>3 DEF StandsFor
    <3>5. MayUse(P, v, i, s)
      BY <3>1, <3>3, <3>4, MayUseEarlier
    <3> QED BY <2>1, <2>2, <2>3, <3>1, <3>4, <3>5
  <2>4. CASE M[i][s] \notin gone
    BY <1>3, <2>1, <2>2, <2>4 DEF UsesAlive, UsesWellPlaced
  <2> QED BY <2>3, <2>4
<1>4. ASSUME NEW i \in L \ gone, NEW s \in Slot, P.args[i][s] # Nil
      PROVE  R[i][s] # Nil
  <2>1. M[i][s] # Nil
    BY <1>4 DEF OperandsFilled
  <2>2. R[i][s] = IF M[i][s] \in gone THEN v ELSE M[i][s]
    BY DEF Rewritten
  <2>3. CASE M[i][s] \in gone
    <3>1. StandsFor(P, v, M[i][s], L \ gone)
      BY <2>3 DEF HasUse
    <3>2. v # Nil
      BY <3>1, LeafAssumption DEF StandsFor
    <3> QED BY <2>2, <2>3, <3>2
  <2> QED BY <2>1, <2>2, <2>3
<1> QED BY <1>2, <1>3, <1>4 DEF UsesWellPlaced, UsesAlive, OperandsFilled

\* A set of instructions with a member past i has a first one past i.
LEMMA NextInFirst ==
  ASSUME NEW L \in SUBSET Id, NEW i \in Int, NEW k \in L, i < k
  PROVE  \E j \in L : i < j /\ \A m \in L : i < m => j <= m
<1> DEFINE T == {j \in L : i < j}
           R == OpToRel(<, Nat)
<1>1. L \subseteq Nat
  BY SizeAssumption DEF Id
<1>2. T \subseteq Nat /\ k \in T
  BY <1>1
<1>3. \E j \in T : \A m \in T : ~(<<m, j>> \in R)
  BY <1>2, NatLessThanWellFounded, WFMin
<1>4. PICK j \in T : \A m \in T : ~(<<m, j>> \in R)
  BY <1>3
<1>5. ASSUME NEW m \in T
      PROVE  j <= m
  <2>1. <<m, j>> \in Nat \X Nat
    BY <1>2
  <2>2. ~(m < j)
    BY <1>4, <2>1 DEF OpToRel
  <2> QED BY <1>2, <2>2
<1> QED BY <1>4, <1>5

\* ++iterator moves forward, onto a live instruction or past the end.
LEMMA NextInAdvances ==
  ASSUME NEW L \in SUBSET Id, NEW i \in 0..N
  PROVE  /\ NextIn(L, i) \in L \cup {N + 1}
         /\ NextIn(L, i) \in 1..N+1
         /\ i < NextIn(L, i)
<1>1. CASE \E j \in L : i < j
  <2>1. \E j \in L : i < j /\ \A m \in L : i < m => j <= m
    BY <1>1, NextInFirst, SizeAssumption
  <2>2. NextIn(L, i) = CHOOSE j \in L : i < j /\ \A m \in L : i < m => j <= m
    BY <1>1 DEF NextIn
  <2>3. NextIn(L, i) \in L /\ i < NextIn(L, i)
    BY <2>1, <2>2
  <2>4. NextIn(L, i) \in 1..N
    BY <2>3 DEF Id
  <2>5. NextIn(L, i) \in 1..N+1
    BY <2>4, SizeAssumption
  <2> QED BY <2>3, <2>5
<1>2. CASE ~\E j \in L : i < j
  <2>1. NextIn(L, i) = N + 1
    BY <1>2 DEF NextIn
  <2> QED BY <2>1, SizeAssumption
<1> QED BY <1>1, <1>2

\* Erasing G out of the live instructions L leaves |L| - |G| of them.
LEMMA ErasedCount ==
  ASSUME NEW L \in SUBSET Id, NEW G \in SUBSET L
  PROVE  /\ Cardinality(L) \in Nat
         /\ Cardinality(G) \in Nat
         /\ Cardinality(L \ G) = Cardinality(L) - Cardinality(G)
<1>1. IsFiniteSet(Id)
  BY FS_Interval, SizeAssumption DEF Id
<1>2. IsFiniteSet(L) /\ IsFiniteSet(G)
  BY <1>1, FS_Subset
<1>3. L \cap G = G
  OBVIOUS
<1> QED BY <1>2, <1>3, FS_Difference, FS_CardinalityType

\* There are N instructions to begin with.
LEMMA IdCount == Cardinality(Id) = N
<1>1. 1 \in Int /\ N \in Int
  BY SizeAssumption
<1>2. Cardinality(1..N) = IF 1 > N THEN 0 ELSE N - 1 + 1
  BY <1>1, FS_Interval
<1> QED BY <1>2, SizeAssumption DEF Id

-----------------------------------------------------------------------------
(* Executions.                                                             *)

\* Induction up to a bound, over a set.
LEMMA BoundedInduction ==
  ASSUME NEW n \in Nat, NEW S, 0 \in S, \A k \in 0..n - 1 : k \in S => k + 1 \in S
  PROVE  \A k \in 0..n : k \in S
<1> DEFINE T == {k \in 0..n : k \notin S}
           R == OpToRel(<, Nat)
<1>1. SUFFICES ASSUME T # {} PROVE FALSE
  OBVIOUS
<1>2. T \subseteq Nat
  OBVIOUS
<1>3. PICK k \in T : \A m \in T : ~(<<m, k>> \in R)
  <2> HIDE DEF T
  <2> QED BY <1>1, <1>2, NatLessThanWellFounded, WFMin
<1>4. k # 0 /\ k - 1 \in 0..n - 1 /\ k - 1 \in 0..n /\ k - 1 < k /\ k - 1 + 1 = k
  OBVIOUS
<1>5. k - 1 \notin T
  <2>1. <<k - 1, k>> \in R
    <3>1. k - 1 \in Nat /\ k \in Nat
      OBVIOUS
    <3> QED BY <1>4, <3>1 DEF OpToRel
  <2> HIDE DEF T, R
  <2> QED BY <1>3, <2>1
<1>6. k - 1 \in S
  BY <1>4, <1>5
<1> QED BY <1>4, <1>6

Event == (Id \X Word \X Word) \cup (Id \X Word \X Word \X Memory)

Machines ==
  [val : [Id -> Word], mem : Memory, seen : Seq(Event), trap : BOOLEAN]

IsBody(body) ==
  /\ body.live \subseteq Id
  /\ body.args \in [Id -> [Slot -> Value]]
  /\ body.home \in [Id -> Block]
  /\ body.order \in [1..N -> Id]

\* The turns of a block follow one another.
LEMMA TurnsAre ==
  ASSUME NEW P, NEW body, NEW env, NEW b, NEW m
  PROVE  LET T == Turns(P, body, env, b, m)
         IN  /\ T[0] = m
             /\ \A n \in 1..N : T[n] = Turn(P, body, env, b, body.order[n], T[n - 1])
<1> DEFINE T == Turns(P, body, env, b, m)
           U(f, n) == IF n = 0 THEN m ELSE Turn(P, body, env, b, body.order[n], f[n - 1])
           S == {k \in 0..N : \E f : f = [n \in 0..k |-> U(f, n)]}
<1>0. N \in Nat
  BY SizeAssumption
<1>1. 0 \in S
  <2> DEFINE f == [n \in 0..0 |-> m]
  <2>1. f = [n \in 0..0 |-> U(f, n)]
    OBVIOUS
  <2>2. \E g : g = [n \in 0..0 |-> U(g, n)]
    <3> HIDE DEF f
    <3> QED BY <2>1
  <2> QED BY <1>0, <2>2
<1>2. ASSUME NEW k \in 0..N - 1, k \in S
      PROVE  k + 1 \in S
  <2>1. PICK f : f = [n \in 0..k |-> U(f, n)]
    BY <1>2
  <2> DEFINE g == [n \in 0..k + 1 |-> IF n <= k THEN f[n] ELSE U(f, n)]
  <2>2. ASSUME NEW n \in 0..k + 1
        PROVE  g[n] = U(g, n)
    <3>1. CASE n = 0
      BY <2>1, <3>1
    <3>2. CASE n # 0
      <4>1. n - 1 \in 0..k /\ n - 1 \in 0..k + 1
        BY <3>2
      <4>2. g[n - 1] = f[n - 1]
        BY <4>1
      <4>3. U(g, n) = U(f, n)
        BY <4>2
      <4>4. CASE n <= k
        <5>1. n \in 0..k
          BY <4>4
        <5>2. f[n] = U(f, n)
          <6> HIDE DEF U
          <6> QED BY <2>1, <5>1
        <5> HIDE DEF U
        <5> QED BY <4>3, <4>4, <5>2
      <4>5. CASE ~(n <= k)
        <5> HIDE DEF U
        <5> QED BY <4>3, <4>5
      <4> QED BY <4>4, <4>5
    <3> QED BY <3>1, <3>2
  <2>3. g = [n \in 0..k + 1 |-> U(g, n)]
    <3> HIDE DEF U
    <3> QED BY <2>2
  <2>4. \E h : h = [n \in 0..k + 1 |-> U(h, n)]
    <3> HIDE DEF g, U
    <3> QED BY <2>3
  <2>5. k + 1 \in 0..N
    BY <1>0
  <2> HIDE DEF g, U
  <2> QED BY <2>4, <2>5
<1>3. N \in S
  <2> HIDE DEF S
  <2> QED BY <1>0, <1>1, <1>2, BoundedInduction
<1>4. T = [n \in 0..N |-> U(T, n)]
  <2>1. PICK F : F = [n \in 0..N |-> U(F, n)]
    BY <1>3
  <2>2. T = CHOOSE f : f = [n \in 0..N |-> U(f, n)]
    BY DEF Turns
  <2> HIDE DEF T, U
  <2> QED BY <2>1, <2>2
<1>5. T[0] = m
  <2>1. 0 \in 0..N
    BY <1>0
  <2> HIDE DEF T
  <2> QED BY <1>4, <2>1
<1>6. ASSUME NEW n \in 1..N
      PROVE  T[n] = Turn(P, body, env, b, body.order[n], T[n - 1])
  <2>1. n \in 0..N /\ n # 0
    BY <1>0
  <2> HIDE DEF T
  <2> QED BY <1>4, <2>1
<1> QED BY <1>5, <1>6

\* So do the blocks of a path.
LEMMA ThroughPathIs ==
  ASSUME NEW P, NEW body, NEW env, NEW path, Len(path) \in Nat
  PROVE  LET T == ThroughPath(P, body, env, path)
         IN  /\ T[0] = Machine(env)
             /\ \A k \in 1..Len(path) :
                  T[k] = ThroughBlock(P, body, env, path, k, T[k - 1])
<1> DEFINE M == Len(path)
           T == ThroughPath(P, body, env, path)
           U(f, n) == IF n = 0 THEN Machine(env)
                      ELSE ThroughBlock(P, body, env, path, n, f[n - 1])
           S == {k \in 0..M : \E f : f = [n \in 0..k |-> U(f, n)]}
<1>0. M \in Nat
  OBVIOUS
<1>1. 0 \in S
  <2> DEFINE f == [n \in 0..0 |-> Machine(env)]
  <2>1. f = [n \in 0..0 |-> U(f, n)]
    OBVIOUS
  <2>2. \E g : g = [n \in 0..0 |-> U(g, n)]
    <3> HIDE DEF f
    <3> QED BY <2>1
  <2> QED BY <1>0, <2>2
<1>2. ASSUME NEW k \in 0..M - 1, k \in S
      PROVE  k + 1 \in S
  <2>1. PICK f : f = [n \in 0..k |-> U(f, n)]
    BY <1>2
  <2> DEFINE g == [n \in 0..k + 1 |-> IF n <= k THEN f[n] ELSE U(f, n)]
  <2>2. ASSUME NEW n \in 0..k + 1
        PROVE  g[n] = U(g, n)
    <3>1. CASE n = 0
      BY <2>1, <3>1
    <3>2. CASE n # 0
      <4>1. n - 1 \in 0..k /\ n - 1 \in 0..k + 1
        BY <3>2
      <4>2. g[n - 1] = f[n - 1]
        BY <4>1
      <4>3. U(g, n) = U(f, n)
        BY <4>2
      <4>4. CASE n <= k
        <5>1. n \in 0..k
          BY <4>4
        <5>2. f[n] = U(f, n)
          <6> HIDE DEF U
          <6> QED BY <2>1, <5>1
        <5> HIDE DEF U
        <5> QED BY <4>3, <4>4, <5>2
      <4>5. CASE ~(n <= k)
        <5> HIDE DEF U
        <5> QED BY <4>3, <4>5
      <4> QED BY <4>4, <4>5
    <3> QED BY <3>1, <3>2
  <2>3. g = [n \in 0..k + 1 |-> U(g, n)]
    <3> HIDE DEF U
    <3> QED BY <2>2
  <2>4. \E h : h = [n \in 0..k + 1 |-> U(h, n)]
    <3> HIDE DEF g, U
    <3> QED BY <2>3
  <2>5. k + 1 \in 0..M
    BY <1>0
  <2> HIDE DEF g, U
  <2> QED BY <2>4, <2>5
<1>3. M \in S
  <2>1. \A k \in 0..M - 1 : k \in S => k + 1 \in S
    <3> HIDE DEF S
    <3> QED BY <1>2
  <2>2. M \in 0..M
    BY <1>0
  <2> HIDE DEF S, M
  <2> QED BY <1>0, <1>1, <2>1, <2>2, BoundedInduction
<1>4. T = [n \in 0..M |-> U(T, n)]
  <2>1. PICK F : F = [n \in 0..M |-> U(F, n)]
    BY <1>3
  <2>2. T = CHOOSE f : f = [n \in 0..M |-> U(f, n)]
    BY DEF ThroughPath
  <2> HIDE DEF T, U
  <2> QED BY <2>1, <2>2
<1>5. T[0] = Machine(env)
  <2>1. 0 \in 0..M
    BY <1>0
  <2> HIDE DEF T
  <2> QED BY <1>4, <2>1
<1>6. ASSUME NEW n \in 1..M
      PROVE  T[n] = ThroughBlock(P, body, env, path, n, T[n - 1])
  <2>1. n \in 0..M /\ n # 0
    BY <1>0
  <2> HIDE DEF T
  <2> QED BY <1>4, <2>1
<1> QED BY <1>5, <1>6

\* What a run is given: a function, what a pass leaves of it (phis stay where
\* they are), an environment and a path.
IsRun(P, body, env, path) ==
  /\ P \in Programs
  /\ IsProgram(P)
  /\ IsBody(body)
  /\ \A i \in Id : P.kind[i] = "phi" => body.home[i] = P.blk[i]
  /\ IsEnv(env)
  /\ path \in Path[P.graph]
  /\ path \in Seq(Block)
  /\ Len(path) \in Nat \ {0}

\* The block a phi of the k-th block takes its value for.
Origin(path, k) == IF k = 1 THEN path[1] ELSE path[k - 1]

\* The machine of a run after n turns in the k-th block, and when it gets there.
PointAt(P, body, env, path, k, n) ==
  Turns(P, body, env, path[k],
        Phis(P, body, ThroughPath(P, body, env, path)[k - 1], env,
             Origin(path, k), path[k]))[n]

Came(P, body, env, path, k) ==
  IF k = 1 THEN Machine(env) ELSE PointAt(P, body, env, path, k - 1, N)

LEMMA CameIs ==
  ASSUME NEW P, NEW body, NEW env, NEW path, Len(path) \in Nat
  PROVE  /\ \A k \in 1..Len(path) :
              ThroughPath(P, body, env, path)[k] = PointAt(P, body, env, path, k, N)
         /\ \A k \in 1..Len(path) :
              ThroughPath(P, body, env, path)[k - 1] = Came(P, body, env, path, k)
<1> DEFINE T == ThroughPath(P, body, env, path)
<1>1. /\ T[0] = Machine(env)
      /\ \A k \in 1..Len(path) : T[k] = ThroughBlock(P, body, env, path, k, T[k - 1])
  BY ThroughPathIs
<1>2. ASSUME NEW k \in 1..Len(path)
      PROVE  T[k] = PointAt(P, body, env, path, k, N)
  BY <1>1 DEF ThroughBlock, PointAt, Origin
<1>3. ASSUME NEW k \in 1..Len(path)
      PROVE  T[k - 1] = Came(P, body, env, path, k)
  <2>1. CASE k = 1
    BY <1>1, <2>1 DEF Came
  <2>2. CASE k # 1
    <3>1. k - 1 \in 1..Len(path)
      BY <2>2
    <3> HIDE DEF T
    <3> QED BY <1>2, <2>2, <3>1 DEF Came
  <2> QED BY <2>1, <2>2
<1> QED BY <1>2, <1>3

\* A run is entered, takes its turns, goes on to the next block, and ends.
LEMMA EntryIs ==
  ASSUME NEW P, NEW body, NEW env, NEW path, Len(path) \in Nat, NEW k \in 1..Len(path)
  PROVE  PointAt(P, body, env, path, k, 0) =
           Phis(P, body, Came(P, body, env, path, k), env, Origin(path, k), path[k])
<1>1. ThroughPath(P, body, env, path)[k - 1] = Came(P, body, env, path, k)
  BY CameIs
<1> QED BY <1>1, TurnsAre DEF PointAt

LEMMA TurnIs ==
  ASSUME NEW P, NEW body, NEW env, NEW path, Len(path) \in Nat, NEW k \in 1..Len(path),
         NEW n \in 1..N
  PROVE  PointAt(P, body, env, path, k, n) =
           Turn(P, body, env, path[k], body.order[n], PointAt(P, body, env, path, k, n - 1))
BY TurnsAre DEF PointAt

LEMMA RunIs ==
  ASSUME NEW P, NEW body, NEW env, NEW path, Len(path) \in Nat, Len(path) # 0
  PROVE  Run(P, body, env, path) = PointAt(P, body, env, path, Len(path), N)
<1>1. Len(path) \in 1..Len(path)
  OBVIOUS
<1> QED BY <1>1, CameIs DEF Run

\* Induction along a run.
LEMMA RunInduction ==
  ASSUME NEW L \in Nat \ {0}, NEW S, <<1, 0>> \in S,
         \A k \in 1..L, n \in 1..N : <<k, n - 1>> \in S => <<k, n>> \in S,
         \A k \in 2..L : <<k - 1, N>> \in S => <<k, 0>> \in S
  PROVE  \A k \in 1..L, n \in 0..N : <<k, n>> \in S
<1> DEFINE B(k) == {n \in 0..N : <<k, n>> \in S}
           W == {k \in 0..L : k = 0 \/ \A n \in 0..N : <<k, n>> \in S}
<1>0. N \in Nat /\ L \in Nat /\ L # 0
  BY SizeAssumption
<1> HIDE DEF B, W
<1>1. ASSUME NEW k \in 1..L, <<k, 0>> \in S
      PROVE  \A n \in 0..N : <<k, n>> \in S
  <2>1. 0 \in B(k)
    BY <1>0, <1>1 DEF B
  <2>2. \A n \in 0..N - 1 : n \in B(k) => n + 1 \in B(k)
    <3> SUFFICES ASSUME NEW n \in 0..N - 1, n \in B(k) PROVE n + 1 \in B(k)
      OBVIOUS
    <3>1. n + 1 \in 1..N /\ n + 1 \in 0..N /\ (n + 1) - 1 = n
      BY ONLY <1>0, n \in 0..N - 1
    <3>2. <<k, n>> \in S
      BY DEF B
    <3>3. <<k, n + 1>> \in S
      BY <3>1, <3>2
    <3> QED BY <3>1, <3>3 DEF B
  <2>3. \A n \in 0..N : n \in B(k)
    BY <1>0, <2>1, <2>2, BoundedInduction
  <2> QED BY <2>3 DEF B
<1>2. 0 \in W
  <2>1. 0 \in 0..L
    BY ONLY <1>0
  <2> QED BY <2>1 DEF W
<1>3. \A k \in 0..L - 1 : k \in W => k + 1 \in W
  <2> SUFFICES ASSUME NEW k \in 0..L - 1, k \in W PROVE k + 1 \in W
    OBVIOUS
  <2>1. k + 1 \in 1..L /\ k + 1 \in 0..L
    BY ONLY <1>0, k \in 0..L - 1
  <2>2. <<k + 1, 0>> \in S
    <3>1. CASE k = 0
      <4>1. k + 1 = 1
        BY ONLY <3>1
      <4> QED BY <4>1
    <3>2. CASE k # 0
      <4>1. k + 1 \in 2..L /\ (k + 1) - 1 = k
        BY ONLY <1>0, <3>2, k \in 0..L - 1
      <4>2. N \in 0..N
        BY ONLY <1>0
      <4>3. <<k, N>> \in S
        BY <3>2, <4>2 DEF W
      <4> QED BY <4>1, <4>3
    <3> QED BY <3>1, <3>2
  <2>3. \A n \in 0..N : <<k + 1, n>> \in S
    BY <1>1, <2>1, <2>2
  <2> QED BY <2>1, <2>3 DEF W
<1>4. \A k \in 0..L : k \in W
  BY <1>0, <1>2, <1>3, BoundedInduction
<1>5. ASSUME NEW k \in 1..L
      PROVE  \A n \in 0..N : <<k, n>> \in S
  <2>1. k \in 0..L /\ k # 0
    BY ONLY <1>0, k \in 1..L
  <2> QED BY <1>4, <2>1 DEF W
<1> QED BY <1>5

LEMMA EffectType ==
  ASSUME NEW k \in Kind, NEW m \in Machines, NEW env, IsEnv(env), NEW i \in Id,
         NEW x \in Word, NEW y \in Word
  PROVE  Effect(k, m, env, i, x, y) \in Machines
<1>1. /\ m.val \in [Id -> Word] /\ m.mem \in Memory /\ m.seen \in Seq(Event)
      /\ m.trap \in BOOLEAN
  BY DEF Machines
<1>2. CASE Traps(k, x, y)
  BY <1>2, <1>1 DEF Effect, Machines
<1>3. CASE ~Traps(k, x, y)
  <2>1. Result(k, m, env, i, x, y) \in Word
    <3>1. k \in Reads => m.mem[x] \in Word
      BY <1>1, <1>3 DEF Traps, Memory
    <3>2. env.frame[i] \in Word
      BY DEF IsEnv
    <3>3. Returns[x][m.mem] \in Word
      BY <1>1, WordAssumption
    <3>4. k \in Computed => Compute[k][x][y] \in Word
      BY WordAssumption
    <3>5. m.val[i] \in Word
      BY <1>1
    <3> QED BY <3>1, <3>2, <3>3, <3>4, <3>5 DEF Result
  <2>2. MemoryAfter(k, m, env, x, y) \in Memory
    <3>1. CASE k \in Stores
      BY <1>1, <3>1 DEF MemoryAfter, Memory
    <3>2. CASE k = "rmw"
      <4>1. x \in Cell /\ m.mem[x] \in Word
        BY <1>1, <1>3, <3>2 DEF Traps, Memory, Reads
      <4>2. Compute["rmw"][m.mem[x]][y] \in Word
        BY <4>1, WordAssumption DEF Computed
      <4> QED BY <1>1, <3>2, <4>2 DEF MemoryAfter, Memory, Stores
    <3>3. CASE k = "call" /\ env.clobbers
      <4>1. Clobbered[x][m.mem] \in Memory
        BY <1>1, WordAssumption
      <4> QED BY <3>3, <4>1 DEF MemoryAfter, Stores
    <3>4. CASE k \notin Stores /\ k # "rmw" /\ ~(k = "call" /\ env.clobbers)
      BY <1>1, <3>4 DEF MemoryAfter
    <3> QED BY <3>1, <3>2, <3>3, <3>4
  <2>3. SeenAfter(k, m, i, x, y) \in Seq(Event)
    <3>1. <<i, x, y>> \in Event /\ <<i, x, y, m.mem>> \in Event
      BY <1>1 DEF Event
    <3> HIDE DEF Event
    <3>2. Append(m.seen, <<i, x, y>>) \in Seq(Event)
      BY <1>1, <3>1, AppendProperties
    <3>3. Append(m.seen, <<i, x, y, m.mem>>) \in Seq(Event)
      BY <1>1, <3>1, AppendProperties
    <3> QED BY <1>1, <3>2, <3>3 DEF SeenAfter
  <2>4. [m.val EXCEPT ![i] = Result(k, m, env, i, x, y)] \in [Id -> Word]
    BY <1>1, <2>1
  <2> QED BY <1>3, <2>2, <2>3, <2>4 DEF Effect, Machines
<1> QED BY <1>2, <1>3

LEMMA ValueType ==
  ASSUME NEW m \in Machines, NEW env, IsEnv(env), NEW v \in Value
  PROVE  ValueOf(m, env, v) \in Word
BY DEF Machines, IsEnv, ValueOf, Value

LEMMA TurnType ==
  ASSUME NEW P, IsProgram(P), NEW body, IsBody(body), NEW env, IsEnv(env),
         NEW b, NEW i \in Id, NEW m \in Machines
  PROVE  Turn(P, body, env, b, i, m) \in Machines
<1>1. body.args[i][1] \in Value /\ body.args[i][2] \in Value /\ P.kind[i] \in Kind
  BY DEF IsBody, IsProgram, Slot
<1> QED BY <1>1, ValueType, EffectType DEF Turn

\* A phi has an operand for the block the path comes from.
LEMMA IncomingIs ==
  ASSUME NEW P, NEW body, NEW env, NEW path, IsRun(P, body, env, path),
         NEW k \in 1..Len(path), NEW i \in Id, body.home[i] = path[k],
         P.kind[i] = "phi"
  PROVE  /\ k > 1
         /\ Incoming(P, i, path[k - 1]) \in Slot
         /\ P.from[i][Incoming(P, i, path[k - 1])] = path[k - 1]
<1>1. k > 1 /\ \E s \in Slot : P.from[i][s] = path[k - 1]
  BY PhiAssumption DEF IsRun
<1> QED BY <1>1 DEF Incoming

LEMMA PhisType ==
  ASSUME NEW P, NEW body, NEW env, NEW path, IsRun(P, body, env, path),
         NEW k \in 1..Len(path), NEW m \in Machines
  PROVE  Phis(P, body, m, env, Origin(path, k), path[k]) \in Machines
<1> DEFINE F == Origin(path, k)
           V == [i \in Id |->
                  IF i \in body.live /\ body.home[i] = path[k] /\ P.kind[i] = "phi"
                  THEN ValueOf(m, env, body.args[i][Incoming(P, i, F)])
                  ELSE m.val[i]]
<1>1. ASSUME NEW i \in Id
      PROVE  V[i] \in Word
  <2>1. CASE body.home[i] = path[k] /\ P.kind[i] = "phi"
    <3>1. F = path[k - 1] /\ Incoming(P, i, F) \in Slot
      BY <2>1, IncomingIs DEF Origin
    <3>2. body.args[i][Incoming(P, i, F)] \in Value
      BY <3>1 DEF IsRun, IsBody
    <3>3. ValueOf(m, env, body.args[i][Incoming(P, i, F)]) \in Word
      BY <3>2, ValueType DEF IsRun
    <3> QED BY <2>1, <3>3 DEF Machines
  <2>2. CASE ~(body.home[i] = path[k] /\ P.kind[i] = "phi")
    BY <2>2 DEF Machines
  <2> QED BY <2>1, <2>2
<1>2. V \in [Id -> Word]
  BY <1>1
<1>3. Phis(P, body, m, env, F, path[k]) = [m EXCEPT !.val = V]
  BY DEF Phis
<1> HIDE DEF V, F
<1> QED BY <1>2, <1>3 DEF Machines, F

LEMMA MachineType ==
  ASSUME NEW env, IsEnv(env)
  PROVE  Machine(env) \in Machines
<1>1. <<>> \in Seq(Event)
  BY EmptySeq
<1> HIDE DEF Event
<1> QED BY <1>1, WordAssumption DEF Machine, Machines, IsEnv

\* All machines of a run are machines.
LEMMA RunType ==
  ASSUME NEW P, NEW body, NEW env, NEW path, IsRun(P, body, env, path)
  PROVE  /\ \A k \in 1..Len(path), n \in 0..N : PointAt(P, body, env, path, k, n) \in Machines
         /\ \A k \in 1..Len(path) : Came(P, body, env, path, k) \in Machines
<1> DEFINE L == Len(path)
           S == {p \in (1..L) \X (0..N) : PointAt(P, body, env, path, p[1], p[2]) \in Machines}
<1>0. N \in Nat /\ L \in Nat \ {0} /\ L \in Nat
      /\ IsProgram(P) /\ IsBody(body) /\ IsEnv(env)
      /\ body.order \in [1..N -> Id]
  BY SizeAssumption DEF IsRun, IsBody
<1>2. <<1, 0>> \in S
  <2>1. 1 \in 1..L /\ 0 \in 0..N
    BY <1>0
  <2>2. Came(P, body, env, path, 1) \in Machines
    BY <1>0, MachineType DEF Came
  <2>3. PointAt(P, body, env, path, 1, 0) \in Machines
    BY <1>0, <2>1, <2>2, EntryIs, PhisType
  <2> QED BY <2>1, <2>3
<1>3. ASSUME NEW k \in 1..L, NEW n \in 1..N, <<k, n - 1>> \in S
      PROVE  <<k, n>> \in S
  <2>1. PointAt(P, body, env, path, k, n - 1) \in Machines /\ n \in 0..N
    BY <1>0, <1>3
  <2>2. PointAt(P, body, env, path, k, n) \in Machines
    BY <1>0, <2>1, TurnIs, TurnType
  <2> QED BY <2>1, <2>2
<1>4. ASSUME NEW k \in 2..L, <<k - 1, N>> \in S
      PROVE  <<k, 0>> \in S
  <2>1. k \in 1..L /\ 0 \in 0..N
    BY <1>0
  <2>2. Came(P, body, env, path, k) \in Machines
    BY <1>4 DEF Came
  <2>3. PointAt(P, body, env, path, k, 0) \in Machines
    BY <1>0, <2>1, <2>2, EntryIs, PhisType
  <2> QED BY <2>1, <2>3
<1>5. \A k \in 1..L, n \in 0..N : <<k, n>> \in S
  <2> HIDE DEF S, L
  <2> QED BY <1>0, <1>2, <1>3, <1>4, RunInduction
<1>6. ASSUME NEW k \in 1..L
      PROVE  Came(P, body, env, path, k) \in Machines
  <2>1. CASE k = 1
    BY <1>0, <2>1, MachineType DEF Came
  <2>2. CASE k # 1
    <3>1. k - 1 \in 1..L /\ N \in 0..N
      BY <1>0, <2>2
    <3> QED BY <1>5, <2>2, <3>1 DEF Came
  <2> QED BY <2>1, <2>2
<1> QED BY <1>5, <1>6

\* m2 shows what m shows, and the instructions of V have the same values; m
\* may have trapped, and then m2 may be anything.
Agree(V, m, m2) ==
  m.trap \/ /\ ~m2.trap
            /\ m2.mem = m.mem
            /\ m2.seen = m.seen
            /\ \A i \in V : m2.val[i] = m.val[i]

Silent == Kind \ (Stores \cup {"rmw"} \cup Observed)

\* Instruction i does the same in both.
LEMMA AgreeEffect ==
  ASSUME NEW k \in Kind, NEW m \in Machines, NEW m2 \in Machines, NEW env, NEW V,
         V \subseteq Id, Agree(V, m, m2), ~m.trap, NEW i \in V, NEW x, NEW y
  PROVE  Agree(V, Effect(k, m, env, i, x, y), Effect(k, m2, env, i, x, y))
<1>1. /\ m2.mem = m.mem /\ m2.seen = m.seen /\ i \in Id
      /\ m.val \in [Id -> Word] /\ m2.val \in [Id -> Word]
      /\ \A j \in V : m2.val[j] = m.val[j]
  BY DEF Agree, Machines
<1>2. CASE Traps(k, x, y)
  <2>1. [m EXCEPT !.trap = TRUE].trap
    BY DEF Machines
  <2> QED BY <1>2, <2>1 DEF Agree, Effect
<1>3. CASE ~Traps(k, x, y)
  <2>1. Result(k, m, env, i, x, y) = Result(k, m2, env, i, x, y)
    BY <1>1 DEF Result
  <2>2. MemoryAfter(k, m, env, x, y) = MemoryAfter(k, m2, env, x, y)
    BY <1>1 DEF MemoryAfter
  <2>3. SeenAfter(k, m, i, x, y) = SeenAfter(k, m2, i, x, y)
    BY <1>1 DEF SeenAfter
  <2> QED BY <1>1, <1>3, <2>1, <2>2, <2>3 DEF Agree, Effect
<1> QED BY <1>2, <1>3

\* An instruction that only the first runs, and that only yields a value.
LEMMA AgreeSkip ==
  ASSUME NEW k \in Silent, NEW m \in Machines, NEW m2 \in Machines, NEW env, NEW V,
         V \subseteq Id, Agree(V, m, m2), ~m.trap, NEW i \in Id \ V, NEW x, NEW y
  PROVE  Agree(V, Effect(k, m, env, i, x, y), m2)
<1>1. /\ m2.mem = m.mem /\ m2.seen = m.seen /\ ~m2.trap
      /\ m.val \in [Id -> Word]
      /\ \A j \in V : m2.val[j] = m.val[j]
  BY DEF Agree, Machines
<1>2. CASE Traps(k, x, y)
  <2>1. [m EXCEPT !.trap = TRUE].trap
    BY DEF Machines
  <2> QED BY <1>2, <2>1 DEF Agree, Effect
<1>3. CASE ~Traps(k, x, y)
  <2>1. MemoryAfter(k, m, env, x, y) = m.mem /\ SeenAfter(k, m, i, x, y) = m.seen
    BY DEF MemoryAfter, SeenAfter, Silent, Observed
  <2> QED BY <1>1, <1>3, <2>1 DEF Agree, Effect
<1> QED BY <1>2, <1>3

\* One turn: instruction i is in both with the same operands, in neither, or
\* only in the first, where it is silent.
LEMMA AgreeTurn ==
  ASSUME NEW P, IsProgram(P), NEW c, IsBody(c), NEW d, IsBody(d),
         NEW env, NEW b, NEW m \in Machines, NEW m2 \in Machines,
         NEW V, V \subseteq Id, Agree(V, m, m2), NEW i \in Id,
         i \in V => /\ i \in c.live <=> i \in d.live
                    /\ c.home[i] = d.home[i]
                    /\ ~m.trap /\ i \in c.live =>
                         \A s \in Slot : ValueOf(m, env, c.args[i][s])
                                       = ValueOf(m2, env, d.args[i][s]),
         i \notin V => i \notin d.live /\ P.kind[i] \in Silent
  PROVE  Agree(V, Turn(P, c, env, b, i, m), Turn(P, d, env, b, i, m2))
<1>0. P.kind[i] \in Kind /\ 1 \in Slot /\ 2 \in Slot
  BY DEF IsProgram, Slot
<1>1. CASE m.trap
  BY <1>1 DEF Agree, Turn
<1>2. CASE ~m.trap /\ i \in V
  <2>1. ~m2.trap
    BY <1>2 DEF Agree
  <2>2. CASE i \in c.live /\ c.home[i] = b /\ P.kind[i] # "phi"
    BY <1>0, <1>2, <2>1, <2>2, AgreeEffect DEF Turn
  <2>3. CASE ~(i \in c.live /\ c.home[i] = b /\ P.kind[i] # "phi")
    BY <1>2, <2>3 DEF Turn
  <2> QED BY <2>2, <2>3
<1>3. CASE ~m.trap /\ i \notin V
  BY <1>3, AgreeSkip DEF Turn
<1> QED BY <1>1, <1>2, <1>3

\* The phis of a block.
LEMMA AgreePhis ==
  ASSUME NEW P, NEW c, NEW d, NEW env, NEW b, NEW from,
         NEW m \in Machines, NEW m2 \in Machines,
         NEW V, V \subseteq Id, Agree(V, m, m2),
         \A i \in V : /\ i \in c.live <=> i \in d.live
                      /\ c.home[i] = d.home[i]
                      /\ ~m.trap /\ i \in c.live /\ c.home[i] = b /\ P.kind[i] = "phi" =>
                           ValueOf(m, env, c.args[i][Incoming(P, i, from)])
                         = ValueOf(m2, env, d.args[i][Incoming(P, i, from)])
  PROVE  Agree(V, Phis(P, c, m, env, from, b), Phis(P, d, m2, env, from, b))
<1> DEFINE X == Phis(P, c, m, env, from, b)
           Y == Phis(P, d, m2, env, from, b)
<1>1. /\ X.mem = m.mem /\ X.seen = m.seen /\ X.trap = m.trap
      /\ Y.mem = m2.mem /\ Y.seen = m2.seen /\ Y.trap = m2.trap
  BY DEF Phis, Machines
<1>2. /\ X.val = [i \in Id |->
                   IF i \in c.live /\ c.home[i] = b /\ P.kind[i] = "phi"
                   THEN ValueOf(m, env, c.args[i][Incoming(P, i, from)])
                   ELSE m.val[i]]
      /\ Y.val = [i \in Id |->
                   IF i \in d.live /\ d.home[i] = b /\ P.kind[i] = "phi"
                   THEN ValueOf(m2, env, d.args[i][Incoming(P, i, from)])
                   ELSE m2.val[i]]
  BY DEF Phis, Machines
<1> SUFFICES Agree(V, X, Y)
  OBVIOUS
<1> HIDE DEF X, Y
<1>3. CASE m.trap
  BY <1>1, <1>3 DEF Agree
<1>4. CASE ~m.trap
  <2>1. ASSUME NEW i \in V
        PROVE  Y.val[i] = X.val[i]
    BY <1>2, <1>4 DEF Agree
  <2> QED BY <1>1, <1>4, <2>1 DEF Agree
<1> QED BY <1>3, <1>4

\* What agrees at the end of every path is the same behaviour.
LEMMA AgreeBehaviour ==
  ASSUME NEW P, NEW c, NEW E, NEW V,
         \A env \in E, path \in Path[P.graph] :
           Agree(V, Run(P, Parsed(P), env, path), Run(P, c, env, path))
  PROVE  SameBehaviour(P, c, E)
BY DEF SameBehaviour, Agree

LEMMA ParsedIsBody ==
  ASSUME NEW P, IsProgram(P)
  PROVE  IsBody(Parsed(P))
BY DEF IsBody, Parsed, Body, IsProgram, Id

-----------------------------------------------------------------------------
(* Where a value is available, it stays what it was.                       *)

\* A body whose instructions are where the function had them.
InPlace(P, body) == body.home = P.blk /\ body.order = [i \in Id |-> i]

\* After n turns in block b, r has run, and so has everything before it.
Available(P, r, b, n) ==
  IF P.blk[r] = b THEN P.kind[r] = "phi" \/ r <= n
                  ELSE <<P.blk[r], b>> \in Dom[P.graph]

\* Nothing before r runs from where r has run to where it runs again.
SettledBy(P, x, r) ==
  \/ x = r
  \/ /\ Before(P, x, r)
     /\ P.kind[r] = "phi" => P.blk[x] # P.blk[r] \/ P.kind[x] = "phi"

LEMMA RunFacts ==
  ASSUME NEW P, NEW body, NEW env, NEW path, IsRun(P, body, env, path)
  PROVE  /\ IsProgram(P) /\ IsBody(body) /\ IsEnv(env)
         /\ P.graph \in Graph /\ P.blk \in [Id -> Block] /\ P.kind \in [Id -> Kind]
         /\ path \in Path[P.graph] /\ path \in Seq(Block)
         /\ Len(path) \in Nat /\ Len(path) # 0
         /\ \A k \in 1..Len(path) : path[k] \in Block
         /\ N \in Nat
BY SizeAssumption, ElementOfSeq DEF IsRun, IsProgram

\* The n-th turn, when instruction n is there to run.
LEMMA Executed ==
  ASSUME NEW P, NEW body, NEW env, NEW path, IsRun(P, body, env, path),
         InPlace(P, body), NEW k \in 1..Len(path), NEW n \in Id,
         ~PointAt(P, body, env, path, k, n - 1).trap,
         n \in body.live, P.blk[n] = path[k], P.kind[n] # "phi"
  PROVE  PointAt(P, body, env, path, k, n) =
           Effect(P.kind[n], PointAt(P, body, env, path, k, n - 1), env, n,
                  ValueOf(PointAt(P, body, env, path, k, n - 1), env, body.args[n][1]),
                  ValueOf(PointAt(P, body, env, path, k, n - 1), env, body.args[n][2]))
<1>1. Len(path) \in Nat /\ n \in 1..N /\ body.order[n] = n /\ body.home[n] = path[k]
  BY RunFacts DEF InPlace, Id
<1>2. PointAt(P, body, env, path, k, n) =
        Turn(P, body, env, path[k], n, PointAt(P, body, env, path, k, n - 1))
  BY <1>1, TurnIs
<1> QED BY <1>1, <1>2 DEF Turn

\* ... and when it is not.
LEMMA Unexecuted ==
  ASSUME NEW P, NEW body, NEW env, NEW path, IsRun(P, body, env, path),
         InPlace(P, body), NEW k \in 1..Len(path), NEW n \in Id,
         \/ PointAt(P, body, env, path, k, n - 1).trap
         \/ ~(n \in body.live /\ P.blk[n] = path[k] /\ P.kind[n] # "phi")
  PROVE  PointAt(P, body, env, path, k, n) = PointAt(P, body, env, path, k, n - 1)
<1>1. Len(path) \in Nat /\ n \in 1..N /\ body.order[n] = n /\ body.home[n] = P.blk[n]
  BY RunFacts DEF InPlace, Id
<1>2. PointAt(P, body, env, path, k, n) =
        Turn(P, body, env, path[k], n, PointAt(P, body, env, path, k, n - 1))
  BY <1>1, TurnIs
<1> QED BY <1>1, <1>2 DEF Turn

\* A turn changes the value of one instruction at most, and never ends a trap.
LEMMA OneChanges ==
  ASSUME NEW P, NEW body, NEW env, NEW path, IsRun(P, body, env, path),
         InPlace(P, body), NEW k \in 1..Len(path), NEW n \in Id,
         NEW x \in Id, ~(x = n /\ P.blk[n] = path[k] /\ P.kind[n] # "phi")
  PROVE  /\ PointAt(P, body, env, path, k, n - 1).trap => PointAt(P, body, env, path, k, n).trap
         /\ ~PointAt(P, body, env, path, k, n).trap =>
              PointAt(P, body, env, path, k, n).val[x] = PointAt(P, body, env, path, k, n - 1).val[x]
<1> DEFINE m == PointAt(P, body, env, path, k, n - 1)
<1>1. n - 1 \in 0..N
  BY SizeAssumption DEF Id
<1>2. m \in Machines
  BY <1>1, RunType
<1> HIDE DEF m
<1>3. CASE ~m.trap /\ n \in body.live /\ P.blk[n] = path[k] /\ P.kind[n] # "phi"
  <2>1. PICK y, z : PointAt(P, body, env, path, k, n) = Effect(P.kind[n], m, env, n, y, z)
    BY <1>3, Executed DEF m
  <2>2. x # n
    BY <1>3
  <2>3. ~Traps(P.kind[n], y, z) =>
          Effect(P.kind[n], m, env, n, y, z).val[x] = m.val[x]
    BY <1>2, <2>2 DEF Effect, Machines
  <2>4. Traps(P.kind[n], y, z) => Effect(P.kind[n], m, env, n, y, z).trap
    BY <1>2 DEF Effect, Machines
  <2> QED BY <1>3, <2>1, <2>3, <2>4 DEF m
<1>4. CASE ~(~m.trap /\ n \in body.live /\ P.blk[n] = path[k] /\ P.kind[n] # "phi")
  BY <1>4, Unexecuted DEF m
<1> QED BY <1>3, <1>4 DEF m

\* What has settled does not change in a turn.
LEMMA SettledTurn ==
  ASSUME NEW P, NEW body, NEW env, NEW path, IsRun(P, body, env, path),
         InPlace(P, body), NEW k \in 1..Len(path), NEW n \in Id,
         NEW r \in Id, NEW x \in Id, SettledBy(P, x, r), Available(P, r, path[k], n - 1)
  PROVE  /\ PointAt(P, body, env, path, k, n - 1).trap => PointAt(P, body, env, path, k, n).trap
         /\ ~PointAt(P, body, env, path, k, n).trap =>
              PointAt(P, body, env, path, k, n).val[x] = PointAt(P, body, env, path, k, n - 1).val[x]
<1>1. ~(x = n /\ P.blk[n] = path[k] /\ P.kind[n] # "phi")
  <2> SUFFICES ASSUME x = n, P.blk[n] = path[k], P.kind[n] # "phi" PROVE FALSE
    OBVIOUS
  <2>1. n \in Int /\ r \in Int /\ P.blk[r] \in Block /\ P.blk[x] \in Block /\ P.graph \in Graph
    BY RunFacts, SizeAssumption DEF Id
  <2>2. CASE P.blk[r] = path[k]
    BY <2>1, <2>2 DEF SettledBy, Available, Before
  <2>3. CASE P.blk[r] # path[k]
    <3>1. <<P.blk[r], P.blk[x]>> \in Dom[P.graph]
      BY <2>3 DEF Available
    <3>2. <<P.blk[x], P.blk[r]>> \in Dom[P.graph]
      BY <2>3 DEF SettledBy, Before
    <3> QED BY <2>1, <2>3, <3>1, <3>2, DomAssumption
  <2> QED BY <2>2, <2>3
<1> QED BY <1>1, OneChanges

\* ... nor on the way to the next block, where it was already available.
LEMMA SettledEntry ==
  ASSUME NEW P, NEW body, NEW env, NEW path, IsRun(P, body, env, path),
         InPlace(P, body), NEW k \in 1..Len(path), P.blk \in [Id -> Block],
         NEW r \in Id, NEW x \in Id, SettledBy(P, x, r),
         Available(P, r, path[k], 0), P.blk[r] # path[k]
  PROVE  /\ k > 1
         /\ Available(P, r, path[k - 1], N)
         /\ PointAt(P, body, env, path, k, 0).val[x] = PointAt(P, body, env, path, k - 1, N).val[x]
         /\ PointAt(P, body, env, path, k, 0).trap = PointAt(P, body, env, path, k - 1, N).trap
<1>1. P.blk[r] \in Block /\ P.blk[x] \in Block /\ P.graph \in Graph /\ path[k] \in Block
      /\ path \in Path[P.graph] /\ k \in Int
  BY RunFacts
<1>2. <<P.blk[r], path[k]>> \in Dom[P.graph]
  BY DEF Available
<1>3. k > 1
  <2> SUFFICES ASSUME k = 1 PROVE FALSE
    BY <1>1
  <2> QED BY <1>1, <1>2, PathAssumption
<1>4. <<P.blk[r], path[k - 1]>> \in Dom[P.graph]
  <2>1. k - 1 \in 1..Len(path) - 1 /\ (k - 1) + 1 = k
    BY <1>3, RunFacts
  <2>2. \A h \in 1..Len(path) - 1, b \in Block :
          <<b, path[h + 1]>> \in Dom[P.graph] /\ b # path[h + 1]
            => <<b, path[h]>> \in Dom[P.graph]
    BY <1>1, PathAssumption
  <2>3. <<P.blk[r], path[(k - 1) + 1]>> \in Dom[P.graph] /\ P.blk[r] # path[(k - 1) + 1]
    BY <1>2, <2>1
  <2> QED BY <1>1, <2>1, <2>2, <2>3
<1>5. Available(P, r, path[k - 1], N)
  BY <1>4, SizeAssumption DEF Available, Id
<1>6. P.blk[x] # path[k]
  <2> SUFFICES ASSUME P.blk[x] = path[k] PROVE FALSE
    OBVIOUS
  <2>1. <<P.blk[x], P.blk[r]>> \in Dom[P.graph]
    BY DEF SettledBy, Before
  <2> QED BY <1>1, <1>2, <2>1, DomAssumption
<1> DEFINE m == PointAt(P, body, env, path, k - 1, N)
<1>7. m \in Machines
  <2>1. k - 1 \in 1..Len(path) /\ N \in 0..N
    BY <1>3, RunFacts
  <2> QED BY <2>1, RunType
<1>8. PointAt(P, body, env, path, k, 0) = Phis(P, body, m, env, Origin(path, k), path[k])
  BY <1>3, EntryIs, RunFacts DEF Came
<1> HIDE DEF m
<1>9. Phis(P, body, m, env, Origin(path, k), path[k]).val[x] = m.val[x]
  BY <1>6, <1>7 DEF Phis, Machines, InPlace
<1>10. Phis(P, body, m, env, Origin(path, k), path[k]).trap = m.trap
  BY <1>7 DEF Phis, Machines
<1> QED BY <1>3, <1>5, <1>8, <1>9, <1>10 DEF m

\* How many turns it takes in the block of r until r has its value.
Ran(P, r) == IF P.kind[r] = "phi" THEN 0 ELSE r

\* A set of values G that only looks at X, which r settles.
LooksAt(P, r, X, G) ==
  /\ \A x \in X : x \in Id /\ SettledBy(P, x, r)
  /\ \A f \in G, g \in [Id -> Word] : (\A x \in X : f[x] = g[x]) => g \in G

StartsIn(P, body, env, path, r, G) ==
  \A k \in 1..Len(path) : path[k] = P.blk[r] =>
    \/ PointAt(P, body, env, path, k, Ran(P, r)).trap
    \/ PointAt(P, body, env, path, k, Ran(P, r)).val \in G

StaysIn(P, body, env, path, r, G) ==
  \A k \in 1..Len(path), n \in 0..N : Available(P, r, path[k], n) =>
    \/ PointAt(P, body, env, path, k, n).trap
    \/ PointAt(P, body, env, path, k, n).val \in G

\* A relation between settled values, which holds when r has run, lasts as
\* long as r is available.  G is the set of the values in relation.
LEMMA Lasting ==
  ASSUME NEW P, NEW body, NEW env, NEW path, IsRun(P, body, env, path),
         InPlace(P, body), NEW r \in Id, NEW X, NEW G, LooksAt(P, r, X, G),
         StartsIn(P, body, env, path, r, G)
  PROVE  StaysIn(P, body, env, path, r, G)
<1> USE DEF LooksAt
<1> DEFINE L == Len(path)
           Z(k, n) == PointAt(P, body, env, path, k, n)
           Holds(k, n) == Available(P, r, path[k], n) => Z(k, n).trap \/ Z(k, n).val \in G
           S == {p \in (1..L) \X (0..N) : Holds(p[1], p[2])}
<1>0. /\ N \in Nat /\ L \in Nat /\ L # 0 /\ L \in Nat \ {0} /\ P.blk \in [Id -> Block]
      /\ r \in Int /\ r > 0
  BY RunFacts, SizeAssumption DEF Id
<1>8. \A k \in 1..L, n \in 0..N : Z(k, n).val \in [Id -> Word]
  BY RunType DEF Machines
<1>1. ASSUME NEW k \in 1..L, k > 1 => Holds(k - 1, N)
      PROVE  Holds(k, 0)
  <2> SUFFICES ASSUME Available(P, r, path[k], 0), ~Z(k, 0).trap PROVE Z(k, 0).val \in G
    OBVIOUS
  <2>1. CASE P.blk[r] = path[k]
    <3>1. P.kind[r] = "phi"
      BY <1>0, <2>1 DEF Available
    <3> QED BY <2>1, <3>1 DEF Ran, StartsIn
  <2>2. CASE P.blk[r] # path[k]
    <3>1. /\ k > 1 /\ Available(P, r, path[k - 1], N)
          /\ Z(k, 0).trap = Z(k - 1, N).trap
      <4>1. SettledBy(P, r, r)
        BY DEF SettledBy
      <4> QED BY <1>0, <2>2, <4>1, SettledEntry
    <3>2. ASSUME NEW x \in X
          PROVE  Z(k, 0).val[x] = Z(k - 1, N).val[x]
      <4>1. x \in Id /\ SettledBy(P, x, r)
        OBVIOUS
      <4> QED BY <1>0, <2>2, <4>1, SettledEntry
    <3>3. Z(k - 1, N).val \in G
      BY <1>1, <3>1
    <3>4. Z(k, 0).val \in [Id -> Word]
      <4>1. 0 \in 0..N
        BY <1>0
      <4> QED BY <1>8, <4>1
    <3> QED BY <3>2, <3>3, <3>4
  <2> QED BY <2>1, <2>2
<1>2. ASSUME NEW k \in 1..L, NEW n \in 1..N, Holds(k, n - 1)
      PROVE  Holds(k, n)
  <2> SUFFICES ASSUME Available(P, r, path[k], n), ~Z(k, n).trap PROVE Z(k, n).val \in G
    OBVIOUS
  <2>1. n \in Id
    BY DEF Id
  <2>2. CASE P.blk[r] = path[k] /\ P.kind[r] # "phi" /\ n = r
    BY <2>2 DEF Ran, StartsIn
  <2>3. CASE ~(P.blk[r] = path[k] /\ P.kind[r] # "phi" /\ n = r)
    <3>1. Available(P, r, path[k], n - 1)
      <4>1. r <= n /\ r # n => r <= n - 1
        BY <1>0
      <4> QED BY <2>3, <4>1 DEF Available
    <3>2. ~Z(k, n - 1).trap
      <4>1. SettledBy(P, r, r)
        BY DEF SettledBy
      <4> QED BY <2>1, <3>1, <4>1, SettledTurn
    <3>3. ASSUME NEW x \in X
          PROVE  Z(k, n).val[x] = Z(k, n - 1).val[x]
      <4>1. x \in Id /\ SettledBy(P, x, r)
        OBVIOUS
      <4> QED BY <2>1, <3>1, <4>1, SettledTurn
    <3>4. Z(k, n - 1).val \in G
      BY <1>2, <3>1, <3>2
    <3>5. Z(k, n).val \in [Id -> Word]
      <4>1. n \in 0..N
        BY <1>0
      <4> QED BY <1>8, <4>1
    <3> QED BY <3>3, <3>4, <3>5
  <2> QED BY <2>2, <2>3
<1> HIDE DEF Holds
<1>3. <<1, 0>> \in S
  <2>1. 1 \in 1..L /\ 0 \in 0..N /\ ~(1 > 1)
    BY <1>0
  <2> QED BY <1>1, <2>1
<1>4. ASSUME NEW k \in 1..L, NEW n \in 1..N, <<k, n - 1>> \in S
      PROVE  <<k, n>> \in S
  <2>1. n \in 0..N
    BY <1>0
  <2> QED BY <1>2, <1>4, <2>1
<1>5. ASSUME NEW k \in 2..L, <<k - 1, N>> \in S
      PROVE  <<k, 0>> \in S
  <2>1. k \in 1..L /\ 0 \in 0..N
    BY <1>0
  <2> QED BY <1>1, <1>5, <2>1
<1>6. \A k \in 1..L, n \in 0..N : <<k, n>> \in S
  <2> HIDE DEF S, L
  <2> QED BY <1>0, <1>3, <1>4, <1>5, RunInduction
<1>7. \A k \in 1..L, n \in 0..N : Holds(k, n)
  BY <1>6
<1> QED BY <1>7 DEF Holds, StaysIn

\* r takes the value of v when it runs.
TakesValue(P, body, env, path, r, v) ==
  \A k \in 1..Len(path) : path[k] = P.blk[r] =>
    LET m == PointAt(P, body, env, path, k, Ran(P, r))
    IN  m.trap \/ m.val[r] = ValueOf(m, env, v)

\* r has the value of v wherever r is available.
HasValue(P, body, env, path, r, v) ==
  \A k \in 1..Len(path), n \in 0..N : Available(P, r, path[k], n) =>
    LET m == PointAt(P, body, env, path, k, n)
    IN  m.trap \/ m.val[r] = ValueOf(m, env, v)

LEMMA LastingPair ==
  ASSUME NEW P, NEW body, NEW env, NEW path, IsRun(P, body, env, path),
         InPlace(P, body), NEW r \in Id, NEW v, v \in Id => SettledBy(P, v, r),
         TakesValue(P, body, env, path, r, v)
  PROVE  HasValue(P, body, env, path, r, v)
<1> DEFINE X == {r} \cup ({v} \cap Id)
           G == {f \in [Id -> Word] : f[r] = IF v \in Id THEN f[v] ELSE env.leaf[v]}
           Z(k, n) == PointAt(P, body, env, path, k, n)
<1>1. LooksAt(P, r, X, G)
  BY DEF LooksAt, SettledBy
<1>3. ASSUME NEW k \in 1..Len(path), NEW n \in 0..N
      PROVE  Z(k, n).val \in G <=> Z(k, n).val[r] = ValueOf(Z(k, n), env, v)
  BY RunType DEF Machines, ValueOf
<1>4. r \in 0..N /\ 0 \in 0..N
  BY SizeAssumption DEF Id
<1>5. ASSUME NEW k \in 1..Len(path), path[k] = P.blk[r]
      PROVE  \/ PointAt(P, body, env, path, k, Ran(P, r)).trap
             \/ PointAt(P, body, env, path, k, Ran(P, r)).val \in G
  <2>1. Ran(P, r) \in 0..N
    BY <1>4 DEF Ran
  <2> HIDE DEF G
  <2> QED BY <1>3, <1>5, <2>1 DEF TakesValue
<1>6. StaysIn(P, body, env, path, r, G)
  <2> HIDE DEF X, G
  <2>1. StartsIn(P, body, env, path, r, G)
    BY <1>5 DEF StartsIn
  <2> QED BY <1>1, <2>1, Lasting
<1> HIDE DEF G
<1> QED BY <1>3, <1>6 DEF StaysIn, HasValue

\* An instruction that computes has the value of its operands' values
\* wherever it is available.
LEMMA LastingCompute ==
  ASSUME NEW P, NEW body, NEW env, NEW path, IsRun(P, body, env, path),
         InPlace(P, body), UsesWellPlaced(P, body.args),
         NEW r \in body.live, P.kind[r] \in {"sub", "div", "gep", "fcmp"}
  PROVE  \A k \in 1..Len(path), n \in 0..N :
           Available(P, r, path[k], n) =>
             \/ PointAt(P, body, env, path, k, n).trap
             \/ PointAt(P, body, env, path, k, n).val[r] =
                  Compute[P.kind[r]][ValueOf(PointAt(P, body, env, path, k, n), env, body.args[r][1])]
                                    [ValueOf(PointAt(P, body, env, path, k, n), env, body.args[r][2])]
<1> DEFINE y == body.args[r][1]
           z == body.args[r][2]
           X == {r} \cup ({y, z} \cap Id)
           G == {f \in [Id -> Word] :
                   f[r] = Compute[P.kind[r]][IF y \in Id THEN f[y] ELSE env.leaf[y]]
                                            [IF z \in Id THEN f[z] ELSE env.leaf[z]]}
           Z(k, n) == PointAt(P, body, env, path, k, n)
<1>0. r \in Id /\ 1 \in Slot /\ 2 \in Slot /\ r \in 0..N /\ r - 1 \in 0..N
  BY SizeAssumption DEF IsRun, IsBody, Slot, Id
<1>1. LooksAt(P, r, X, G)
  <2>1. \A x \in X : x \in Id /\ SettledBy(P, x, r)
    BY <1>0 DEF SettledBy, UsesWellPlaced, MayUse
  <2>2. \A f \in G, g \in [Id -> Word] : (\A x \in X : f[x] = g[x]) => g \in G
    OBVIOUS
  <2> QED BY <2>1, <2>2 DEF LooksAt
<1>3. ASSUME NEW k \in 1..Len(path), NEW n \in 0..N
      PROVE  Z(k, n).val \in G
             <=> Z(k, n).val[r] = Compute[P.kind[r]][ValueOf(Z(k, n), env, y)]
                                                    [ValueOf(Z(k, n), env, z)]
  BY RunType DEF Machines, ValueOf
<1>4. ASSUME NEW k \in 1..Len(path), path[k] = P.blk[r], ~Z(k, r).trap
      PROVE  Z(k, r).val \in G
  <2> DEFINE m == Z(k, r - 1)
  <2>1. P.kind[r] # "phi" /\ P.kind[r] \in Computed /\ P.kind[r] \notin Reads
        /\ P.kind[r] # "alloca" /\ P.kind[r] # "call"
    BY DEF Computed, Reads, Loads
  <2>2. ~m.trap
    BY <1>0, <1>4, <2>1, Unexecuted
  <2>3. Z(k, r) = Effect(P.kind[r], m, env, r, ValueOf(m, env, y), ValueOf(m, env, z))
    BY <1>0, <1>4, <2>1, <2>2, Executed
  <2>4. m \in Machines
    BY <1>0, RunType
  <2>5. y # r /\ z # r
    BY <1>0, <2>1, BeforeIrreflexive DEF UsesWellPlaced, MayUse
  <2> HIDE DEF m
  <2>6. /\ Z(k, r).val[r] = Compute[P.kind[r]][ValueOf(m, env, y)][ValueOf(m, env, z)]
        /\ \A x \in Id \ {r} : Z(k, r).val[x] = m.val[x]
    <3>1. ~Traps(P.kind[r], ValueOf(m, env, y), ValueOf(m, env, z))
      BY <1>4, <2>3, <2>4 DEF Effect, Machines
    <3> DEFINE w == Result(P.kind[r], m, env, r, ValueOf(m, env, y), ValueOf(m, env, z))
    <3>2. Z(k, r).val = [m.val EXCEPT ![r] = w]
      BY <2>3, <3>1 DEF Effect
    <3>3. w = Compute[P.kind[r]][ValueOf(m, env, y)][ValueOf(m, env, z)]
      BY <2>1 DEF Result
    <3>4. r \in DOMAIN m.val /\ \A x \in Id : x \in DOMAIN m.val
      BY <1>0, <2>4 DEF Machines
    <3> HIDE DEF w
    <3> QED BY <3>2, <3>3, <3>4
  <2>7. /\ ValueOf(Z(k, r), env, y) = ValueOf(m, env, y)
        /\ ValueOf(Z(k, r), env, z) = ValueOf(m, env, z)
    BY <2>5, <2>6 DEF ValueOf
  <2> HIDE DEF G
  <2> QED BY <1>0, <1>3, <2>6, <2>7
<1>5. ASSUME NEW k \in 1..Len(path), path[k] = P.blk[r]
      PROVE  \/ PointAt(P, body, env, path, k, Ran(P, r)).trap
             \/ PointAt(P, body, env, path, k, Ran(P, r)).val \in G
  <2> HIDE DEF G
  <2> QED BY <1>4, <1>5 DEF Ran
<1>6. StaysIn(P, body, env, path, r, G)
  <2> HIDE DEF X, G
  <2>1. StartsIn(P, body, env, path, r, G)
    BY <1>5 DEF StartsIn
  <2> QED BY <1>0, <1>1, <2>1, Lasting
<1> HIDE DEF G
<1> QED BY <1>3, <1>6 DEF StaysIn

\* What comes before what is available is available.
LEMMA AvailableBefore ==
  ASSUME NEW P, IsProgram(P), NEW x \in Id, NEW r \in Id, Before(P, x, r),
         P.kind[r] # "phi" \/ P.kind[x] = "phi" \/ P.blk[x] # P.blk[r],
         NEW b \in Block, NEW n \in 0..N, Available(P, r, b, n)
  PROVE  Available(P, x, b, n)
<1>1. /\ P.graph \in Graph /\ P.blk[x] \in Block /\ P.blk[r] \in Block
      /\ x \in Int /\ r \in Int /\ n \in Int /\ N \in Nat /\ x <= N
  BY SizeAssumption DEF IsProgram, Id
<1>2. CASE P.blk[r] = b /\ P.blk[x] = b
  BY <1>1, <1>2 DEF Available, Before
<1>3. CASE P.blk[r] = b /\ P.blk[x] # b
  BY <1>3 DEF Available, Before
<1>4. CASE P.blk[r] # b /\ P.blk[x] = P.blk[r]
  BY <1>4 DEF Available
<1>5. CASE P.blk[r] # b /\ P.blk[x] # P.blk[r]
  <2>1. <<P.blk[x], P.blk[r]>> \in Dom[P.graph] /\ <<P.blk[r], b>> \in Dom[P.graph]
    BY <1>5 DEF Available, Before
  <2>2. <<P.blk[x], b>> \in Dom[P.graph]
    BY <1>1, <2>1, DomAssumption
  <2>3. P.blk[x] # b
    BY <1>1, <1>5, <2>1, DomAssumption
  <2> QED BY <2>2, <2>3 DEF Available
<1> QED BY <1>2, <1>3, <1>4, <1>5

\* The phis of a block, once it is entered.
LEMMA PhiRuns ==
  ASSUME NEW P, NEW body, NEW env, NEW path, IsRun(P, body, env, path),
         InPlace(P, body), NEW k \in 1..Len(path), NEW r \in body.live,
         P.blk[r] = path[k], P.kind[r] = "phi"
  PROVE  LET m == Came(P, body, env, path, k)
             e == PointAt(P, body, env, path, k, 0)
         IN  /\ k > 1
             /\ Incoming(P, r, path[k - 1]) \in Slot
             /\ e.val[r] = ValueOf(m, env, body.args[r][Incoming(P, r, path[k - 1])])
             /\ \A x \in Id : P.blk[x] # path[k] => e.val[x] = m.val[x]
<1> DEFINE m == Came(P, body, env, path, k)
<1>1. r \in Id /\ body.home = P.blk
  BY DEF IsRun, IsBody, InPlace
<1>2. k > 1 /\ Incoming(P, r, path[k - 1]) \in Slot
  BY <1>1, IncomingIs
<1>3. Origin(path, k) = path[k - 1]
  BY <1>2 DEF Origin
<1>4. PointAt(P, body, env, path, k, 0) = Phis(P, body, m, env, path[k - 1], path[k])
  BY <1>3, EntryIs, RunFacts
<1>5. m \in Machines
  BY RunType
<1> HIDE DEF m
<1> QED BY <1>1, <1>2, <1>4, <1>5 DEF Phis, Machines, m

-----------------------------------------------------------------------------
(* Rewriting a function in place.                                          *)

Unmoved(P, L, M) == Body(L, M, P.blk, [i \in Id |-> i])

\* The function, an environment and a path.
IsScene(P, env, path) ==
  /\ P \in Programs /\ IsProgram(P) /\ IsEnv(env)
  /\ path \in Path[P.graph]

LEMMA UnmovedRuns ==
  ASSUME NEW P, NEW env, NEW path, IsScene(P, env, path),
         NEW L \in SUBSET Id, NEW M \in [Id -> [Slot -> Value]]
  PROVE  /\ IsRun(P, Unmoved(P, L, M), env, path)
         /\ InPlace(P, Unmoved(P, L, M))
         /\ IsBody(Unmoved(P, L, M))
         /\ Unmoved(P, L, M).live = L /\ Unmoved(P, L, M).args = M
         /\ Unmoved(P, L, M).home = P.blk
         /\ Unmoved(P, L, M).order = [i \in Id |-> i]
<1> DEFINE c == Unmoved(P, L, M)
<1>1. /\ c.live = L /\ c.args = M /\ c.home = P.blk /\ c.order = [i \in Id |-> i]
  BY DEF Unmoved, Body
<1>2. P.blk \in [Id -> Block] /\ P.graph \in Graph
  BY DEF IsScene, IsProgram
<1> HIDE DEF c
<1>3. IsBody(c) /\ InPlace(P, c)
  BY <1>1, <1>2 DEF IsBody, InPlace, Id
<1>4. path \in Seq(Block) /\ path # <<>>
  BY <1>2, PathAssumption DEF IsScene
<1>5. Len(path) \in Nat \ {0}
  BY <1>4, LenProperties, EmptySeq
<1>6. IsRun(P, c, env, path)
  BY <1>1, <1>3, <1>4, <1>5 DEF IsRun, IsScene
<1> QED BY <1>1, <1>3, <1>6 DEF c

\* Two bodies whose turns agree at every point of a path agree at its end.
LEMMA AgreeInduction ==
  ASSUME NEW P, NEW env, NEW path, NEW c, NEW d, NEW V,
         IsRun(P, c, env, path), IsRun(P, d, env, path),
         \A k \in 1..Len(path) :
           Agree(V, Came(P, c, env, path, k), Came(P, d, env, path, k))
             => Agree(V, PointAt(P, c, env, path, k, 0), PointAt(P, d, env, path, k, 0)),
         \A k \in 1..Len(path), n \in 1..N :
           Agree(V, PointAt(P, c, env, path, k, n - 1), PointAt(P, d, env, path, k, n - 1))
             => Agree(V, PointAt(P, c, env, path, k, n), PointAt(P, d, env, path, k, n))
  PROVE  Agree(V, Run(P, c, env, path), Run(P, d, env, path))
<1> DEFINE L == Len(path)
           X(k, n) == PointAt(P, c, env, path, k, n)
           Y(k, n) == PointAt(P, d, env, path, k, n)
           S == {p \in (1..L) \X (0..N) : Agree(V, X(p[1], p[2]), Y(p[1], p[2]))}
<1>0. N \in Nat /\ L \in Nat /\ L # 0 /\ L \in Nat \ {0}
  BY RunFacts
<1>1. <<1, 0>> \in S
  <2>1. Agree(V, Machine(env), Machine(env))
    BY DEF Agree, Machine
  <2>2. 1 \in 1..L /\ 0 \in 0..N
    BY <1>0
  <2>3. Agree(V, X(1, 0), Y(1, 0))
    BY <2>1, <2>2 DEF Came
  <2> QED BY <2>2, <2>3
<1>2. ASSUME NEW k \in 1..L, NEW n \in 1..N, <<k, n - 1>> \in S
      PROVE  <<k, n>> \in S
  <2>1. n \in 0..N
    BY <1>0
  <2>2. Agree(V, X(k, n - 1), Y(k, n - 1))
    BY <1>2
  <2>3. Agree(V, X(k, n), Y(k, n))
    BY <2>2
  <2> HIDE DEF X, Y
  <2> QED BY <2>1, <2>3
<1>3. ASSUME NEW k \in 2..L, <<k - 1, N>> \in S
      PROVE  <<k, 0>> \in S
  <2>1. k \in 1..L /\ k # 1 /\ 0 \in 0..N
    BY <1>0
  <2>2. Agree(V, Came(P, c, env, path, k), Came(P, d, env, path, k))
    BY <1>3, <2>1 DEF Came
  <2>3. Agree(V, X(k, 0), Y(k, 0))
    BY <2>1, <2>2
  <2> QED BY <2>1, <2>3
<1>4. <<L, N>> \in S
  <2>1. L \in 1..L /\ N \in 0..N
    BY <1>0
  <2> HIDE DEF S, L
  <2> QED BY <1>0, <1>1, <1>2, <1>3, <2>1, RunInduction
<1> QED BY <1>0, <1>4, RunIs

\* A replacement is right when each operand it replaces has its value.
Equal(P, body, env, path, gone, v, stay) ==
  \A r \in gone : HasUse(body.args, r) =>
    /\ v \in Id => v \in stay
    /\ HasValue(P, body, env, path, r, v)

\* Erasing instructions that only yield values, in favour of one that has
\* their value wherever they are available.
LEMMA Replaced ==
  ASSUME NEW P, NEW env, NEW path, IsScene(P, env, path),
         NEW L \in SUBSET Id, NEW M \in [Id -> [Slot -> Value]],
         UsesAlive(L, M), UsesWellPlaced(P, M),
         NEW gone \in SUBSET L, NEW v \in Value,
         Rewritten(M, gone, v) \in [Id -> [Slot -> Value]],
         \A r \in gone : P.kind[r] \in Silent,
         Equal(P, Unmoved(P, L, M), env, path, gone, v, L \ gone)
  PROVE  Agree(L \ gone, Run(P, Unmoved(P, L, M), env, path),
                         Run(P, Unmoved(P, L \ gone, Rewritten(M, gone, v)), env, path))
<1> DEFINE V == L \ gone
           R == Rewritten(M, gone, v)
           c == Unmoved(P, L, M)
           d == Unmoved(P, V, R)
           X(k, n) == PointAt(P, c, env, path, k, n)
           Y(k, n) == PointAt(P, d, env, path, k, n)
<1>1. /\ IsRun(P, c, env, path) /\ InPlace(P, c) /\ IsBody(c)
      /\ c.live = L /\ c.args = M /\ c.home = P.blk
      /\ c.order = [i \in Id |-> i]
  BY UnmovedRuns
<1>2. /\ IsRun(P, d, env, path) /\ InPlace(P, d) /\ IsBody(d)
      /\ d.live = V /\ d.args = R /\ d.home = P.blk
      /\ d.order = [i \in Id |-> i]
  <2>1. V \in SUBSET Id
    OBVIOUS
  <2> HIDE DEF V, R
  <2> QED BY <2>1, UnmovedRuns DEF R
<1>3. \A i \in V, s \in Slot : R[i][s] = IF M[i][s] \in gone THEN v ELSE M[i][s]
  BY DEF Rewritten
<1>4. /\ IsProgram(P) /\ IsEnv(env) /\ N \in Nat /\ V \subseteq Id
      /\ P.blk \in [Id -> Block]
  BY <1>1, RunFacts
<1> HIDE DEF c, d, R, V
\* An operand has the same value before and after.
<1>5. ASSUME NEW m, NEW m2, Agree(V, m, m2), ~m.trap, NEW i \in V, NEW s \in Slot,
             M[i][s] \in gone => m.val[M[i][s]] = ValueOf(m, env, v)
      PROVE  ValueOf(m, env, M[i][s]) = ValueOf(m2, env, R[i][s])
  <2>0. i \in Id
    BY <1>4
  <2>1. CASE M[i][s] \in gone
    <3>1. HasUse(M, M[i][s])
      BY <2>0 DEF HasUse
    <3>2. v \in Id => v \in V
      BY <1>1, <2>1, <3>1 DEF Equal, c, V
    <3>3. ValueOf(m, env, v) = ValueOf(m2, env, v)
      BY <1>5, <3>2 DEF Agree, ValueOf
    <3>4. ValueOf(m, env, M[i][s]) = m.val[M[i][s]]
      BY <2>1 DEF ValueOf
    <3> QED BY <1>3, <1>5, <2>1, <3>3, <3>4
  <2>2. CASE M[i][s] \notin gone
    <3>1. M[i][s] \in Id => M[i][s] \in V
      BY <2>0, <2>2 DEF UsesAlive, V
    <3> QED BY <1>3, <1>5, <2>2, <3>1 DEF Agree, ValueOf
  <2> QED BY <2>1, <2>2
\* Wherever a replaced operand is read, it is available.
<1>6. ASSUME NEW r \in gone, NEW i \in Id, NEW s \in Slot, M[i][s] = r,
             NEW k \in 1..Len(path), NEW n \in 0..N, Available(P, r, path[k], n),
             ~X(k, n).trap
      PROVE  X(k, n).val[r] = ValueOf(X(k, n), env, v)
  <2>1. HasUse(M, r)
    BY <1>6 DEF HasUse
  <2>2. HasValue(P, c, env, path, r, v)
    BY <1>1, <2>1 DEF Equal, c
  <2> QED BY <1>6, <2>2 DEF HasValue
<1>7. ASSUME NEW k \in 1..Len(path),
             Agree(V, Came(P, c, env, path, k), Came(P, d, env, path, k))
      PROVE  Agree(V, X(k, 0), Y(k, 0))
  <2> DEFINE m == Came(P, c, env, path, k)
             m2 == Came(P, d, env, path, k)
  <2>1. m \in Machines /\ m2 \in Machines
    BY <1>1, <1>2, RunType
  <2>2. ASSUME NEW i \in V, ~m.trap, P.blk[i] = path[k], P.kind[i] = "phi"
        PROVE  ValueOf(m, env, M[i][Incoming(P, i, Origin(path, k))])
             = ValueOf(m2, env, R[i][Incoming(P, i, Origin(path, k))])
    <3> DEFINE s == Incoming(P, i, path[k - 1])
    <3>1. /\ k > 1 /\ s \in Slot /\ P.from[i][s] = path[k - 1] /\ i \in Id
      BY <1>1, <1>4, <2>2, IncomingIs
    <3>2. Origin(path, k) = path[k - 1] /\ k # 1
      BY <3>1 DEF Origin
    <3>3. k - 1 \in 1..Len(path) /\ N \in 0..N
      BY <1>4, <3>1
    <3>4. m = X(k - 1, N)
      BY <3>2 DEF Came
    <3> HIDE DEF s, m, m2, X
    <3>5. M[i][s] \in gone => m.val[M[i][s]] = ValueOf(m, env, v)
      <4> SUFFICES ASSUME M[i][s] \in gone PROVE m.val[M[i][s]] = ValueOf(m, env, v)
        OBVIOUS
      <4>1. MayUse(P, M[i][s], i, s) /\ M[i][s] \in Id
        BY <3>1 DEF UsesWellPlaced
      <4>2. <<P.blk[M[i][s]], path[k - 1]>> \in Dom[P.graph]
        BY <2>2, <3>1, <4>1 DEF MayUse
      <4>3. M[i][s] <= N
        BY <4>1 DEF Id
      <4>4. Available(P, M[i][s], path[k - 1], N)
        BY <4>2, <4>3 DEF Available
      <4> QED BY <1>6, <2>2, <3>1, <3>3, <3>4, <4>4
    <3>6. Agree(V, m, m2)
      BY <1>7 DEF m, m2
    <3> QED BY <1>5, <2>2, <3>1, <3>2, <3>5, <3>6 DEF s
  <2>3. /\ X(k, 0) = Phis(P, c, m, env, Origin(path, k), path[k])
        /\ Y(k, 0) = Phis(P, d, m2, env, Origin(path, k), path[k])
    BY <1>1, <1>2, EntryIs, RunFacts
  <2>5. \A i \in V : /\ i \in L /\ i \in V
    BY DEF V
  <2>6. Agree(V, m, m2)
    BY <1>7
  <2>4. Agree(V, Phis(P, c, m, env, Origin(path, k), path[k]),
                 Phis(P, d, m2, env, Origin(path, k), path[k]))
    <3> HIDE DEF m, m2
    <3>1. ASSUME NEW i \in V
          PROVE  /\ i \in c.live <=> i \in d.live
                 /\ c.home[i] = d.home[i]
                 /\ ~m.trap /\ i \in c.live /\ c.home[i] = path[k] /\ P.kind[i] = "phi" =>
                      ValueOf(m, env, c.args[i][Incoming(P, i, Origin(path, k))])
                    = ValueOf(m2, env, d.args[i][Incoming(P, i, Origin(path, k))])
      BY <1>1, <1>2, <2>2, <2>5
    <3> QED BY <1>4, <2>1, <2>6, <3>1, AgreePhis
  <2> QED BY <2>3, <2>4
<1>8. ASSUME NEW k \in 1..Len(path), NEW n \in 1..N, Agree(V, X(k, n - 1), Y(k, n - 1))
      PROVE  Agree(V, X(k, n), Y(k, n))
  <2>1. n - 1 \in 0..N /\ n \in Id
    BY <1>4 DEF Id
  <2>2. X(k, n - 1) \in Machines /\ Y(k, n - 1) \in Machines
    BY <1>1, <1>2, <2>1, RunType
  <2>3. CASE n \in L /\ P.blk[n] = path[k] /\ P.kind[n] # "phi"
    <3>1. n \notin V => n \notin d.live /\ P.kind[n] \in Silent
      BY <1>2, <2>3 DEF V
    <3>2. ASSUME n \in V, ~X(k, n - 1).trap, NEW s \in Slot
          PROVE  ValueOf(X(k, n - 1), env, M[n][s]) = ValueOf(Y(k, n - 1), env, R[n][s])
      <4>1. M[n][s] \in gone => X(k, n - 1).val[M[n][s]] = ValueOf(X(k, n - 1), env, v)
        <5> SUFFICES ASSUME M[n][s] \in gone
                     PROVE  X(k, n - 1).val[M[n][s]] = ValueOf(X(k, n - 1), env, v)
          OBVIOUS
        <5>1. MayUse(P, M[n][s], n, s) /\ M[n][s] \in Id
          BY <2>1 DEF UsesWellPlaced
        <5>2. Before(P, M[n][s], n)
          BY <2>3, <5>1 DEF MayUse
        <5>3. M[n][s] \in Int /\ n \in Int
          BY <2>1, <5>1, SizeAssumption DEF Id
        <5>4. Available(P, M[n][s], path[k], n - 1)
          BY <2>3, <5>2, <5>3 DEF Available, Before
        <5> QED BY <1>6, <2>1, <3>2, <5>4
      <4> HIDE DEF X, Y
      <4> QED BY <1>5, <1>8, <3>2, <4>1
    <3>3. /\ X(k, n) = Turn(P, c, env, path[k], n, X(k, n - 1))
          /\ Y(k, n) = Turn(P, d, env, path[k], n, Y(k, n - 1))
      BY <1>1, <1>2, <2>1, TurnIs, RunFacts
    <3> HIDE DEF X, Y
    <3>4. Agree(V, Turn(P, c, env, path[k], n, X(k, n - 1)),
                   Turn(P, d, env, path[k], n, Y(k, n - 1)))
      <4>1. n \in V => n \in c.live /\ n \in d.live /\ c.home[n] = d.home[n]
        BY <1>1, <1>2 DEF V
      <4>2. n \in V /\ ~X(k, n - 1).trap =>
              \A s \in Slot : ValueOf(X(k, n - 1), env, c.args[n][s])
                            = ValueOf(Y(k, n - 1), env, d.args[n][s])
        BY <1>1, <1>2, <3>2
      <4> QED BY <1>1, <1>2, <1>4, <1>8, <2>1, <2>2, <3>1, <4>1, <4>2, AgreeTurn
    <3> QED BY <3>3, <3>4
  <2>4. CASE ~(n \in L /\ P.blk[n] = path[k] /\ P.kind[n] # "phi")
    <3>1. X(k, n) = X(k, n - 1)
      BY <1>1, <2>1, <2>4, Unexecuted
    <3>2. Y(k, n) = Y(k, n - 1)
      <4>1. ~(n \in d.live /\ P.blk[n] = path[k] /\ P.kind[n] # "phi")
        BY <1>2, <2>4 DEF V
      <4> QED BY <1>2, <2>1, <4>1, Unexecuted
    <3> QED BY <1>8, <3>1, <3>2
  <2> QED BY <2>3, <2>4
<1>9. Agree(V, Run(P, c, env, path), Run(P, d, env, path))
  BY <1>1, <1>2, <1>7, <1>8, AgreeInduction
<1> QED BY <1>9 DEF c, d, R, V

-----------------------------------------------------------------------------
(* Memory within a block.                                                  *)

\* No instruction of block b strictly between i and j writes to memory.
IsQuiet(P, body, env, b, i, j) ==
  \A n \in body.live : i < n /\ n < j /\ P.blk[n] = b =>
    P.kind[n] \notin Stores \cup {"rmw"} /\ (P.kind[n] = "call" => ~env.clobbers)

LEMMA Quiet ==
  ASSUME NEW P, NEW body, NEW env, NEW path, IsRun(P, body, env, path),
         InPlace(P, body), NEW k \in 1..Len(path), NEW i \in Id, NEW j \in Id, i < j,
         IsQuiet(P, body, env, path[k], i, j)
  PROVE  \A n \in i..j - 1 : ~PointAt(P, body, env, path, k, n).trap =>
           LET m == PointAt(P, body, env, path, k, i)
               e == PointAt(P, body, env, path, k, n)
           IN  /\ ~m.trap
               /\ e.mem = m.mem
               /\ \A x \in Id : ~(P.blk[x] = path[k] /\ i < x) => e.val[x] = m.val[x]
<1> DEFINE Z(n) == PointAt(P, body, env, path, k, n)
           Same(e, m) == e.trap \/ /\ ~m.trap
                                   /\ e.mem = m.mem
                                   /\ \A x \in Id : ~(P.blk[x] = path[k] /\ i < x) =>
                                        e.val[x] = m.val[x]
           H == j - 1 - i
           S == {h \in 0..H : Same(Z(i + h), Z(i))}
<1>0. /\ H \in Nat /\ i \in Nat /\ j \in Nat /\ N \in Nat /\ j <= N
  BY SizeAssumption DEF Id
<1>1. 0 \in S
  <2>1. 0 \in 0..H /\ i + 0 = i
    BY <1>0
  <2> HIDE DEF Z, H
  <2> QED BY <2>1
<1>2. ASSUME NEW h \in 0..H - 1, h \in S
      PROVE  h + 1 \in S
  <2> DEFINE n == i + (h + 1)
             m == Z(n - 1)
  <2>1. /\ n \in Int /\ n - 1 = i + h /\ i < n /\ n < j /\ h + 1 \in 0..H
        /\ n \in 1..N /\ n - 1 \in 0..N
    BY <1>0
  <2>2. Same(m, Z(i))
    <3>1. Same(Z(i + h), Z(i))
      BY <1>2
    <3> HIDE DEF Z, Same, n
    <3> QED BY <2>1, <3>1
  <2>3. n \in Id /\ m \in Machines
    BY <2>1, RunType DEF Id
  <2> HIDE DEF n
  <2>4. CASE ~m.trap /\ n \in body.live /\ P.blk[n] = path[k] /\ P.kind[n] # "phi"
    <3>1. PICK y, z : Z(n) = Effect(P.kind[n], m, env, n, y, z)
      BY <2>3, <2>4, Executed
    <3>2. P.kind[n] \notin Stores \cup {"rmw"} /\ (P.kind[n] = "call" => ~env.clobbers)
      BY <2>1, <2>4 DEF IsQuiet
    <3> HIDE DEF m, Z
    <3>3. MemoryAfter(P.kind[n], m, env, y, z) = m.mem
      BY <3>2 DEF MemoryAfter
    <3>4. \A x \in Id : ~(P.blk[x] = path[k] /\ i < x) => x # n
      BY <2>1, <2>4
    <3>5. Same(Z(n), Z(i))
      <4>1. CASE Traps(P.kind[n], y, z)
        BY <2>3, <3>1, <4>1 DEF Effect, Machines
      <4>2. CASE ~Traps(P.kind[n], y, z)
        <5>1. Z(n).mem = m.mem
          BY <3>1, <3>3, <4>2 DEF Effect
        <5>2. \A x \in Id : x # n => Z(n).val[x] = m.val[x]
          BY <2>3, <3>1, <4>2 DEF Effect, Machines
        <5> QED BY <2>2, <2>4, <3>4, <5>1, <5>2
      <4> QED BY <4>1, <4>2
    <3> QED BY <2>1, <3>5 DEF n
  <2>5. CASE ~(~m.trap /\ n \in body.live /\ P.blk[n] = path[k] /\ P.kind[n] # "phi")
    <3>1. Z(n) = m
      BY <2>3, <2>5, Unexecuted
    <3> HIDE DEF Z, Same, m
    <3> QED BY <2>1, <2>2, <3>1 DEF n
  <2> QED BY <2>4, <2>5
<1> HIDE DEF Z, Same
<1>3. \A h \in 0..H : h \in S
  <2> HIDE DEF H, S
  <2> QED BY <1>0, <1>1, <1>2, BoundedInduction
<1>4. ASSUME NEW n \in i..j - 1
      PROVE  Same(Z(n), Z(i))
  <2>1. n - i \in 0..H /\ i + (n - i) = n
    BY <1>0
  <2> QED BY <1>3, <2>1
<1> QED BY <1>4 DEF Z, Same

\* What a load and a store have done when they have not trapped.
LEMMA LoadRuns ==
  ASSUME NEW P, NEW body, NEW env, NEW path, IsRun(P, body, env, path),
         InPlace(P, body), NEW k \in 1..Len(path), NEW i \in body.live,
         P.blk[i] = path[k], P.kind[i] \in Loads,
         ~PointAt(P, body, env, path, k, i).trap
  PROVE  LET m == PointAt(P, body, env, path, k, i - 1)
             e == PointAt(P, body, env, path, k, i)
         IN  /\ ~m.trap
             /\ e.mem = m.mem
             /\ e.val[i] = m.mem[ValueOf(m, env, body.args[i][1])]
             /\ \A x \in Id : x # i => e.val[x] = m.val[x]
<1> DEFINE m == PointAt(P, body, env, path, k, i - 1)
           e == PointAt(P, body, env, path, k, i)
           y == ValueOf(m, env, body.args[i][1])
           z == ValueOf(m, env, body.args[i][2])
<1>1. i \in Id /\ P.kind[i] # "phi" /\ i - 1 \in 0..N
  <2>1. i \in Id
    BY DEF IsRun, IsBody
  <2> QED BY <2>1, SizeAssumption DEF Loads, Id
<1>2. ~m.trap
  BY <1>1, Unexecuted
<1>3. e = Effect(P.kind[i], m, env, i, y, z) /\ m \in Machines
  BY <1>1, <1>2, Executed, RunType
<1> HIDE DEF m, e, y, z
<1>4. ~Traps(P.kind[i], y, z)
  BY <1>3 DEF Effect, Machines, e
<1>5. /\ Result(P.kind[i], m, env, i, y, z) = m.mem[y]
      /\ MemoryAfter(P.kind[i], m, env, y, z) = m.mem
  BY DEF Result, MemoryAfter, Reads, Loads, Stores
<1>6. e.mem = m.mem /\ e.val = [m.val EXCEPT ![i] = m.mem[y]]
  BY <1>3, <1>4, <1>5 DEF Effect
<1> QED BY <1>1, <1>2, <1>3, <1>6 DEF m, e, y, Machines

LEMMA StoreRuns ==
  ASSUME NEW P, NEW body, NEW env, NEW path, IsRun(P, body, env, path),
         InPlace(P, body), NEW k \in 1..Len(path), NEW i \in body.live,
         P.blk[i] = path[k], P.kind[i] \in Stores,
         ~PointAt(P, body, env, path, k, i).trap
  PROVE  LET m == PointAt(P, body, env, path, k, i - 1)
             e == PointAt(P, body, env, path, k, i)
         IN  /\ ~m.trap
             /\ ValueOf(m, env, body.args[i][2]) \in Cell
             /\ e.mem[ValueOf(m, env, body.args[i][2])] = ValueOf(m, env, body.args[i][1])
             /\ \A x \in Id : e.val[x] = m.val[x]
<1> DEFINE m == PointAt(P, body, env, path, k, i - 1)
           e == PointAt(P, body, env, path, k, i)
           y == ValueOf(m, env, body.args[i][1])
           z == ValueOf(m, env, body.args[i][2])
<1>1. i \in Id /\ P.kind[i] # "phi" /\ i - 1 \in 0..N
  <2>1. i \in Id
    BY DEF IsRun, IsBody
  <2> QED BY <2>1, SizeAssumption DEF Stores, Id
<1>2. ~m.trap
  BY <1>1, Unexecuted
<1>3. e = Effect(P.kind[i], m, env, i, y, z) /\ m \in Machines
  BY <1>1, <1>2, Executed, RunType
<1> HIDE DEF m, e, y, z
<1>4. ~Traps(P.kind[i], y, z)
  BY <1>3 DEF Effect, Machines, e
<1>5. /\ Result(P.kind[i], m, env, i, y, z) = m.val[i]
      /\ MemoryAfter(P.kind[i], m, env, y, z) = [m.mem EXCEPT ![z] = y]
  BY DEF Result, MemoryAfter, Reads, Loads, Stores, Computed
<1>6. e.mem = [m.mem EXCEPT ![z] = y] /\ e.val = [m.val EXCEPT ![i] = m.val[i]]
  BY <1>3, <1>4, <1>5 DEF Effect
<1>7. z \in Cell
  BY <1>4 DEF Traps
<1>8. e.mem[z] = y
  BY <1>3, <1>6, <1>7 DEF Machines, Memory
<1>9. \A x \in Id : e.val[x] = m.val[x]
  BY <1>3, <1>6 DEF Machines
<1> QED BY <1>2, <1>7, <1>8, <1>9 DEF m, e, y, z

\* Loads r after i in its block, of the address that i loads from, load what
\* i has loaded, when nothing in between writes to memory.
LEMMA LoadAgain ==
  ASSUME NEW P, NEW body, NEW env, NEW path, IsRun(P, body, env, path),
         InPlace(P, body), UsesWellPlaced(P, body.args),
         NEW i \in body.live, NEW r \in body.live,
         P.blk[i] = P.blk[r], i < r, P.kind[i] \in Loads, P.kind[r] \in Loads,
         body.args[i][1] = body.args[r][1],
         IsQuiet(P, body, env, P.blk[r], i, r)
  PROVE  TakesValue(P, body, env, path, r, i)
<1> DEFINE a == body.args[r][1]
           Z(k, n) == PointAt(P, body, env, path, k, n)
<1>0. /\ i \in Id /\ r \in Id /\ 1 \in Slot
  BY DEF IsRun, IsBody, Slot
<1>1. i \in Int /\ r \in Int /\ r - 1 \in i..r - 1 /\ i \in i..r - 1
      /\ P.kind[r] # "phi" /\ P.kind[i] # "phi" /\ Ran(P, r) = r
  BY <1>0, SizeAssumption DEF Id, Loads, Ran
<1>2. a \in Id => /\ Before(P, a, i)
                  /\ ~(P.blk[a] = P.blk[r] /\ i < a) /\ a # i /\ a # r
  <2> SUFFICES ASSUME a \in Id
               PROVE  /\ Before(P, a, i)
                      /\ ~(P.blk[a] = P.blk[r] /\ i < a) /\ a # i /\ a # r
    OBVIOUS
  <2>1. Before(P, a, i)
    BY <1>0, <1>1 DEF UsesWellPlaced, MayUse
  <2>2. a \in Int
    BY SizeAssumption DEF Id
  <2> QED BY <1>1, <2>1, <2>2 DEF Before
<1>3. ASSUME NEW k \in 1..Len(path), path[k] = P.blk[r], ~Z(k, r).trap
      PROVE  Z(k, r).val[r] = Z(k, r).val[i]
  <2>1. /\ ~Z(k, r - 1).trap
        /\ Z(k, r).val[r] = Z(k, r - 1).mem[ValueOf(Z(k, r - 1), env, a)]
        /\ \A x \in Id : x # r => Z(k, r).val[x] = Z(k, r - 1).val[x]
    BY <1>3, LoadRuns
  <2>2. /\ ~Z(k, i).trap
        /\ Z(k, r - 1).mem = Z(k, i).mem
        /\ \A x \in Id : ~(P.blk[x] = path[k] /\ i < x) => Z(k, r - 1).val[x] = Z(k, i).val[x]
    BY <1>0, <1>1, <1>3, <2>1, Quiet
  <2>3. /\ Z(k, i).mem = Z(k, i - 1).mem
        /\ Z(k, i).val[i] = Z(k, i - 1).mem[ValueOf(Z(k, i - 1), env, a)]
        /\ \A x \in Id : x # i => Z(k, i).val[x] = Z(k, i - 1).val[x]
    BY <1>3, <2>2, LoadRuns
  <2> HIDE DEF Z, a
  <2>4. ValueOf(Z(k, r - 1), env, a) = ValueOf(Z(k, i - 1), env, a)
    BY <1>2, <1>3, <2>2, <2>3 DEF ValueOf
  <2>5. Z(k, r).val[r] = Z(k, i).val[i]
    BY <2>1, <2>2, <2>3, <2>4
  <2>6. Z(k, r).val[i] = Z(k, i).val[i]
    BY <1>0, <1>1, <2>1, <2>2
  <2> QED BY <2>5, <2>6
<1> QED BY <1>0, <1>1, <1>3 DEF TakesValue, ValueOf

\* ... and they load what a store before them has stored.
LEMMA LoadStored ==
  ASSUME NEW P, NEW body, NEW env, NEW path, IsRun(P, body, env, path),
         InPlace(P, body), UsesWellPlaced(P, body.args),
         NEW i \in body.live, NEW r \in body.live,
         P.blk[i] = P.blk[r], i < r, P.kind[i] \in Stores, P.kind[r] \in Loads,
         body.args[i][2] = body.args[r][1],
         IsQuiet(P, body, env, P.blk[r], i, r)
  PROVE  TakesValue(P, body, env, path, r, body.args[i][1])
<1> DEFINE a == body.args[r][1]
           v == body.args[i][1]
           Z(k, n) == PointAt(P, body, env, path, k, n)
<1>0. /\ i \in Id /\ r \in Id /\ 1 \in Slot /\ 2 \in Slot
  BY DEF IsRun, IsBody, Slot
<1>1. i \in Int /\ r \in Int /\ r - 1 \in i..r - 1 /\ i \in i..r - 1
      /\ P.kind[r] # "phi" /\ P.kind[i] # "phi" /\ Ran(P, r) = r
  BY <1>0, SizeAssumption DEF Id, Loads, Stores, Ran
<1>2. ASSUME NEW w \in {a, v}, w \in Id
      PROVE  ~(P.blk[w] = P.blk[r] /\ i < w) /\ w # i /\ w # r
  <2>1. Before(P, w, i)
    BY <1>0, <1>1, <1>2 DEF UsesWellPlaced, MayUse
  <2>2. w \in Int
    BY <1>2, SizeAssumption DEF Id
  <2> QED BY <1>1, <2>1, <2>2 DEF Before
<1>3. ASSUME NEW k \in 1..Len(path), path[k] = P.blk[r], ~Z(k, r).trap
      PROVE  Z(k, r).val[r] = ValueOf(Z(k, r), env, v)
  <2>1. /\ ~Z(k, r - 1).trap
        /\ Z(k, r).val[r] = Z(k, r - 1).mem[ValueOf(Z(k, r - 1), env, a)]
        /\ \A x \in Id : x # r => Z(k, r).val[x] = Z(k, r - 1).val[x]
    BY <1>3, LoadRuns
  <2>2. /\ ~Z(k, i).trap
        /\ Z(k, r - 1).mem = Z(k, i).mem
        /\ \A x \in Id : ~(P.blk[x] = path[k] /\ i < x) => Z(k, r - 1).val[x] = Z(k, i).val[x]
    BY <1>0, <1>1, <1>3, <2>1, Quiet
  <2>3. /\ Z(k, i).mem[ValueOf(Z(k, i - 1), env, a)] = ValueOf(Z(k, i - 1), env, v)
        /\ \A x \in Id : Z(k, i).val[x] = Z(k, i - 1).val[x]
    BY <1>3, <2>2, StoreRuns
  <2> HIDE DEF Z
  <2>4. ASSUME NEW w \in {a, v}
        PROVE  ValueOf(Z(k, r - 1), env, w) = ValueOf(Z(k, i - 1), env, w)
    BY <1>2, <1>3, <2>2, <2>3 DEF ValueOf
  <2>5. ValueOf(Z(k, r), env, v) = ValueOf(Z(k, r - 1), env, v)
    BY <1>2, <2>1 DEF ValueOf
  <2> HIDE DEF a, v
  <2> QED BY <2>1, <2>2, <2>3, <2>4, <2>5
<1> QED BY <1>0, <1>1, <1>3 DEF TakesValue

\* Agree, except for what is in cell c.
AgreeBut(V, c, m, m2) ==
  m.trap \/ /\ ~m2.trap
            /\ m2.seen = m.seen
            /\ \A i \in V : m2.val[i] = m.val[i]
            /\ \A x \in Cell \ {c} : m2.mem[x] = m.mem[x]

\* An instruction that leaves memory alone.
LEMMA ButEffect ==
  ASSUME NEW k \in Kind, k \notin Stores \cup Reads \cup {"call"},
         NEW m \in Machines, NEW m2 \in Machines, NEW env, NEW V, V \subseteq Id,
         NEW c, AgreeBut(V, c, m, m2), ~m.trap, NEW i \in V, NEW x, NEW y
  PROVE  AgreeBut(V, c, Effect(k, m, env, i, x, y), Effect(k, m2, env, i, x, y))
<1>1. /\ m2.seen = m.seen /\ i \in Id
      /\ m.val \in [Id -> Word] /\ m2.val \in [Id -> Word]
      /\ \A j \in V : m2.val[j] = m.val[j]
      /\ \A z \in Cell \ {c} : m2.mem[z] = m.mem[z]
  BY DEF AgreeBut, Machines
<1>2. CASE Traps(k, x, y)
  <2>1. [m EXCEPT !.trap = TRUE].trap
    BY DEF Machines
  <2> QED BY <1>2, <2>1 DEF AgreeBut, Effect
<1>3. CASE ~Traps(k, x, y)
  <2>1. Result(k, m, env, i, x, y) = Result(k, m2, env, i, x, y)
    BY <1>1 DEF Result
  <2>2. /\ MemoryAfter(k, m, env, x, y) = m.mem
        /\ MemoryAfter(k, m2, env, x, y) = m2.mem
    BY DEF MemoryAfter, Reads
  <2>3. SeenAfter(k, m, i, x, y) = SeenAfter(k, m2, i, x, y)
    BY <1>1 DEF SeenAfter
  <2> QED BY <1>1, <1>3, <2>1, <2>2, <2>3 DEF AgreeBut, Effect
<1> QED BY <1>2, <1>3

\* A store that only the first runs.
LEMMA ButBegins ==
  ASSUME NEW m \in Machines, NEW m2 \in Machines, NEW env, NEW V, V \subseteq Id,
         Agree(V, m, m2), ~m.trap, NEW i \in Id \ V, NEW x, NEW c
  PROVE  AgreeBut(V, c, Effect("store", m, env, i, x, c), m2)
<1>1. CASE Traps("store", x, c)
  <2>1. [m EXCEPT !.trap = TRUE].trap
    BY DEF Machines
  <2> QED BY <1>1, <2>1 DEF AgreeBut, Effect
<1>2. CASE ~Traps("store", x, c)
  <2> DEFINE e == Effect("store", m, env, i, x, c)
  <2>1. /\ e.mem = [m.mem EXCEPT ![c] = x] /\ e.seen = m.seen
        /\ e.val = [m.val EXCEPT ![i] = Result("store", m, env, i, x, c)]
    BY <1>2 DEF Effect, MemoryAfter, SeenAfter, Stores, Observed
  <2>2. \A z \in Cell \ {c} : e.mem[z] = m.mem[z]
    BY <2>1 DEF Machines, Memory
  <2>3. \A j \in V : e.val[j] = m.val[j]
    BY <2>1 DEF Machines
  <2> HIDE DEF e
  <2> QED BY <2>1, <2>2, <2>3 DEF AgreeBut, Agree, e
<1> QED BY <1>1, <1>2

\* A store to the cell in both.
LEMMA ButEnds ==
  ASSUME NEW k \in Stores,
         NEW m \in Machines, NEW m2 \in Machines, NEW env, NEW V, V \subseteq Id,
         NEW c, AgreeBut(V, c, m, m2), ~m.trap, NEW i \in V, NEW x
  PROVE  Agree(V, Effect(k, m, env, i, x, c), Effect(k, m2, env, i, x, c))
<1>1. /\ m2.seen = m.seen /\ i \in Id
      /\ m.val \in [Id -> Word] /\ m2.val \in [Id -> Word]
      /\ m.mem \in Memory /\ m2.mem \in Memory
      /\ \A j \in V : m2.val[j] = m.val[j]
      /\ \A z \in Cell \ {c} : m2.mem[z] = m.mem[z]
  BY DEF AgreeBut, Machines
<1>2. CASE Traps(k, x, c)
  <2>1. [m EXCEPT !.trap = TRUE].trap
    BY DEF Machines
  <2> QED BY <1>2, <2>1 DEF Agree, Effect
<1>3. CASE ~Traps(k, x, c)
  <2>1. /\ Result(k, m, env, i, x, c) = m.val[i]
        /\ Result(k, m2, env, i, x, c) = m2.val[i]
    BY DEF Result, Stores, Reads, Loads, Computed
  <2>2. MemoryAfter(k, m, env, x, c) = MemoryAfter(k, m2, env, x, c)
    <3>1. [m.mem EXCEPT ![c] = x] = [m2.mem EXCEPT ![c] = x]
      BY <1>1 DEF Memory
    <3> QED BY <3>1 DEF MemoryAfter
  <2>3. SeenAfter(k, m, i, x, c) = SeenAfter(k, m2, i, x, c)
    BY <1>1 DEF SeenAfter, Stores
  <2> QED BY <1>1, <1>3, <2>1, <2>2, <2>3 DEF Agree, Effect
<1> QED BY <1>2, <1>3

\* Erasing a store that a later one of its block overwrites, with nothing in
\* between that reads or writes memory.
LEMMA StoreKilled ==
  ASSUME NEW P, NEW env, NEW path, IsScene(P, env, path),
         NEW L \in SUBSET Id, NEW M \in [Id -> [Slot -> Value]],
         UsesAlive(L, M), UsesWellPlaced(P, M),
         NEW i \in L, NEW j \in L, P.blk[i] = P.blk[j], i < j,
         P.kind[i] = "store", P.kind[j] \in Stores, M[i][2] = M[j][2],
         \A n \in L : P.blk[n] = P.blk[i] /\ i < n /\ n < j =>
           P.kind[n] \notin Stores \cup Reads \cup {"call"},
         NEW R \in [Id -> [Slot -> Value]], \A n \in Id \ {i} : R[n] = M[n]
  PROVE  Agree(L \ {i}, Run(P, Unmoved(P, L, M), env, path),
                        Run(P, Unmoved(P, L \ {i}, R), env, path))
<1> DEFINE V == L \ {i}
           a == M[i][2]
           c == Unmoved(P, L, M)
           d == Unmoved(P, V, R)
           X(k, n) == PointAt(P, c, env, path, k, n)
           Y(k, n) == PointAt(P, d, env, path, k, n)
           Inside(k, n) == path[k] = P.blk[i] /\ i <= n /\ n < j
           Even(m, m2) == \A z \in V : m2.val[z] = m.val[z]
           Rel(k, n) == IF Inside(k, n)
                        THEN AgreeBut(V, ValueOf(X(k, n), env, a), X(k, n), Y(k, n))
                        ELSE Agree(V, X(k, n), Y(k, n))
           S == {p \in (1..Len(path)) \X (0..N) : Rel(p[1], p[2])}
<1>1. /\ IsRun(P, c, env, path) /\ InPlace(P, c) /\ IsBody(c)
      /\ c.live = L /\ c.args = M /\ c.home = P.blk
  <2>1. IsRun(P, c, env, path) /\ InPlace(P, c) /\ IsBody(c)
    BY UnmovedRuns
  <2>2. c.live = L /\ c.args = M /\ c.home = P.blk
    BY DEF Unmoved, Body
  <2> QED BY <2>1, <2>2
<1>2. /\ IsRun(P, d, env, path) /\ InPlace(P, d) /\ IsBody(d)
      /\ d.live = V /\ d.args = R /\ d.home = P.blk
  <2>1. V \in SUBSET Id
    OBVIOUS
  <2> HIDE DEF V
  <2>2. IsRun(P, d, env, path) /\ InPlace(P, d) /\ IsBody(d)
    BY <2>1, UnmovedRuns
  <2>3. d.live = V /\ d.args = R /\ d.home = P.blk
    BY DEF Unmoved, Body
  <2> QED BY <2>2, <2>3
<1>3. /\ IsProgram(P) /\ IsEnv(env) /\ N \in Nat /\ V \subseteq Id
      /\ P.blk \in [Id -> Block] /\ P.kind \in [Id -> Kind]
      /\ Len(path) \in Nat /\ Len(path) # 0 /\ Len(path) \in Nat \ {0}
      /\ i \in Int /\ j \in Int /\ i \in Id /\ j \in Id /\ j <= N /\ i > 0
      /\ 1 \in Slot /\ 2 \in Slot
  <2>1. IsProgram(P) /\ IsEnv(env) /\ N \in Nat /\ Len(path) \in Nat /\ Len(path) # 0
    BY <1>1, RunFacts
  <2>2. P.blk \in [Id -> Block] /\ P.kind \in [Id -> Kind]
    BY <1>1, RunFacts
  <2>3. V \subseteq Id
    OBVIOUS
  <2>4. i \in Id /\ j \in Id
    OBVIOUS
  <2>5. i \in Int /\ j \in Int /\ j <= N /\ i > 0
    BY <2>4, SizeAssumption DEF Id
  <2>6. 1 \in Slot /\ 2 \in Slot
    BY DEF Slot
  <2> QED BY <2>1, <2>2, <2>3, <2>4, <2>5, <2>6
<1>4. \A n \in Id, s \in Slot : M[n][s] # i
  <2> SUFFICES ASSUME NEW n \in Id, NEW s \in Slot, M[n][s] = i PROVE FALSE
    OBVIOUS
  <2>1. MayUse(P, i, n, s)
    BY <1>3 DEF UsesWellPlaced
  <2> QED BY <2>1 DEF MayUse, Void
<1>5. ASSUME NEW n \in V, NEW s \in Slot
      PROVE  R[n][s] = M[n][s] /\ (M[n][s] \in Id => M[n][s] \in V)
  BY <1>3, <1>4 DEF UsesAlive
<1>6. a \in Id => ~(P.blk[a] = P.blk[i] /\ i <= a)
  <2> SUFFICES ASSUME a \in Id PROVE ~(P.blk[a] = P.blk[i] /\ i <= a)
    OBVIOUS
  <2>1. Before(P, a, i)
    BY <1>3 DEF UsesWellPlaced, MayUse
  <2>2. a \in Int
    BY SizeAssumption DEF Id
  <2> QED BY <1>3, <2>1, <2>2 DEF Before
<1> HIDE DEF c, d, V, a
<1>7. ASSUME NEW m, NEW m2, Even(m, m2), NEW n \in V, NEW s \in Slot
      PROVE  ValueOf(m, env, c.args[n][s]) = ValueOf(m2, env, d.args[n][s])
  BY <1>1, <1>2, <1>5, <1>7 DEF ValueOf
<1>16. \A m, m2 : (Agree(V, m, m2) /\ ~m.trap => Even(m, m2))
  BY DEF Agree
<1> HIDE DEF Even
<1>8. ASSUME NEW k \in 1..Len(path),
             Agree(V, Came(P, c, env, path, k), Came(P, d, env, path, k))
      PROVE  Rel(k, 0)
  <2> DEFINE m == Came(P, c, env, path, k)
             m2 == Came(P, d, env, path, k)
  <2>1. m \in Machines /\ m2 \in Machines
    BY <1>1, <1>2, RunType
  <2>2. /\ X(k, 0) = Phis(P, c, m, env, Origin(path, k), path[k])
        /\ Y(k, 0) = Phis(P, d, m2, env, Origin(path, k), path[k])
    BY <1>3, EntryIs
  <2>3. Agree(V, m, m2)
    BY <1>8
  <2> HIDE DEF m, m2
  <2>4. ASSUME NEW n \in V
        PROVE  /\ n \in c.live <=> n \in d.live
               /\ c.home[n] = d.home[n]
               /\ ~m.trap /\ n \in c.live /\ c.home[n] = path[k] /\ P.kind[n] = "phi" =>
                    ValueOf(m, env, c.args[n][Incoming(P, n, Origin(path, k))])
                  = ValueOf(m2, env, d.args[n][Incoming(P, n, Origin(path, k))])
    <3>1. n \in c.live /\ n \in d.live /\ c.home[n] = d.home[n]
      BY <1>1, <1>2, <2>4 DEF V
    <3>2. ASSUME ~m.trap, c.home[n] = path[k], P.kind[n] = "phi"
          PROVE  ValueOf(m, env, c.args[n][Incoming(P, n, Origin(path, k))])
               = ValueOf(m2, env, d.args[n][Incoming(P, n, Origin(path, k))])
      <4>0. n \in Id
        BY <1>3
      <4>1. k > 1 /\ Incoming(P, n, path[k - 1]) \in Slot
        BY <1>1, <3>2, <4>0, IncomingIs
      <4>2. Incoming(P, n, Origin(path, k)) \in Slot
        BY <4>1 DEF Origin
      <4>3. Even(m, m2)
        BY <1>16, <2>3, <3>2
      <4> QED BY <1>7, <2>4, <4>0, <4>2, <4>3
    <3> QED BY <3>1, <3>2
  <2>5. Agree(V, Phis(P, c, m, env, Origin(path, k), path[k]),
                 Phis(P, d, m2, env, Origin(path, k), path[k]))
    BY <1>3, <2>1, <2>3, <2>4, AgreePhis
  <2>6. ~Inside(k, 0)
    BY <1>3
  <2> HIDE DEF X, Y, Inside
  <2> QED BY <2>2, <2>5, <2>6
<1>9. ASSUME NEW k \in 1..Len(path), NEW n \in 1..N, Rel(k, n - 1)
      PROVE  Rel(k, n)
  <2> DEFINE m == X(k, n - 1)
             m2 == Y(k, n - 1)
             x == ValueOf(m, env, M[n][1])
             y == ValueOf(m, env, M[n][2])
             Runs == P.blk[n] = path[k] /\ P.kind[n] # "phi"
  <2>1. n - 1 \in 0..N /\ n \in Id /\ n \in Int
    BY <1>3 DEF Id
  <2>2. m \in Machines /\ m2 \in Machines
    BY <1>1, <1>2, <2>1, RunType
  <2>3. ~m.trap /\ Runs /\ n \in L => X(k, n) = Effect(P.kind[n], m, env, n, x, y)
    BY <1>1, <2>1, Executed
  <2>4. m.trap \/ ~(Runs /\ n \in L) => X(k, n) = m
    BY <1>1, <2>1, Unexecuted
  <2>5. m2.trap \/ ~(Runs /\ n \in V) => Y(k, n) = m2
    BY <1>2, <2>1, Unexecuted
  <2>6. ASSUME ~m.trap, ~m2.trap, Runs, n \in V, Even(m, m2)
        PROVE  Y(k, n) = Effect(P.kind[n], m2, env, n, x, y)
    <3>1. Y(k, n) = Effect(P.kind[n], m2, env, n, ValueOf(m2, env, d.args[n][1]),
                                                  ValueOf(m2, env, d.args[n][2]))
      BY <1>2, <2>1, <2>6, Executed
    <3>2. ValueOf(m2, env, d.args[n][1]) = x /\ ValueOf(m2, env, d.args[n][2]) = y
      BY <1>1, <1>3, <1>7, <2>6
    <3> QED BY <3>1, <3>2
  <2>7. P.kind[n] \in Kind
    BY <1>3, <2>1
  <2> HIDE DEF m, m2, X, Y
  <2>8. CASE m.trap
    <3>1. X(k, n).trap
      BY <2>4, <2>8
    <3> QED BY <3>1 DEF Agree, AgreeBut
  <2>9. CASE ~m.trap /\ ~Inside(k, n - 1) /\ ~Inside(k, n)
    <3>1. Agree(V, m, m2)
      BY <1>9, <2>9 DEF m, m2
    <3>2. ~m2.trap /\ Even(m, m2)
      BY <2>9, <3>1 DEF Agree, Even
    <3>3. Agree(V, X(k, n), Y(k, n))
      <4>1. CASE Runs /\ n \in V
        <5>1. n \in L
          BY <4>1 DEF V
        <5> HIDE DEF x, y
        <5>2. Agree(V, Effect(P.kind[n], m, env, n, x, y), Effect(P.kind[n], m2, env, n, x, y))
          BY <1>3, <2>2, <2>7, <2>9, <3>1, <4>1, AgreeEffect
        <5> QED BY <2>3, <2>6, <2>9, <3>2, <4>1, <5>1, <5>2
      <4>2. CASE ~(Runs /\ n \in V)
        <5>1. ~(Runs /\ n \in L)
          <6> SUFFICES ASSUME Runs, n = i PROVE FALSE
            BY <4>2 DEF V
          <6>1. Inside(k, n)
            BY <1>3
          <6> QED BY <2>9, <6>1
        <5> QED BY <2>4, <2>5, <3>1, <4>2, <5>1
      <4> QED BY <4>1, <4>2
    <3> HIDE DEF Inside
    <3> QED BY <2>9, <3>3
  <2>10. CASE ~m.trap /\ ~Inside(k, n - 1) /\ Inside(k, n)
    <3>1. Agree(V, m, m2)
      BY <1>9, <2>10 DEF m, m2
    <3>2. n = i /\ path[k] = P.blk[i]
      BY <1>3, <2>1, <2>10
    <3>3. Runs /\ n \in L /\ n \notin V /\ n \in Id \ V
      BY <2>1, <3>2 DEF V
    <3>4. X(k, n) = Effect("store", m, env, n, x, y) /\ Y(k, n) = m2
      BY <2>3, <2>5, <2>10, <3>2, <3>3
    <3>5. AgreeBut(V, y, X(k, n), Y(k, n))
      <4> HIDE DEF x, y
      <4> QED BY <1>3, <2>2, <2>10, <3>1, <3>3, <3>4, ButBegins
    <3>6. ~X(k, n).trap => ValueOf(X(k, n), env, a) = y
      <4>1. ~X(k, n).trap => \A z \in Id : X(k, n).val[z] = m.val[z]
        <5> HIDE DEF x, y
        <5>1. Result("store", m, env, n, x, y) = m.val[n]
          BY DEF Result, Reads, Loads, Computed
        <5> QED BY <2>1, <2>2, <3>4, <5>1 DEF Effect, Machines
      <4> QED BY <3>2, <4>1 DEF ValueOf, a
    <3>7. AgreeBut(V, ValueOf(X(k, n), env, a), X(k, n), Y(k, n))
      BY <3>5, <3>6 DEF AgreeBut
    <3> HIDE DEF Inside
    <3> QED BY <2>10, <3>7
  <2>11. CASE ~m.trap /\ Inside(k, n - 1) /\ Inside(k, n)
    <3> DEFINE z == ValueOf(m, env, a)
    <3>1. AgreeBut(V, z, m, m2)
      BY <1>9, <2>11 DEF m, m2
    <3>2. i < n /\ n < j /\ path[k] = P.blk[i] /\ n # i
      BY <1>3, <2>1, <2>11
    <3>3. ~m2.trap /\ Even(m, m2)
      BY <2>11, <3>1 DEF AgreeBut, Even
    <3>4. ~X(k, n).trap => ValueOf(X(k, n), env, a) = z
      <4>1. a \in Id => ~(a = n /\ P.blk[n] = path[k] /\ P.kind[n] # "phi")
        BY <1>3, <1>6, <2>1, <3>2
      <4>2. a \in Id /\ ~X(k, n).trap => X(k, n).val[a] = m.val[a]
        <5> SUFFICES ASSUME a \in Id, ~X(k, n).trap PROVE X(k, n).val[a] = m.val[a]
          OBVIOUS
        <5> QED BY <1>1, <2>1, <4>1, OneChanges DEF X, m
      <4> QED BY <4>2 DEF ValueOf
    <3>5. AgreeBut(V, z, X(k, n), Y(k, n))
      <4>1. CASE Runs /\ n \in L
        <5>1. n \in V /\ P.kind[n] \notin Stores \cup Reads \cup {"call"}
          BY <3>2, <4>1 DEF V
        <5> HIDE DEF x, y, z
        <5>2. AgreeBut(V, z, Effect(P.kind[n], m, env, n, x, y),
                             Effect(P.kind[n], m2, env, n, x, y))
          BY <1>3, <2>2, <2>7, <2>11, <3>1, <5>1, ButEffect
        <5> QED BY <2>3, <2>6, <2>11, <3>3, <4>1, <5>1, <5>2
      <4>2. CASE ~(Runs /\ n \in L)
        <5>1. ~(Runs /\ n \in V)
          BY <4>2 DEF V
        <5> QED BY <2>4, <2>5, <3>1, <4>2, <5>1
      <4> QED BY <4>1, <4>2
    <3>6. AgreeBut(V, ValueOf(X(k, n), env, a), X(k, n), Y(k, n))
      BY <3>4, <3>5 DEF AgreeBut
    <3> HIDE DEF Inside
    <3> QED BY <2>11, <3>6
  <2>12. CASE ~m.trap /\ Inside(k, n - 1) /\ ~Inside(k, n)
    <3> DEFINE z == ValueOf(m, env, a)
    <3>1. AgreeBut(V, z, m, m2)
      BY <1>9, <2>12 DEF m, m2
    <3>2. n = j /\ path[k] = P.blk[i] /\ n # i
      BY <1>3, <2>1, <2>12
    <3>3. ~m2.trap /\ Even(m, m2)
      BY <2>12, <3>1 DEF AgreeBut, Even
    <3>4. Runs /\ n \in L /\ n \in V /\ y = z /\ P.kind[n] \in Stores
      BY <3>2 DEF V, a, Stores
    <3>5. Agree(V, X(k, n), Y(k, n))
      <4>1. Agree(V, Effect(P.kind[n], m, env, n, x, z), Effect(P.kind[n], m2, env, n, x, z))
        <5> HIDE DEF x, z
        <5> QED BY <1>3, <2>2, <2>12, <3>1, <3>4, ButEnds
      <4> HIDE DEF x, y, z
      <4> QED BY <2>3, <2>6, <2>12, <3>3, <3>4, <4>1
    <3> HIDE DEF Inside
    <3> QED BY <2>12, <3>5
  <2> HIDE DEF Inside, Rel
  <2> QED BY <2>8, <2>9, <2>10, <2>11, <2>12
<1>10. ASSUME NEW k \in 1..Len(path), Rel(k, N)
       PROVE  Agree(V, X(k, N), Y(k, N))
  <2>1. ~Inside(k, N)
    BY <1>3
  <2> QED BY <1>10, <2>1
<1> HIDE DEF Rel, X, Y
<1>11. <<1, 0>> \in S
  <2>1. Agree(V, Machine(env), Machine(env))
    BY DEF Agree, Machine
  <2>2. 1 \in 1..Len(path) /\ 0 \in 0..N
    BY <1>3
  <2>3. Rel(1, 0)
    BY <1>8, <2>1, <2>2 DEF Came
  <2> QED BY <2>2, <2>3
<1>12. ASSUME NEW k \in 1..Len(path), NEW n \in 1..N, <<k, n - 1>> \in S
       PROVE  <<k, n>> \in S
  <2>1. n \in 0..N
    BY <1>3
  <2> QED BY <1>9, <1>12, <2>1
<1>13. ASSUME NEW k \in 2..Len(path), <<k - 1, N>> \in S
       PROVE  <<k, 0>> \in S
  <2>1. k \in 1..Len(path) /\ k # 1 /\ 0 \in 0..N
    BY <1>3
  <2>2. k - 1 \in 1..Len(path) /\ Rel(k - 1, N)
    BY <1>13
  <2>3. Agree(V, Came(P, c, env, path, k), Came(P, d, env, path, k))
    BY <1>10, <2>1, <2>2 DEF Came, X, Y
  <2>4. Rel(k, 0)
    BY <1>8, <2>1, <2>3
  <2> QED BY <2>1, <2>4
<1>14. <<Len(path), N>> \in S
  <2>1. Len(path) \in 1..Len(path) /\ N \in 0..N
    BY <1>3
  <2> HIDE DEF S
  <2> QED BY <1>3, <1>11, <1>12, <1>13, <2>1, RunInduction
<1>15. Agree(V, X(Len(path), N), Y(Len(path), N))
  <2>1. Len(path) \in 1..Len(path)
    BY <1>3
  <2> QED BY <1>10, <1>14, <2>1
<1> QED BY <1>3, <1>15, RunIs DEF X, Y, c, d, V

-----------------------------------------------------------------------------
(* Two orders of the same instructions.                                    *)

\* O lists the instructions, and R tells the place of each in the list.
Enumerates(O, R) ==
  /\ O \in [1..N -> Id]
  /\ R \in [Id -> 1..N]
  /\ \A x \in Id : O[R[x]] = x
  /\ \A n \in 1..N : R[O[n]] = n

\* The members of B come in the same order in both.
SameOrderOn(B, R, Q) == \A x, y \in B : R[x] < R[y] <=> Q[x] < Q[y]

\* The same members of B are among the first n of one and the first m of the other.
InStep(B, R, Q, n, m) == \A x \in B : R[x] <= n <=> Q[x] <= m

\* One more step of the two, in the first, in the second or in both.
LEMMA NextInterleaved ==
  ASSUME NEW O, NEW R, Enumerates(O, R), NEW U, NEW Q, Enumerates(U, Q),
         NEW B \in SUBSET Id, SameOrderOn(B, R, Q),
         NEW n \in 0..N, NEW m \in 0..N, InStep(B, R, Q, n, m), n # N \/ m # N
  PROVE  \/ n # N /\ O[n + 1] \notin B /\ InStep(B, R, Q, n + 1, m)
         \/ m # N /\ U[m + 1] \notin B /\ InStep(B, R, Q, n, m + 1)
         \/ /\ n # N /\ m # N /\ O[n + 1] = U[m + 1] /\ O[n + 1] \in B
            /\ InStep(B, R, Q, n + 1, m + 1)
<1>0. N \in Nat /\ n \in Nat /\ m \in Nat /\ n <= N /\ m <= N
  BY SizeAssumption
<1>1. \A x \in Id : R[x] \in Nat /\ R[x] <= N /\ Q[x] \in Nat /\ Q[x] <= N
  BY <1>0 DEF Enumerates
<1>2. n # N => /\ n + 1 \in 1..N /\ O[n + 1] \in Id /\ R[O[n + 1]] = n + 1
               /\ \A x \in Id : R[x] = n + 1 => x = O[n + 1]
  BY <1>0 DEF Enumerates
<1>3. m # N => /\ m + 1 \in 1..N /\ U[m + 1] \in Id /\ Q[U[m + 1]] = m + 1
               /\ \A x \in Id : Q[x] = m + 1 => x = U[m + 1]
  BY <1>0 DEF Enumerates
<1>4. CASE n # N /\ O[n + 1] \notin B
  <2>1. InStep(B, R, Q, n + 1, m)
    <3> SUFFICES ASSUME NEW x \in B PROVE R[x] <= n + 1 <=> Q[x] <= m
      BY DEF InStep
    <3>1. R[x] # n + 1
      BY <1>2, <1>4
    <3>2. R[x] <= n <=> Q[x] <= m
      BY DEF InStep
    <3> QED BY <1>0, <1>1, <3>1, <3>2
  <2> QED BY <1>4, <2>1
<1>5. CASE m # N /\ U[m + 1] \notin B
  <2>1. InStep(B, R, Q, n, m + 1)
    <3> SUFFICES ASSUME NEW x \in B PROVE R[x] <= n <=> Q[x] <= m + 1
      BY DEF InStep
    <3>1. Q[x] # m + 1
      BY <1>3, <1>5
    <3>2. R[x] <= n <=> Q[x] <= m
      BY DEF InStep
    <3> QED BY <1>0, <1>1, <3>1, <3>2
  <2> QED BY <1>5, <2>1
<1>6. CASE /\ n # N => O[n + 1] \in B
           /\ m # N => U[m + 1] \in B
  <2>1. n # N => m # N
    <3> SUFFICES ASSUME n # N, m = N PROVE FALSE
      OBVIOUS
    <3>1. R[O[n + 1]] <= n
      BY <1>1, <1>2, <1>6 DEF InStep
    <3> QED BY <1>0, <1>2, <3>1
  <2>2. m # N => n # N
    <3> SUFFICES ASSUME m # N, n = N PROVE FALSE
      OBVIOUS
    <3>1. Q[U[m + 1]] <= m
      BY <1>1, <1>3, <1>6 DEF InStep
    <3> QED BY <1>0, <1>3, <3>1
  <2>3. n # N /\ m # N
    BY <2>1, <2>2
  <2> DEFINE x == O[n + 1]
             y == U[m + 1]
  <2>4. x \in B /\ y \in B /\ R[x] = n + 1 /\ Q[y] = m + 1
    BY <1>2, <1>3, <1>6, <2>3
  <2>5. Q[x] > m /\ R[y] > n
    BY <1>0, <1>1, <2>4 DEF InStep
  <2>6. x = y
    <3> SUFFICES ASSUME x # y PROVE FALSE
      OBVIOUS
    <3> HIDE DEF x, y
    <3>1. Q[x] # m + 1 /\ R[y] # n + 1
      BY <1>2, <1>3, <2>3, <2>4 DEF x, y
    <3>2. Q[y] < Q[x] /\ R[x] < R[y]
      BY <1>0, <1>1, <2>4, <2>5, <3>1
    <3>3. R[y] < R[x]
      BY <2>4, <3>2 DEF SameOrderOn
    <3> QED BY <1>1, <2>4, <3>2, <3>3
  <2>7. InStep(B, R, Q, n + 1, m + 1)
    <3> SUFFICES ASSUME NEW z \in B PROVE R[z] <= n + 1 <=> Q[z] <= m + 1
      BY DEF InStep
    <3>1. R[z] <= n <=> Q[z] <= m
      BY DEF InStep
    <3>2. R[z] = n + 1 <=> Q[z] = m + 1
      BY <1>2, <1>3, <2>3, <2>4, <2>6
    <3> QED BY <1>0, <1>1, <3>1, <3>2
  <2> QED BY <2>3, <2>4, <2>6, <2>7
<1> QED BY <1>4, <1>5, <1>6

\* What holds at the start of two lists and after each of these steps holds
\* at their end.
LEMMA Interleaved ==
  ASSUME NEW O, NEW R, Enumerates(O, R), NEW U, NEW Q, Enumerates(U, Q),
         NEW B \in SUBSET Id, SameOrderOn(B, R, Q), NEW S, <<0, 0>> \in S,
         \A n \in 1..N, m \in 0..N :
           <<n - 1, m>> \in S /\ InStep(B, R, Q, n - 1, m) /\ O[n] \notin B => <<n, m>> \in S,
         \A n \in 0..N, m \in 1..N :
           <<n, m - 1>> \in S /\ InStep(B, R, Q, n, m - 1) /\ U[m] \notin B => <<n, m>> \in S,
         \A n \in 1..N, m \in 1..N :
           <<n - 1, m - 1>> \in S /\ InStep(B, R, Q, n - 1, m - 1)
             /\ O[n] = U[m] /\ O[n] \in B => <<n, m>> \in S
  PROVE  <<N, N>> \in S
<1> DEFINE At(n, m) == <<n, m>> \in S /\ InStep(B, R, Q, n, m)
           W == {t \in 0..N + N : \E n, m \in 0..N : t <= n + m /\ At(n, m)}
<1>0. N \in Nat /\ N + N \in Nat
  BY SizeAssumption
<1>1. At(0, 0)
  BY DEF InStep, Enumerates
<1> HIDE DEF At
<1>2. 0 \in W
  BY <1>0, <1>1
<1>3. \A t \in 0..(N + N) - 1 : t \in W => t + 1 \in W
  <2> SUFFICES ASSUME NEW t \in 0..(N + N) - 1, t \in W PROVE t + 1 \in W
    OBVIOUS
  <2>1. PICK n \in 0..N, m \in 0..N : t <= n + m /\ At(n, m)
    OBVIOUS
  <2>2. t \in Nat /\ n \in Nat /\ m \in Nat /\ n <= N /\ m <= N /\ t < N + N
        /\ t + 1 \in 0..N + N
    BY ONLY <1>0, t \in 0..(N + N) - 1, n \in 0..N, m \in 0..N
  <2>3. ASSUME NEW x \in 0..N, NEW y \in 0..N, t + 1 <= x + y, At(x, y)
        PROVE  t + 1 \in W
    BY <2>2, <2>3
  <2> HIDE DEF W
  <2>4. CASE t + 1 <= n + m
    BY <2>1, <2>3, <2>4
  <2>5. CASE ~(t + 1 <= n + m)
    <3>1. n # N \/ m # N
      BY ONLY <1>0, <2>1, <2>2, <2>5
    <3>2. InStep(B, R, Q, n, m) /\ <<n, m>> \in S
      BY <2>1 DEF At
    <3>3. CASE n # N /\ O[n + 1] \notin B /\ InStep(B, R, Q, n + 1, m)
      <4>1. n + 1 \in 1..N /\ n + 1 \in 0..N /\ (n + 1) - 1 = n /\ t + 1 <= (n + 1) + m
        BY ONLY <1>0, <2>1, <2>2, <3>3
      <4>2. At(n + 1, m)
        BY <3>2, <3>3, <4>1 DEF At
      <4> QED BY <2>3, <4>1, <4>2
    <3>4. CASE m # N /\ U[m + 1] \notin B /\ InStep(B, R, Q, n, m + 1)
      <4>1. m + 1 \in 1..N /\ m + 1 \in 0..N /\ (m + 1) - 1 = m /\ t + 1 <= n + (m + 1)
        BY ONLY <1>0, <2>1, <2>2, <3>4
      <4>2. At(n, m + 1)
        BY <3>2, <3>4, <4>1 DEF At
      <4> QED BY <2>3, <4>1, <4>2
    <3>5. CASE /\ n # N /\ m # N /\ O[n + 1] = U[m + 1] /\ O[n + 1] \in B
               /\ InStep(B, R, Q, n + 1, m + 1)
      <4>1. /\ n + 1 \in 1..N /\ n + 1 \in 0..N /\ (n + 1) - 1 = n
            /\ m + 1 \in 1..N /\ m + 1 \in 0..N /\ (m + 1) - 1 = m
            /\ t + 1 <= (n + 1) + (m + 1)
        BY ONLY <1>0, <2>1, <2>2, <3>5
      <4>2. At(n + 1, m + 1)
        BY <3>2, <3>5, <4>1 DEF At
      <4> QED BY <2>3, <4>1, <4>2
    <3> QED BY <3>1, <3>2, <3>3, <3>4, <3>5, NextInterleaved
  <2> QED BY <2>4, <2>5
<1> HIDE DEF W
<1>4. \A t \in 0..N + N : t \in W
  BY <1>0, <1>2, <1>3, BoundedInduction
<1>5. N + N \in W
  BY ONLY <1>0, <1>4
<1>6. PICK n \in 0..N, m \in 0..N : N + N <= n + m /\ At(n, m)
  BY <1>5 DEF W
<1>7. n = N /\ m = N
  BY ONLY <1>0, <1>6, n \in 0..N, m \in 0..N
<1> QED BY <1>6, <1>7 DEF At

\* The steps of the two lists in the blocks of a path, one after another: S
\* holds at the start and after each of them, B[k] being what is in block k.
Marches(O, R, U, Q, L, B, S) ==
  /\ Enumerates(O, R) /\ Enumerates(U, Q)
  /\ L \in Nat /\ L # 0
  /\ \A k \in 1..L : B[k] \in SUBSET Id /\ SameOrderOn(B[k], R, Q)
  /\ <<1, 0, 0>> \in S
  /\ \A k \in 2..L : <<k - 1, N, N>> \in S => <<k, 0, 0>> \in S
  /\ \A k \in 1..L, n \in 1..N, m \in 0..N :
       <<k, n - 1, m>> \in S /\ InStep(B[k], R, Q, n - 1, m)
         /\ O[n] \notin B[k] => <<k, n, m>> \in S
  /\ \A k \in 1..L, n \in 0..N, m \in 1..N :
       <<k, n, m - 1>> \in S /\ InStep(B[k], R, Q, n, m - 1)
         /\ U[m] \notin B[k] => <<k, n, m>> \in S
  /\ \A k \in 1..L, n \in 1..N, m \in 1..N :
       <<k, n - 1, m - 1>> \in S /\ InStep(B[k], R, Q, n - 1, m - 1)
         /\ O[n] = U[m] /\ O[n] \in B[k] => <<k, n, m>> \in S

LEMMA InterleavedRuns ==
  ASSUME NEW O, NEW R, NEW U, NEW Q, NEW L, NEW B, NEW S,
         Marches(O, R, U, Q, L, B, S)
  PROVE  \A k \in 1..L : <<k, N, N>> \in S
<1> USE DEF Marches
<1> DEFINE W == {k \in 0..L : k = 0 \/ <<k, N, N>> \in S}
<1>1. ASSUME NEW k \in 1..L, <<k, 0, 0>> \in S
      PROVE  <<k, N, N>> \in S
  <2> DEFINE T == {p \in (0..N) \X (0..N) : <<k, p[1], p[2]>> \in S}
  <2>0. N \in Nat
    BY SizeAssumption
  <2>1. \A n, m \in 0..N : <<n, m>> \in T <=> <<k, n, m>> \in S
    OBVIOUS
  <2>2. B[k] \in SUBSET Id /\ SameOrderOn(B[k], R, Q)
    OBVIOUS
  <2>3. \A n \in 1..N : n \in 0..N /\ n - 1 \in 0..N
    BY ONLY <2>0
  <2> HIDE DEF T
  <2>4. <<0, 0>> \in T
    BY <1>1, <2>0, <2>1
  <2>5. \A n \in 1..N, m \in 0..N :
          <<n - 1, m>> \in T /\ InStep(B[k], R, Q, n - 1, m) /\ O[n] \notin B[k]
            => <<n, m>> \in T
    BY <2>1, <2>3
  <2>6. \A n \in 0..N, m \in 1..N :
          <<n, m - 1>> \in T /\ InStep(B[k], R, Q, n, m - 1) /\ U[m] \notin B[k]
            => <<n, m>> \in T
    BY <2>1, <2>3
  <2>7. \A n \in 1..N, m \in 1..N :
          <<n - 1, m - 1>> \in T /\ InStep(B[k], R, Q, n - 1, m - 1)
            /\ O[n] = U[m] /\ O[n] \in B[k] => <<n, m>> \in T
    BY <2>1, <2>3
  <2>8. <<N, N>> \in T
    BY <2>2, <2>4, <2>5, <2>6, <2>7, Interleaved
  <2> QED BY <2>0, <2>1, <2>8
<1>2. 0 \in W
  <2>1. 0 \in 0..L
    BY ONLY L \in Nat
  <2> QED BY <2>1
<1>3. \A k \in 0..L - 1 : k \in W => k + 1 \in W
  <2> SUFFICES ASSUME NEW k \in 0..L - 1, k \in W PROVE k + 1 \in W
    OBVIOUS
  <2>1. k + 1 \in 1..L /\ k + 1 \in 0..L
    BY ONLY L \in Nat, k \in 0..L - 1
  <2>2. <<k + 1, 0, 0>> \in S
    <3>1. CASE k = 0
      <4>1. k + 1 = 1
        BY ONLY <3>1
      <4> QED BY <4>1
    <3>2. CASE k # 0
      <4>1. k + 1 \in 2..L /\ (k + 1) - 1 = k
        BY ONLY L \in Nat, <3>2, k \in 0..L - 1
      <4> QED BY <3>2, <4>1
    <3> QED BY <3>1, <3>2
  <2>3. <<k + 1, N, N>> \in S
    BY <1>1, <2>1, <2>2
  <2> QED BY <2>1, <2>3
<1> HIDE DEF W
<1>4. \A k \in 0..L : k \in W
  BY <1>2, <1>3, BoundedInduction
<1> SUFFICES ASSUME NEW k \in 1..L PROVE <<k, N, N>> \in S
  OBVIOUS
<1>5. k \in 0..L /\ k # 0
  BY ONLY L \in Nat, k \in 1..L
<1> QED BY <1>4, <1>5 DEF W

\* The numbers that a total order gives to the instructions.
LEMMA Ranking ==
  ASSUME NEW T, NEW R, NEW O,
         \A x \in Id : <<x, x>> \notin T,
         \A x, y \in Id : x # y => <<x, y>> \in T \/ <<y, x>> \in T,
         \A x, y, z \in Id : <<x, y>> \in T /\ <<y, z>> \in T => <<x, z>> \in T,
         R = [x \in Id |-> Cardinality({y \in Id : <<y, x>> \in T}) + 1],
         O = [n \in Id |-> CHOOSE x \in Id : R[x] = n]
  PROVE  /\ Enumerates(O, R)
         /\ \A x, y \in Id : R[x] < R[y] <=> <<x, y>> \in T
<1> DEFINE Ahead(x) == {y \in Id : <<y, x>> \in T}
<1>1. IsFiniteSet(Id) /\ Cardinality(Id) = N /\ N \in Nat /\ Id = 1..N
  <2>1. 1 \in Int /\ N \in Int /\ N \in Nat
    BY SizeAssumption
  <2>2. IsFiniteSet(1..N)
    BY <2>1, FS_Interval
  <2> QED BY <2>1, <2>2, IdCount DEF Id
<1>2. ASSUME NEW x \in Id
      PROVE  /\ IsFiniteSet(Ahead(x))
             /\ Cardinality(Ahead(x)) \in Nat
             /\ Cardinality(Ahead(x)) < N
             /\ R[x] = Cardinality(Ahead(x)) + 1
  <2>1. Ahead(x) \in SUBSET Id /\ x \in Id \ Ahead(x)
    OBVIOUS
  <2>2. R[x] = Cardinality(Ahead(x)) + 1
    OBVIOUS
  <2> HIDE DEF Ahead
  <2>3. /\ IsFiniteSet(Ahead(x)) /\ Cardinality(Ahead(x)) <= N
        /\ Cardinality(Ahead(x)) # N
    BY <1>1, <2>1, FS_Subset
  <2>4. Cardinality(Ahead(x)) \in Nat
    BY <2>3, FS_CardinalityType
  <2>5. Cardinality(Ahead(x)) < N
    BY ONLY <1>1, <2>3, <2>4
  <2> QED BY <2>2, <2>3, <2>4, <2>5
<1>3. ASSUME NEW x \in Id PROVE R[x] \in Id /\ R[x] \in Nat
  <2> DEFINE c == Cardinality(Ahead(x))
  <2>1. c \in Nat /\ c < N /\ R[x] = c + 1
    BY <1>2
  <2> HIDE DEF c
  <2>2. c + 1 \in 1..N /\ c + 1 \in Nat
    BY ONLY <1>1, <2>1
  <2> QED BY <1>1, <2>1, <2>2
<1>4. ASSUME NEW x \in Id, NEW y \in Id, <<x, y>> \in T
      PROVE  R[x] < R[y]
  <2>1. Ahead(x) \in SUBSET Ahead(y)
    BY <1>4
  <2>2. x \in Ahead(y) \ Ahead(x)
    BY <1>4
  <2>3. /\ Cardinality(Ahead(x)) <= Cardinality(Ahead(y))
        /\ Cardinality(Ahead(x)) # Cardinality(Ahead(y))
    BY <1>2, <2>1, <2>2, FS_Subset
  <2> HIDE DEF Ahead
  <2> QED BY <1>2, <2>3
<1> HIDE DEF Ahead
<1>5. \A x, y \in Id : R[x] < R[y] <=> <<x, y>> \in T
  <2> SUFFICES ASSUME NEW x \in Id, NEW y \in Id, R[x] < R[y] PROVE <<x, y>> \in T
    BY <1>4
  <2>1. R[x] \in Nat /\ R[y] \in Nat
    BY <1>3
  <2>2. R[x] # R[y] /\ ~(R[y] < R[x])
    BY ONLY <2>1, R[x] < R[y]
  <2>3. x # y
    BY <2>2
  <2> QED BY <1>4, <2>2, <2>3
<1>6. \A x, y \in Id : R[x] = R[y] => x = y
  <2> SUFFICES ASSUME NEW x \in Id, NEW y \in Id, x # y PROVE R[x] # R[y]
    OBVIOUS
  <2>1. R[x] < R[y] \/ R[y] < R[x]
    BY <1>4
  <2> QED BY <1>3, <2>1
<1>7. R \in [Id -> Id]
  BY <1>3
<1>8. \A n \in Id : \E x \in Id : R[x] = n
  <2>1. R \in Injection(Id, Id)
    BY <1>6, <1>7 DEF Injection, IsInjective
  <2>2. R \in Surjection(Id, Id)
    BY <1>1, <1>7, <2>1, FS_Injection
  <2> QED BY <2>2 DEF Surjection
<1>9. \A n \in Id : O[n] \in Id /\ R[O[n]] = n
  BY <1>8
<1>10. O \in [Id -> Id]
  BY <1>9
<1>11. \A x \in Id : O[R[x]] = x
  BY <1>3, <1>6, <1>9
<1> QED BY <1>1, <1>5, <1>7, <1>9, <1>10, <1>11 DEF Enumerates

\* Only the order within each block matters.
LEMMA Reordered ==
  ASSUME NEW P, NEW c, NEW d, NEW env, NEW path,
         IsRun(P, c, env, path), IsRun(P, d, env, path),
         d.live = c.live, d.args = c.args, d.home = c.home,
         NEW R, Enumerates(c.order, R), NEW Q, Enumerates(d.order, Q),
         \A x, y \in Id : c.home[x] = c.home[y] => (R[x] < R[y] <=> Q[x] < Q[y])
  PROVE  Run(P, d, env, path) = Run(P, c, env, path)
<1> DEFINE L == Len(path)
           X(k, n) == PointAt(P, c, env, path, k, n)
           Y(k, n) == PointAt(P, d, env, path, k, n)
           B == [k \in 1..L |-> {x \in Id : c.home[x] = path[k]}]
           S == {t \in (1..L) \X (0..N) \X (0..N) : X(t[1], t[2]) = Y(t[1], t[3])}
<1>1. L \in Nat /\ L # 0 /\ N \in Nat /\ N \in 0..N
  BY RunFacts
<1>2. \A k \in 1..L, n, m \in 0..N : <<k, n, m>> \in S <=> X(k, n) = Y(k, m)
  OBVIOUS
<1>3. \A n \in 1..N : n \in 0..N /\ n - 1 \in 0..N
  BY ONLY <1>1
<1>4. ASSUME NEW k \in 1..L,
             Came(P, c, env, path, k) = Came(P, d, env, path, k)
      PROVE  X(k, 0) = Y(k, 0)
  <2>1. /\ X(k, 0) = Phis(P, c, Came(P, c, env, path, k), env, Origin(path, k), path[k])
        /\ Y(k, 0) = Phis(P, d, Came(P, d, env, path, k), env, Origin(path, k), path[k])
    BY <1>1, EntryIs
  <2> QED BY <1>4, <2>1 DEF Phis
<1>5. /\ \A k \in 1..L, n \in 1..N :
           X(k, n) = Turn(P, c, env, path[k], c.order[n], X(k, n - 1))
      /\ \A k \in 1..L, n \in 1..N :
           Y(k, n) = Turn(P, d, env, path[k], d.order[n], Y(k, n - 1))
  BY <1>1, TurnIs
<1>6. \A k \in 1..L : B[k] \in SUBSET Id /\ SameOrderOn(B[k], R, Q)
  BY DEF SameOrderOn
<1>7. ASSUME NEW k \in 1..L, NEW x \in Id, x \notin B[k], NEW m
      PROVE  /\ Turn(P, c, env, path[k], x, m) = m
             /\ Turn(P, d, env, path[k], x, m) = m
  BY <1>7 DEF Turn
<1>8. \A b, x, m : Turn(P, c, env, b, x, m) = Turn(P, d, env, b, x, m)
  BY DEF Turn
<1>9. \A n \in 1..N : c.order[n] \in Id /\ d.order[n] \in Id
  BY DEF Enumerates
<1> HIDE DEF S, B, X, Y
<1>10. <<1, 0, 0>> \in S
  <2>1. 1 \in 1..L /\ 0 \in 0..N
    BY ONLY <1>1
  <2>2. Came(P, c, env, path, 1) = Came(P, d, env, path, 1)
    BY DEF Came
  <2> QED BY <1>2, <1>4, <2>1, <2>2
<1>11. ASSUME NEW k \in 2..L, <<k - 1, N, N>> \in S
       PROVE  <<k, 0, 0>> \in S
  <2>1. k \in 1..L /\ k - 1 \in 1..L /\ k # 1 /\ 0 \in 0..N
    BY ONLY <1>1, k \in 2..L
  <2>2. X(k - 1, N) = Y(k - 1, N)
    BY <1>1, <1>2, <1>11, <2>1
  <2>3. Came(P, c, env, path, k) = Came(P, d, env, path, k)
    BY <2>1, <2>2 DEF Came, X, Y
  <2> QED BY <1>2, <1>4, <2>1, <2>3
<1>12. ASSUME NEW k \in 1..L, NEW n \in 1..N, NEW m \in 0..N,
              <<k, n - 1, m>> \in S, c.order[n] \notin B[k]
       PROVE  <<k, n, m>> \in S
  <2>1. n - 1 \in 0..N /\ n \in 0..N
    BY <1>3
  <2>2. X(k, n - 1) = Y(k, m)
    BY <1>2, <1>12, <2>1
  <2>3. X(k, n) = Turn(P, c, env, path[k], c.order[n], X(k, n - 1))
    BY <1>5
  <2>4. c.order[n] \in Id
    BY <1>9
  <2>5. X(k, n) = X(k, n - 1)
    BY <1>7, <1>12, <2>3, <2>4
  <2> QED BY <1>2, <2>1, <2>2, <2>5
<1>13. ASSUME NEW k \in 1..L, NEW n \in 0..N, NEW m \in 1..N,
              <<k, n, m - 1>> \in S, d.order[m] \notin B[k]
       PROVE  <<k, n, m>> \in S
  <2>1. m - 1 \in 0..N /\ m \in 0..N
    BY <1>3
  <2>2. X(k, n) = Y(k, m - 1)
    BY <1>2, <1>13, <2>1
  <2>3. Y(k, m) = Turn(P, d, env, path[k], d.order[m], Y(k, m - 1))
    BY <1>5
  <2>4. d.order[m] \in Id
    BY <1>9
  <2>5. Y(k, m) = Y(k, m - 1)
    BY <1>7, <1>13, <2>3, <2>4
  <2> QED BY <1>2, <2>1, <2>2, <2>5
<1>14. ASSUME NEW k \in 1..L, NEW n \in 1..N, NEW m \in 1..N,
              <<k, n - 1, m - 1>> \in S, c.order[n] = d.order[m]
       PROVE  <<k, n, m>> \in S
  <2>1. n - 1 \in 0..N /\ n \in 0..N /\ m - 1 \in 0..N /\ m \in 0..N
    BY <1>3
  <2>2. X(k, n - 1) = Y(k, m - 1)
    BY <1>2, <1>14, <2>1
  <2>3. X(k, n) = Y(k, m)
    BY <1>5, <1>8, <1>14, <2>2
  <2> QED BY <1>2, <2>1, <2>3
<1>15. \A k \in 1..L : <<k, N, N>> \in S
  <2>1. Marches(c.order, R, d.order, Q, L, B, S)
    BY <1>1, <1>6, <1>10, <1>11, <1>12, <1>13, <1>14 DEF Marches
  <2> QED BY <2>1, InterleavedRuns
<1>16. L \in 1..L
  BY ONLY <1>1
<1>17. X(L, N) = Y(L, N)
  BY <1>1, <1>2, <1>15, <1>16
<1> QED BY <1>1, <1>17, RunIs DEF X, Y

-----------------------------------------------------------------------------
(* One move keeps the behaviour.                                           *)

\* After n turns in block b of body c, where instruction x has its turn after
\* R[x] - 1 others, r has run on every path there.
HasRun(P, c, R, r, b, n) ==
  IF c.home[r] = b THEN R[r] <= n ELSE <<c.home[r], b>> \in Dom[P.graph]

\* Definitions dominate uses in body c.
UsesDominated(P, c, R) ==
  \A x \in Id, s \in Slot : P.args[x][s] \in Id =>
    LET r == P.args[x][s] IN
    IF P.kind[x] = "phi" THEN <<c.home[r], P.from[x][s]>> \in Dom[P.graph]
    ELSE IF c.home[r] = c.home[x] THEN R[r] < R[x]
    ELSE <<c.home[r], c.home[x]>> \in Dom[P.graph]

\* The operations that have no effect but their value.
Pure == {"sub", "gep", "fcmp"}

\* d is c after instruction i has gone from loop l to the end of block p.
IsMove(P, c, R, d, Q, i, l, p) ==
  /\ \A x \in Id : P.kind[x] # "rmw"
  /\ Enumerates(c.order, R) /\ Enumerates(d.order, Q)
  /\ c.live = Id /\ d.live = Id /\ c.args = P.args /\ d.args = P.args
  /\ i \in Id /\ P.kind[i] \in Pure \cup {"load"}
  /\ l \subseteq Block /\ p \in Block \ l /\ c.home[i] \in l /\ d.home[i] = p
  /\ \A x \in Id \ {i} : d.home[x] = c.home[x]
  /\ \A x, y \in Id \ {i} : R[x] < R[y] <=> Q[x] < Q[y]
  /\ \A x \in Id \ {i} : P.kind[x] = "term" <=> Q[i] < Q[x]
  /\ \A b \in l : <<p, b>> \in Dom[P.graph]
  /\ UsesDominated(P, c, R)
  /\ \A s \in Slot : P.args[i][s] \in Id =>
       c.home[P.args[i][s]] \notin l /\ <<c.home[P.args[i][s]], p>> \in Dom[P.graph]

\* A path goes into the loop through p only, from there nowhere else, and
\* ends outside.
IsRoute(path, l, p) ==
  /\ path[1] \notin l
  /\ \A k \in 1..Len(path) - 1 :
       /\ path[k + 1] \in l => path[k] \in l \cup {p}
       /\ path[k] = p => path[k + 1] \in l
  /\ path[Len(path)] \notin l \cup {p}

WritersIn(P, c, l) ==
  {j \in Id : c.home[j] \in l /\ P.kind[j] \in Stores \cup {"call"}}

\* x is the address of something: an alloca, a global variable or any leaf.
HasPlace(P, x) == x \in Id => P.kind[x] = "alloca"

\* i is a load of a cell that the loop does not write, only others.
OfUnwritten(P, c, env, i, l) ==
  LET a == P.args[i][1] IN
  /\ HasPlace(P, a) /\ PlaceOf(env, a) \in Cell
  /\ \A j \in WritersIn(P, c, l) :
       /\ P.kind[j] \in Stores
       /\ HasPlace(P, P.args[j][2])
       /\ PlaceOf(env, P.args[j][2]) # PlaceOf(env, a)

\* Nothing writes in the loop, and who leaves it has come through i.
BoundToRun(P, c, i, l, path) ==
  /\ WritersIn(P, c, l) = {}
  /\ \A k \in 1..Len(path) - 1 :
       path[k] \in l /\ path[k + 1] \notin l =>
         <<c.home[i], path[k + 1]>> \in Dom[P.graph]

\* Where alloca r has run, it has its place.
Placed(P, c, R, env, path, r) ==
  \A k \in 1..Len(path), n \in 0..N :
    HasRun(P, c, R, r, path[k], n) /\ ~PointAt(P, c, env, path, k, n).trap
      => PointAt(P, c, env, path, k, n).val[r] = env.frame[r]

LEMMA Allocated ==
  ASSUME NEW P, NEW c, NEW env, NEW path, IsRun(P, c, env, path),
         NEW R, Enumerates(c.order, R), c.live = Id,
         NEW r \in Id, P.kind[r] = "alloca"
  PROVE  Placed(P, c, R, env, path, r)
<1> DEFINE L == Len(path)
           X(k, n) == PointAt(P, c, env, path, k, n)
           Good(k, n) == HasRun(P, c, R, r, path[k], n) /\ ~X(k, n).trap
                           => X(k, n).val[r] = env.frame[r]
           S == {t \in (1..L) \X (0..N) : Good(t[1], t[2])}
<1>1. L \in Nat /\ L # 0 /\ N \in Nat /\ L \in Nat \ {0} /\ IsProgram(P) /\ P.graph \in Graph
      /\ IsBody(c) /\ path \in Path[P.graph] /\ \A k \in 1..L : path[k] \in Block
  BY RunFacts
<1>2. \A k \in 1..L, n \in 0..N : <<k, n>> \in S <=> Good(k, n)
  OBVIOUS
<1>3. /\ \A k \in 1..L, n \in 0..N : X(k, n) \in Machines
      /\ \A k \in 1..L : Came(P, c, env, path, k) \in Machines
  BY RunType
<1>4. R[r] \in 1..N /\ R[r] > 0 /\ R[r] \in Nat /\ c.home[r] \in Block
  <2>1. R[r] \in 1..N
    BY DEF Enumerates
  <2>2. c.home[r] \in Block
    BY <1>1 DEF IsBody
  <2> QED BY <1>1, <2>1, <2>2
<1> HIDE DEF S
<1>5. ASSUME NEW k \in 1..L
      PROVE  /\ X(k, 0).trap = Came(P, c, env, path, k).trap
             /\ X(k, 0).val[r] = Came(P, c, env, path, k).val[r]
  <2> DEFINE m == Came(P, c, env, path, k)
  <2>1. X(k, 0) = Phis(P, c, m, env, Origin(path, k), path[k])
    BY <1>1, EntryIs
  <2>2. m \in Machines
    BY <1>3
  <2> HIDE DEF m
  <2>3. /\ Phis(P, c, m, env, Origin(path, k), path[k]).trap = m.trap
        /\ Phis(P, c, m, env, Origin(path, k), path[k]).val[r] = m.val[r]
    BY <2>2 DEF Phis, Machines
  <2> QED BY <2>1, <2>3 DEF m
<1>6. <<1, 0>> \in S
  <2>1. 1 \in 1..L /\ 0 \in 0..N
    BY ONLY <1>1
  <2>2. ~HasRun(P, c, R, r, path[1], 0)
    <3> SUFFICES ASSUME HasRun(P, c, R, r, path[1], 0) PROVE FALSE
      OBVIOUS
    <3>1. c.home[r] # path[1]
      BY <1>4 DEF HasRun
    <3>2. <<c.home[r], path[1]>> \in Dom[P.graph]
      BY <3>1 DEF HasRun
    <3> QED BY <1>1, <1>4, <3>1, <3>2, PathAssumption
  <2> QED BY <1>2, <2>1, <2>2
<1>7. ASSUME NEW k \in 1..L, NEW n \in 1..N, <<k, n - 1>> \in S
      PROVE  <<k, n>> \in S
  <2> DEFINE m == X(k, n - 1)
             x == c.order[n]
  <2>1. n \in 0..N /\ n - 1 \in 0..N /\ n \in Nat
    BY ONLY <1>1, n \in 1..N
  <2>2. Good(k, n - 1)
    BY <1>2, <1>7, <2>1
  <2>3. X(k, n) = Turn(P, c, env, path[k], x, m)
    BY <1>1, TurnIs
  <2>4. m \in Machines /\ x \in Id /\ R[x] = n
    BY <1>3, <2>1 DEF Enumerates
  <2> SUFFICES ASSUME HasRun(P, c, R, r, path[k], n), ~X(k, n).trap
               PROVE  X(k, n).val[r] = env.frame[r]
    BY <1>2, <2>1
  <2>5. CASE x = r /\ c.home[r] = path[k]
    <3> HIDE DEF m, x
    <3>1. ~m.trap
      BY <2>3, <2>4 DEF Turn
    <3>2. \E y, z : X(k, n) = Effect("alloca", m, env, r, y, z)
      BY <2>3, <2>4, <2>5, <3>1 DEF Turn
    <3> QED BY <2>4, <3>1, <3>2 DEF Effect, Traps, Result, Machines, Reads, Loads, Stores
  <2>6. CASE ~(x = r /\ c.home[r] = path[k])
    <3>1. HasRun(P, c, R, r, path[k], n - 1)
      <4>1. CASE c.home[r] = path[k]
        <5>1. R[r] <= n /\ R[r] # n
          BY <2>4, <2>6, <4>1 DEF HasRun, Enumerates
        <5>2. R[r] <= n - 1
          BY ONLY <1>1, <1>4, <2>1, <5>1
        <5> QED BY <4>1, <5>2 DEF HasRun
      <4>2. CASE c.home[r] # path[k]
        BY <4>2 DEF HasRun
      <4> QED BY <4>1, <4>2
    <3> HIDE DEF m, x
    <3>2. ~m.trap /\ X(k, n).val[r] = m.val[r]
      <4>1. CASE ~m.trap /\ x \in c.live /\ c.home[x] = path[k] /\ P.kind[x] # "phi"
        <5>1. PICK y, z : X(k, n) = Effect(P.kind[x], m, env, x, y, z)
          BY <2>3, <4>1 DEF Turn
        <5>2. x # r
          BY <2>6, <4>1
        <5> QED BY <2>4, <4>1, <5>1, <5>2 DEF Effect, Machines
      <4>2. CASE ~(~m.trap /\ x \in c.live /\ c.home[x] = path[k] /\ P.kind[x] # "phi")
        BY <2>3, <4>2 DEF Turn
      <4> QED BY <4>1, <4>2
    <3> QED BY <2>2, <3>1, <3>2 DEF m
  <2> QED BY <2>5, <2>6
<1>8. ASSUME NEW k \in 2..L, <<k - 1, N>> \in S
      PROVE  <<k, 0>> \in S
  <2>1. k \in 1..L /\ k - 1 \in 1..L /\ k # 1 /\ 0 \in 0..N /\ N \in 0..N
        /\ k - 1 \in 1..L - 1 /\ (k - 1) + 1 = k
    BY ONLY <1>1, k \in 2..L
  <2>2. Good(k - 1, N)
    BY <1>2, <1>8, <2>1
  <2>3. Came(P, c, env, path, k) = X(k - 1, N)
    BY <2>1 DEF Came
  <2> SUFFICES ASSUME HasRun(P, c, R, r, path[k], 0), ~X(k, 0).trap
               PROVE  X(k, 0).val[r] = env.frame[r]
    BY <1>2, <2>1
  <2>4. c.home[r] # path[k] /\ <<c.home[r], path[k]>> \in Dom[P.graph]
    BY <1>4 DEF HasRun
  <2>5. <<c.home[r], path[k - 1]>> \in Dom[P.graph]
    <3>1. <<c.home[r], path[(k - 1) + 1]>> \in Dom[P.graph] /\ c.home[r] # path[(k - 1) + 1]
      BY <2>1, <2>4
    <3> QED BY <1>1, <1>4, <2>1, <3>1, PathAssumption
  <2>6. HasRun(P, c, R, r, path[k - 1], N)
    BY <1>1, <1>4, <2>5 DEF HasRun
  <2> QED BY <1>5, <2>1, <2>2, <2>3, <2>6
<1>9. \A k \in 1..L, n \in 0..N : <<k, n>> \in S
  BY <1>1, <1>6, <1>7, <1>8, RunInduction
<1> QED BY <1>2, <1>9 DEF Placed

LEMMA ObjectValue ==
  ASSUME NEW P, NEW c, NEW env, NEW path, IsRun(P, c, env, path),
         NEW R, Enumerates(c.order, R), c.live = Id,
         NEW x, HasPlace(P, x), NEW k \in 1..Len(path), NEW n \in 0..N,
         x \in Id => HasRun(P, c, R, x, path[k], n),
         ~PointAt(P, c, env, path, k, n).trap
  PROVE  ValueOf(PointAt(P, c, env, path, k, n), env, x) = PlaceOf(env, x)
<1>1. CASE x \in Id
  <2>1. P.kind[x] = "alloca"
    BY <1>1 DEF HasPlace
  <2>2. HasRun(P, c, R, x, path[k], n)
    BY <1>1
  <2>3. PointAt(P, c, env, path, k, n).val[x] = env.frame[x]
    <3>1. Placed(P, c, R, env, path, x)
      BY <1>1, <2>1, Allocated
    <3> QED BY <2>2, <3>1 DEF Placed
  <2> QED BY <1>1, <2>3 DEF ValueOf, PlaceOf
<1>2. CASE x \notin Id
  BY <1>2 DEF ValueOf, PlaceOf
<1> QED BY <1>1, <1>2

-----------------------------------------------------------------------------
(* What i would do.                                                        *)

Operand(P, m, env, i, s) == ValueOf(m, env, P.args[i][s])

Trapping(P, m, env, i) ==
  Traps(P.kind[i], Operand(P, m, env, i, 1), Operand(P, m, env, i, 2))

Yield(P, m, env, i) ==
  Result(P.kind[i], m, env, i, Operand(P, m, env, i, 1), Operand(P, m, env, i, 2))

\* i would do the same in both.
Steady(P, m, m2, env, i) ==
  /\ \A s \in Slot : Operand(P, m2, env, i, s) = Operand(P, m, env, i, s)
  /\ P.kind[i] = "load" /\ Operand(P, m, env, i, 1) \in Cell =>
       m2.mem[Operand(P, m, env, i, 1)] = m.mem[Operand(P, m, env, i, 1)]

LEMMA SteadyTells ==
  ASSUME NEW P, NEW m, NEW m2, NEW env, NEW i, Steady(P, m, m2, env, i),
         P.kind[i] \in Pure \cup {"load"}
  PROVE  /\ Trapping(P, m2, env, i) <=> Trapping(P, m, env, i)
         /\ ~Trapping(P, m, env, i) => Yield(P, m2, env, i) = Yield(P, m, env, i)
<1>1. /\ Operand(P, m2, env, i, 1) = Operand(P, m, env, i, 1)
      /\ Operand(P, m2, env, i, 2) = Operand(P, m, env, i, 2)
  BY DEF Steady, Slot
<1>2. Trapping(P, m2, env, i) <=> Trapping(P, m, env, i)
  BY <1>1 DEF Trapping
<1>3. ASSUME ~Trapping(P, m, env, i)
      PROVE  Yield(P, m2, env, i) = Yield(P, m, env, i)
  <2>1. CASE P.kind[i] = "load"
    <3>1. Operand(P, m, env, i, 1) \in Cell
      BY <1>3, <2>1 DEF Trapping, Traps, Reads, Loads
    <3>2. m2.mem[Operand(P, m, env, i, 1)] = m.mem[Operand(P, m, env, i, 1)]
      BY <2>1, <3>1 DEF Steady
    <3> QED BY <1>1, <2>1, <3>2 DEF Yield, Result, Reads, Loads
  <2>2. CASE P.kind[i] \in Pure
    <3>1. P.kind[i] \in Computed /\ P.kind[i] \notin Reads /\ P.kind[i] # "alloca"
          /\ P.kind[i] # "call"
      BY <2>2 DEF Pure, Computed, Reads, Loads
    <3> QED BY <1>1, <3>1 DEF Yield, Result
  <2> QED BY <2>1, <2>2
<1> QED BY <1>2, <1>3

\* A pure instruction does not trap.
LEMMA PureNeverTraps ==
  ASSUME NEW P, NEW m, NEW env, NEW i, P.kind[i] \in Pure
  PROVE  ~Trapping(P, m, env, i)
BY DEF Trapping, Traps, Pure, Reads, Loads, Stores

\* What i is to do does not change in the loop, nor at the end of the block
\* before it.
LEMMA SteadyTurn ==
  ASSUME NEW P, NEW c, NEW d, NEW env \in Env, NEW path, IsRun(P, c, env, path),
         NEW R, NEW Q, NEW i, NEW l, NEW p, IsMove(P, c, R, d, Q, i, l, p),
         P.kind[i] = "load" => OfUnwritten(P, c, env, i, l) \/ BoundToRun(P, c, i, l, path),
         NEW k \in 1..Len(path), NEW n \in 1..N,
         path[k] \in l \/ P.kind[c.order[n]] = "term",
         ~PointAt(P, c, env, path, k, n).trap
  PROVE  /\ ~PointAt(P, c, env, path, k, n - 1).trap
         /\ Steady(P, PointAt(P, c, env, path, k, n - 1), PointAt(P, c, env, path, k, n), env, i)
<1> DEFINE m == PointAt(P, c, env, path, k, n - 1)
           m2 == PointAt(P, c, env, path, k, n)
           x == c.order[n]
           a == P.args[i][1]
<1>1. /\ Len(path) \in Nat /\ N \in Nat /\ IsProgram(P) /\ P.graph \in Graph /\ IsBody(c)
      /\ path[k] \in Block /\ P \in Programs
  <2>1. P \in Programs
    BY DEF IsRun
  <2> QED BY <2>1, RunFacts
<1>2. n - 1 \in 0..N /\ n \in 0..N /\ n \in Nat
  BY ONLY <1>1, n \in 1..N
<1>3. m \in Machines /\ m2 \in Machines /\ m2 = Turn(P, c, env, path[k], x, m)
  BY <1>1, <1>2, RunType, TurnIs
<1>4. /\ x \in Id /\ R[x] = n /\ i \in Id /\ c.live = Id /\ c.args = P.args
      /\ Enumerates(c.order, R) /\ 1 \in Slot /\ 2 \in Slot
      /\ P.kind[i] \in Pure \cup {"load"} /\ P.kind[x] # "rmw"
  BY DEF IsMove, Enumerates, Slot
<1>5. \A s \in Slot : P.args[i][s] \in Id => c.home[P.args[i][s]] \notin l
  BY DEF IsMove
<1>8. ASSUME NEW o, HasPlace(P, o), o \in Id => HasRun(P, c, R, o, path[k], n - 1),
             ~PointAt(P, c, env, path, k, n - 1).trap
      PROVE  ValueOf(PointAt(P, c, env, path, k, n - 1), env, o) = PlaceOf(env, o)
  BY ONLY <1>2, <1>4, <1>8, k \in 1..Len(path), IsRun(P, c, env, path), ObjectValue
<1>6. CASE ~m.trap /\ c.home[x] = path[k] /\ P.kind[x] # "phi"
  <2> DEFINE y == ValueOf(m, env, P.args[x][1])
             z == ValueOf(m, env, P.args[x][2])
  <2>1. m2 = Effect(P.kind[x], m, env, x, y, z)
    BY <1>3, <1>4, <1>6 DEF Turn
  <2>2. ~Traps(P.kind[x], y, z)
    <3> HIDE DEF m, x, y, z
    <3> QED BY <1>3, <2>1 DEF Effect, Machines, m2
  <2> HIDE DEF m, m2, x, y, z
  <2>3. /\ m2.val = [m.val EXCEPT ![x] = Result(P.kind[x], m, env, x, y, z)]
        /\ m2.mem = MemoryAfter(P.kind[x], m, env, y, z)
    BY <2>1, <2>2 DEF Effect
  <2>4. ASSUME NEW s \in Slot
        PROVE  Operand(P, m2, env, i, s) = Operand(P, m, env, i, s)
    <3> DEFINE v == P.args[i][s]
    <3>1. CASE v \in Id
      <4>1. m2.val[v] = m.val[v]
        <5>1. CASE v = x
          <6>1. P.kind[x] = "term"
            BY <1>5, <1>6, <3>1, <5>1 DEF x
          <6>2. Result(P.kind[x], m, env, x, y, z) = m.val[x]
            BY <6>1 DEF Result, Reads, Loads, Computed
          <6> QED BY <1>3, <1>4, <2>3, <5>1, <6>2 DEF Machines
        <5>2. CASE v # x
          BY <1>3, <2>3, <3>1, <5>2 DEF Machines
        <5> QED BY <5>1, <5>2
      <4> QED BY <3>1, <4>1 DEF Operand, ValueOf
    <3>2. CASE v \notin Id
      BY <3>2 DEF Operand, ValueOf
    <3> QED BY <3>1, <3>2
  <2>5. ASSUME P.kind[i] = "load", Operand(P, m, env, i, 1) \in Cell
        PROVE  m2.mem[Operand(P, m, env, i, 1)] = m.mem[Operand(P, m, env, i, 1)]
    <3>1. CASE P.kind[x] \notin Stores \cup {"call"}
      BY <1>4, <2>3, <3>1 DEF MemoryAfter, Stores
    <3>2. CASE P.kind[x] \in Stores \cup {"call"}
      <4>1. path[k] \in l
        BY <3>2 DEF Stores, x
      <4>2. x \in WritersIn(P, c, l)
        BY <1>4, <1>6, <3>2, <4>1 DEF WritersIn
      <4>3. OfUnwritten(P, c, env, i, l)
        BY <2>5, <4>2 DEF BoundToRun
      <4>4. /\ P.kind[x] \in Stores /\ HasPlace(P, a) /\ HasPlace(P, P.args[x][2])
            /\ PlaceOf(env, P.args[x][2]) # PlaceOf(env, a)
        BY <4>2, <4>3 DEF OfUnwritten
      <4>5. Operand(P, m, env, i, 1) = PlaceOf(env, a)
        <5>1. a \in Id => HasRun(P, c, R, a, path[k], n - 1)
          <6> SUFFICES ASSUME a \in Id PROVE HasRun(P, c, R, a, path[k], n - 1)
            OBVIOUS
          <6>1. /\ c.home[a] # path[k] /\ <<c.home[a], p>> \in Dom[P.graph]
                /\ <<p, path[k]>> \in Dom[P.graph] /\ p \in Block
            BY <1>4, <4>1 DEF IsMove
          <6>2. c.home[a] \in Block
            BY <1>1 DEF IsBody
          <6>3. <<c.home[a], path[k]>> \in Dom[P.graph]
            BY <1>1, <6>1, <6>2, DomAssumption
          <6> QED BY <6>1, <6>3 DEF HasRun
        <5>2. ValueOf(m, env, a) = PlaceOf(env, a)
          BY <1>6, <1>8, <4>4, <5>1 DEF m
        <5> QED BY <5>2 DEF Operand
      <4>6. z = PlaceOf(env, P.args[x][2])
        <5> DEFINE o == P.args[x][2]
        <5>1. o \in Id => HasRun(P, c, R, o, path[k], n - 1)
          <6> SUFFICES ASSUME o \in Id PROVE HasRun(P, c, R, o, path[k], n - 1)
            OBVIOUS
          <6>1. P.kind[x] # "phi"
            BY <1>6
          <6>2. UsesDominated(P, c, R)
            BY DEF IsMove
          <6>3. IF c.home[o] = c.home[x] THEN R[o] < R[x]
                ELSE <<c.home[o], c.home[x]>> \in Dom[P.graph]
            BY <1>4, <6>1, <6>2 DEF UsesDominated
          <6>4. R[o] \in Nat
            BY <1>1, <1>4 DEF Enumerates
          <6>5. CASE c.home[o] = c.home[x]
            <7>1. R[o] < n
              BY <1>4, <6>3, <6>5
            <7>2. R[o] <= n - 1
              BY ONLY <1>2, <6>4, <7>1
            <7> QED BY <1>6, <6>5, <7>2 DEF HasRun
          <6>6. CASE c.home[o] # c.home[x]
            BY <1>6, <6>3, <6>6 DEF HasRun
          <6> QED BY <6>5, <6>6
        <5>2. ValueOf(m, env, o) = PlaceOf(env, o)
          BY <1>6, <1>8, <4>4, <5>1 DEF m
        <5> QED BY <5>2 DEF z
      <4>7. z # Operand(P, m, env, i, 1)
        BY <4>4, <4>5, <4>6
      <4>8. m2.mem = [m.mem EXCEPT ![z] = y]
        BY <2>3, <4>4 DEF MemoryAfter
      <4> QED BY <1>3, <2>5, <4>7, <4>8 DEF Machines, Memory
    <3> QED BY <3>1, <3>2
  <2> QED BY <1>6, <2>4, <2>5 DEF Steady, m, m2
<1>7. CASE ~(~m.trap /\ c.home[x] = path[k] /\ P.kind[x] # "phi")
  <2>1. m2 = m
    BY <1>3, <1>7 DEF Turn
  <2> QED BY <2>1 DEF Steady
<1> QED BY <1>6, <1>7

\* Nor does it when a block of the loop is entered.
LEMMA SteadyEntry ==
  ASSUME NEW P, NEW c, NEW d, NEW env, NEW path, IsRun(P, c, env, path),
         NEW R, NEW Q, NEW i, NEW l, NEW p, IsMove(P, c, R, d, Q, i, l, p),
         NEW k \in 1..Len(path), path[k] \in l
  PROVE  Steady(P, Came(P, c, env, path, k), PointAt(P, c, env, path, k, 0), env, i)
<1> DEFINE m == Came(P, c, env, path, k)
           m2 == PointAt(P, c, env, path, k, 0)
<1>1. Len(path) \in Nat
  BY RunFacts
<1>2. m \in Machines
  BY RunType
<1>3. m2 = Phis(P, c, m, env, Origin(path, k), path[k])
  BY <1>1, EntryIs
<1>4. \A s \in Slot : P.args[i][s] \in Id => c.home[P.args[i][s]] \notin l
  BY DEF IsMove
<1> HIDE DEF m, m2
<1>5. /\ m2.mem = m.mem
      /\ \A x \in Id : c.home[x] # path[k] => m2.val[x] = m.val[x]
  BY <1>2, <1>3 DEF Phis, Machines
<1>6. ASSUME NEW s \in Slot
      PROVE  Operand(P, m2, env, i, s) = Operand(P, m, env, i, s)
  BY <1>4, <1>5 DEF Operand, ValueOf
<1> QED BY <1>5, <1>6 DEF Steady, m, m2

-----------------------------------------------------------------------------
(* The two runs, point by point.                                           *)

IsMoveScene(P, c, R, d, Q, env, path, i, l, p) ==
  /\ IsRun(P, c, env, path) /\ IsRun(P, d, env, path) /\ env \in Env
  /\ IsMove(P, c, R, d, Q, i, l, p)
  /\ IsRoute(path, l, p)
  /\ P.kind[i] = "load" => OfUnwritten(P, c, env, i, l) \/ BoundToRun(P, c, i, l, path)

\* What i yields in d is still to be used.
Holding(Q, path, i, l, p, k, m) == path[k] \in l \/ (path[k] = p /\ Q[i] <= m)

\* After n turns of c and m of d in the k-th block: either the run of c has
\* trapped; or the two agree, i included where c may use it, and d holds what
\* i would yield in c; or d has run into the trap that awaits c at i.
Related(P, c, R, d, Q, env, path, i, l, p, k, n, m) ==
  LET x == PointAt(P, c, env, path, k, n)
      y == PointAt(P, d, env, path, k, m)
  IN  \/ x.trap
      \/ /\ ~x.trap
         /\ Agree(Id \ {i}, x, y)
         /\ HasRun(P, c, R, i, path[k], n) => y.val[i] = x.val[i]
         /\ Holding(Q, path, i, l, p, k, m) =>
              ~Trapping(P, x, env, i) /\ y.val[i] = Yield(P, x, env, i)
      \/ /\ P.kind[i] = "load" /\ BoundToRun(P, c, i, l, path)
         /\ ~HasRun(P, c, R, i, path[k], n)
         /\ Holding(Q, path, i, l, p, k, m)
         /\ Trapping(P, x, env, i)

LEMMA SceneFacts ==
  ASSUME NEW P, NEW c, NEW R, NEW d, NEW Q, NEW env, NEW path, NEW i, NEW l, NEW p,
         IsMoveScene(P, c, R, d, Q, env, path, i, l, p)
  PROVE  /\ IsProgram(P) /\ IsBody(c) /\ IsBody(d) /\ IsEnv(env) /\ P \in Programs
         /\ P.graph \in Graph /\ path \in Path[P.graph] /\ N \in Nat
         /\ Len(path) \in Nat /\ Len(path) # 0
         /\ \A k \in 1..Len(path) : path[k] \in Block
         /\ c.live = Id /\ d.live = Id /\ c.args = P.args /\ d.args = P.args
         /\ i \in Id /\ P.kind[i] \in Kind /\ P.kind[i] \in Pure \cup {"load"}
         /\ P.kind[i] # "phi"
         /\ P.kind[i] \in Silent
         /\ c.home[i] \in Block /\ p \in Block /\ p \notin l /\ c.home[i] \in l /\ d.home[i] = p
         /\ 1 \in Slot /\ 2 \in Slot
<1>1. /\ IsProgram(P) /\ IsBody(c) /\ IsEnv(env) /\ P.graph \in Graph
      /\ path \in Path[P.graph] /\ N \in Nat /\ Len(path) \in Nat /\ Len(path) # 0
      /\ \A k \in 1..Len(path) : path[k] \in Block
  BY RunFacts DEF IsMoveScene
<1>2. IsBody(d)
  BY RunFacts DEF IsMoveScene
<1>3. P \in Programs
  BY DEF IsMoveScene, IsRun
<1>4. /\ c.live = Id /\ d.live = Id /\ c.args = P.args /\ d.args = P.args
      /\ i \in Id /\ P.kind[i] \in Pure \cup {"load"}
      /\ l \subseteq Block /\ p \in Block \ l /\ c.home[i] \in l /\ d.home[i] = p
  BY DEF IsMoveScene, IsMove
<1>5. P.kind[i] \in Kind
  BY <1>1, <1>4 DEF IsProgram
<1>6. P.kind[i] # "phi" /\ P.kind[i] \in Silent
  BY <1>4, <1>5 DEF Pure, Silent, Stores, Observed
<1> QED BY <1>1, <1>2, <1>3, <1>4, <1>5, <1>6 DEF Slot

\* An operand of i is not i.
LEMMA OperandsOther ==
  ASSUME NEW P, NEW c, NEW R, NEW d, NEW Q, NEW env, NEW path, NEW i, NEW l, NEW p,
         IsMoveScene(P, c, R, d, Q, env, path, i, l, p), NEW s \in Slot
  PROVE  P.args[i][s] # i
BY DEF IsMoveScene, IsMove

\* Where the two agree, i would do the same in both.
LEMMA AgreeOperands ==
  ASSUME NEW P, NEW c, NEW R, NEW d, NEW Q, NEW env, NEW path, NEW i, NEW l, NEW p,
         IsMoveScene(P, c, R, d, Q, env, path, i, l, p),
         NEW m, NEW m2, Agree(Id \ {i}, m, m2), ~m.trap
  PROVE  Steady(P, m, m2, env, i)
<1>1. ASSUME NEW s \in Slot
      PROVE  Operand(P, m2, env, i, s) = Operand(P, m, env, i, s)
  BY OperandsOther DEF Operand, ValueOf, Agree
<1> QED BY <1>1 DEF Steady, Agree

\* i alone changes nothing but its own value.
LEMMA AloneEffect ==
  ASSUME NEW k \in Silent, NEW m \in Machines, NEW env, NEW i \in Id, NEW x, NEW y,
         ~Traps(k, x, y), ~m.trap
  PROVE  LET e == Effect(k, m, env, i, x, y)
         IN  /\ ~e.trap /\ e.mem = m.mem /\ e.seen = m.seen
             /\ e.val[i] = Result(k, m, env, i, x, y)
             /\ \A j \in Id \ {i} : e.val[j] = m.val[j]
<1>1. MemoryAfter(k, m, env, x, y) = m.mem /\ SeenAfter(k, m, i, x, y) = m.seen
  BY DEF Silent, Observed, MemoryAfter, SeenAfter, Stores
<1> QED BY <1>1 DEF Effect, Machines

\* A turn of c that d does not take.
LEMMA MoveFirst ==
  ASSUME NEW P, NEW c, NEW R, NEW d, NEW Q, NEW env, NEW path, NEW i, NEW l, NEW p,
         IsMoveScene(P, c, R, d, Q, env, path, i, l, p),
         NEW k \in 1..Len(path), NEW n \in 1..N, NEW m \in 0..N,
         Related(P, c, R, d, Q, env, path, i, l, p, k, n - 1, m),
         c.order[n] = i \/ c.home[c.order[n]] # path[k]
  PROVE  Related(P, c, R, d, Q, env, path, i, l, p, k, n, m)
<1> DEFINE X == PointAt(P, c, env, path, k, n - 1)
           X2 == PointAt(P, c, env, path, k, n)
           Y == PointAt(P, d, env, path, k, m)
           z == c.order[n]
           H == Holding(Q, path, i, l, p, k, m)
<1>1. /\ IsRun(P, c, env, path) /\ IsRun(P, d, env, path) /\ env \in Env
      /\ IsMove(P, c, R, d, Q, i, l, p) /\ Enumerates(c.order, R)
      /\ P.kind[i] = "load" => OfUnwritten(P, c, env, i, l) \/ BoundToRun(P, c, i, l, path)
  BY DEF IsMoveScene, IsMove
<1>2. /\ IsProgram(P) /\ IsBody(c) /\ N \in Nat /\ Len(path) \in Nat
      /\ c.live = Id /\ c.args = P.args /\ i \in Id
      /\ P.kind[i] \in Pure \cup {"load"} /\ P.kind[i] # "phi"
      /\ P.kind[i] \in Silent /\ 1 \in Slot /\ 2 \in Slot /\ c.home[i] \in l
  BY SceneFacts
<1>3. n - 1 \in 0..N /\ n \in 0..N /\ n \in Nat
  BY ONLY <1>2, n \in 1..N
<1>4. X \in Machines /\ X2 \in Machines /\ Y \in Machines
  BY <1>1, <1>3, RunType
<1>5. X2 = Turn(P, c, env, path[k], z, X)
  BY <1>2, TurnIs
<1>6. z \in Id /\ R[z] = n /\ \A x \in Id \ {z} : R[x] # n
  BY <1>1 DEF Enumerates
<1>7. R[i] \in Nat
  BY <1>1, <1>2 DEF Enumerates
<1>8. X.trap => X2.trap
  BY <1>5 DEF Turn
<1>9. CASE c.home[z] # path[k]
  <2>1. X2 = X
    BY <1>5, <1>9 DEF Turn
  <2>2. HasRun(P, c, R, i, path[k], n) <=> HasRun(P, c, R, i, path[k], n - 1)
    <3>1. CASE z = i
      BY <1>9, <3>1 DEF HasRun
    <3>2. CASE z # i
      <4>1. R[i] # n
        BY <1>2, <1>6, <3>2
      <4>2. R[i] <= n <=> R[i] <= n - 1
        BY ONLY <1>3, <1>7, <4>1
      <4> QED BY <4>2 DEF HasRun
    <3> QED BY <3>1, <3>2
  <2> QED BY <2>1, <2>2 DEF Related
<1>10. CASE z = i /\ c.home[i] = path[k] /\ ~X.trap
  <2>1. H
    BY <1>2, <1>10 DEF Holding
  <2>2. ~HasRun(P, c, R, i, path[k], n - 1) /\ HasRun(P, c, R, i, path[k], n)
    <3>1. R[i] = n
      BY <1>6, <1>10
    <3>2. R[i] <= n /\ ~(R[i] <= n - 1)
      BY ONLY <1>3, <3>1
    <3> QED BY <1>10, <3>2 DEF HasRun
  <2> DEFINE u == Operand(P, X, env, i, 1)
             v == Operand(P, X, env, i, 2)
  <2>3. X2 = Effect(P.kind[i], X, env, i, u, v)
    BY <1>2, <1>5, <1>10 DEF Turn, Operand
  <2>4. CASE Trapping(P, X, env, i)
    <3>1. Traps(P.kind[i], u, v)
      BY <2>4 DEF Trapping
    <3> HIDE DEF X, X2, u, v
    <3>2. X2.trap
      BY <1>4, <2>3, <3>1 DEF Effect, Machines
    <3> QED BY <3>2 DEF Related, X2
  <2>5. CASE ~Trapping(P, X, env, i)
    <3>1. /\ Agree(Id \ {i}, X, Y)
          /\ Y.val[i] = Yield(P, X, env, i)
      BY <1>10, <2>1, <2>5 DEF Related
    <3>2. ~Traps(P.kind[i], u, v) /\ Yield(P, X, env, i) = Result(P.kind[i], X, env, i, u, v)
      BY <2>5 DEF Trapping, Yield
    <3>3. /\ ~X2.trap /\ X2.mem = X.mem /\ X2.seen = X.seen
          /\ X2.val[i] = Y.val[i]
          /\ \A j \in Id \ {i} : X2.val[j] = X.val[j]
      <4> HIDE DEF X, X2, Y, u, v
      <4> QED BY <1>2, <1>4, <1>10, <2>3, <3>1, <3>2, AloneEffect
    <3>4. Agree(Id \ {i}, X2, Y)
      <4> HIDE DEF X, X2, Y
      <4> QED BY <1>10, <3>1, <3>3 DEF Agree
    <3>5. Steady(P, X, X2, env, i)
      BY <1>1, <1>2, <1>10, <3>3, SteadyTurn
    <3>6. ~Trapping(P, X2, env, i) /\ Yield(P, X2, env, i) = Yield(P, X, env, i)
      <4> HIDE DEF X, X2
      <4> QED BY <1>2, <2>5, <3>5, SteadyTells
    <3> QED BY <3>1, <3>3, <3>4, <3>6 DEF Related
  <2> QED BY <2>4, <2>5
<1>11. CASE X.trap
  BY <1>8, <1>11 DEF Related
<1> QED BY <1>9, <1>10, <1>11

\* What i reads in front of the loop is there to be read, unless it is bound
\* to be executed anyway.
LEMMA MovedLoadSafe ==
  ASSUME NEW P, NEW c, NEW R, NEW d, NEW Q, NEW env, NEW path, NEW i, NEW l, NEW p,
         IsMoveScene(P, c, R, d, Q, env, path, i, l, p),
         NEW k \in 1..Len(path), NEW n \in 0..N, NEW m \in 1..N,
         path[k] = p, Q[i] = m,
         InStep({x \in Id \ {i} : c.home[x] = path[k]}, R, Q, n, m - 1),
         ~PointAt(P, c, env, path, k, n).trap,
         Trapping(P, PointAt(P, c, env, path, k, n), env, i)
  PROVE  P.kind[i] = "load" /\ BoundToRun(P, c, i, l, path)
<1> DEFINE X == PointAt(P, c, env, path, k, n)
           a == P.args[i][1]
<1>1. /\ IsRun(P, c, env, path) /\ env \in Env /\ IsMove(P, c, R, d, Q, i, l, p)
      /\ P.kind[i] = "load" => OfUnwritten(P, c, env, i, l) \/ BoundToRun(P, c, i, l, path)
      /\ Enumerates(c.order, R) /\ Enumerates(d.order, Q)
  BY DEF IsMoveScene, IsMove
<1>2. /\ IsProgram(P) /\ N \in Nat /\ P \in Programs /\ c.live = Id /\ i \in Id
      /\ P.kind[i] \in Pure \cup {"load"} /\ 1 \in Slot /\ 2 \in Slot
  BY SceneFacts
<1>3. P.kind[i] = "load"
  BY <1>2, PureNeverTraps
<1>4. SUFFICES ASSUME OfUnwritten(P, c, env, i, l)
               PROVE  FALSE
  BY <1>1, <1>3
<1>5. HasPlace(P, a) /\ PlaceOf(env, a) \in Cell
  BY <1>4 DEF OfUnwritten
<1>6. a \in Id => HasRun(P, c, R, a, path[k], n)
  <2> SUFFICES ASSUME a \in Id PROVE HasRun(P, c, R, a, path[k], n)
    OBVIOUS
  <2>1. <<c.home[a], p>> \in Dom[P.graph]
    BY <1>1, <1>2 DEF IsMove
  <2>2. CASE c.home[a] = path[k]
    <3>1. a # i
      BY <1>2, OperandsOther
    <3>2. P.kind[a] # "term"
      BY <1>2, <1>5 DEF HasPlace
    <3>3. ~(Q[i] < Q[a])
      BY <1>1, <3>1, <3>2 DEF IsMove
    <3>4. Q[a] # Q[i]
      BY <1>1, <1>2, <3>1 DEF Enumerates
    <3>5. Q[a] \in 1..N
      BY <1>1 DEF Enumerates
    <3>6. Q[a] <= m - 1
      BY ONLY <1>2, <3>3, <3>4, <3>5, Q[i] = m, m \in 1..N
    <3>7. R[a] <= n
      BY <2>2, <3>1, <3>6 DEF InStep
    <3> QED BY <2>2, <3>7 DEF HasRun
  <2>3. CASE c.home[a] # path[k]
    BY <2>1, <2>3 DEF HasRun
  <2> QED BY <2>2, <2>3
<1>7. ValueOf(X, env, a) = PlaceOf(env, a)
  <2> USE <1>1, <1>2
  <2>1. ASSUME NEW o, HasPlace(P, o), o \in Id => HasRun(P, c, R, o, path[k], n)
        PROVE  ValueOf(PointAt(P, c, env, path, k, n), env, o) = PlaceOf(env, o)
    BY ONLY IsRun(P, c, env, path), Enumerates(c.order, R), c.live = Id, <2>1,
            k \in 1..Len(path), n \in 0..N, ~PointAt(P, c, env, path, k, n).trap,
            ObjectValue
  <2> QED BY <1>5, <1>6, <2>1
<1>8. Operand(P, X, env, i, 1) \in Cell
  <2> QED BY <1>5, <1>7 DEF Operand
<1> QED BY <1>3, <1>8 DEF Trapping, Traps, Stores

\* A turn of d that c does not take.
LEMMA MoveSecond ==
  ASSUME NEW P, NEW c, NEW R, NEW d, NEW Q, NEW env, NEW path, NEW i, NEW l, NEW p,
         IsMoveScene(P, c, R, d, Q, env, path, i, l, p),
         NEW k \in 1..Len(path), NEW n \in 0..N, NEW m \in 1..N,
         Related(P, c, R, d, Q, env, path, i, l, p, k, n, m - 1),
         InStep({x \in Id \ {i} : c.home[x] = path[k]}, R, Q, n, m - 1),
         d.order[m] = i \/ c.home[d.order[m]] # path[k]
  PROVE  Related(P, c, R, d, Q, env, path, i, l, p, k, n, m)
<1> DEFINE X == PointAt(P, c, env, path, k, n)
           Y == PointAt(P, d, env, path, k, m - 1)
           Y2 == PointAt(P, d, env, path, k, m)
           z == d.order[m]
<1>1. /\ IsRun(P, c, env, path) /\ IsRun(P, d, env, path)
      /\ IsMove(P, c, R, d, Q, i, l, p) /\ Enumerates(d.order, Q)
      /\ \A x \in Id \ {i} : d.home[x] = c.home[x]
  BY DEF IsMoveScene, IsMove
<1>2. /\ IsProgram(P) /\ IsBody(d) /\ N \in Nat /\ Len(path) \in Nat
      /\ d.live = Id /\ d.args = P.args /\ i \in Id /\ d.home[i] = p
      /\ P.kind[i] \in Pure \cup {"load"} /\ P.kind[i] # "phi"
      /\ P.kind[i] \in Silent /\ 1 \in Slot /\ 2 \in Slot
      /\ c.home[i] \in l /\ p \notin l /\ c.home[i] \in Block /\ p \in Block
      /\ P.graph \in Graph
  BY SceneFacts
<1>3. m - 1 \in 0..N /\ m \in 0..N /\ m \in Nat
  BY ONLY <1>2, m \in 1..N
<1>4. X \in Machines /\ Y \in Machines /\ Y2 \in Machines
  BY <1>1, <1>3, RunType
<1>5. Y2 = Turn(P, d, env, path[k], z, Y)
  BY <1>2, TurnIs
<1>6. z \in Id /\ Q[z] = m /\ (i # z => Q[i] # m) /\ Q[i] \in Nat
  BY <1>1, <1>2 DEF Enumerates
<1>7. CASE ~(z = i /\ path[k] = p)
  <2>1. d.home[z] # path[k]
    BY <1>1, <1>2, <1>6, <1>7
  <2>2. Y2 = Y
    BY <1>5, <2>1 DEF Turn
  <2>3. Holding(Q, path, i, l, p, k, m) <=> Holding(Q, path, i, l, p, k, m - 1)
    <3>1. CASE path[k] = p
      <4>1. Q[i] # m
        BY <1>6, <1>7, <3>1
      <4>2. Q[i] <= m <=> Q[i] <= m - 1
        BY ONLY <1>3, <1>6, <4>1
      <4> QED BY <4>2 DEF Holding
    <3>2. CASE path[k] # p
      BY <3>2 DEF Holding
    <3> QED BY <3>1, <3>2
  <2> QED BY <2>2, <2>3 DEF Related
<1>8. CASE z = i /\ path[k] = p /\ ~X.trap
  <2>1. Q[i] = m
    BY <1>6, <1>8
  <2>2. ~Holding(Q, path, i, l, p, k, m - 1) /\ Holding(Q, path, i, l, p, k, m)
    <3>1. ~(m <= m - 1) /\ m <= m
      BY ONLY <1>3
    <3> QED BY <1>2, <1>8, <2>1, <3>1 DEF Holding
  <2>3. ~HasRun(P, c, R, i, path[k], n)
    <3>1. c.home[i] # p
      BY <1>2
    <3>2. <<p, c.home[i]>> \in Dom[P.graph]
      BY <1>1, <1>2 DEF IsMove
    <3>3. <<c.home[i], p>> \notin Dom[P.graph]
      BY <1>2, <3>1, <3>2, DomAssumption
    <3> QED BY <1>8, <3>1, <3>3 DEF HasRun
  <2>4. CASE Trapping(P, X, env, i)
    <3>1. P.kind[i] = "load" /\ BoundToRun(P, c, i, l, path)
      BY <1>8, <2>1, <2>4, MovedLoadSafe
    <3> QED BY <2>2, <2>3, <2>4, <3>1 DEF Related
  <2>5. CASE ~Trapping(P, X, env, i)
    <3> DEFINE u == Operand(P, Y, env, i, 1)
               v == Operand(P, Y, env, i, 2)
    <3>1. Agree(Id \ {i}, X, Y) /\ ~Y.trap
      BY <1>8, <2>2 DEF Related, Agree
    <3>2. Steady(P, X, Y, env, i)
      BY <1>8, <3>1, AgreeOperands
    <3>3. ~Trapping(P, Y, env, i) /\ Yield(P, Y, env, i) = Yield(P, X, env, i)
      <4> HIDE DEF X, Y
      <4> QED BY <1>2, <2>5, <3>2, SteadyTells
    <3>4. Y2 = Effect(P.kind[i], Y, env, i, u, v)
      BY <1>2, <1>5, <1>8, <3>1 DEF Turn, Operand
    <3>5. ~Traps(P.kind[i], u, v) /\ Yield(P, Y, env, i) = Result(P.kind[i], Y, env, i, u, v)
      BY <3>3 DEF Trapping, Yield
    <3>6. /\ ~Y2.trap /\ Y2.mem = Y.mem /\ Y2.seen = Y.seen
          /\ Y2.val[i] = Yield(P, X, env, i)
          /\ \A j \in Id \ {i} : Y2.val[j] = Y.val[j]
      <4> HIDE DEF X, Y, Y2, u, v
      <4>0. ~Y.trap /\ ~Traps(P.kind[i], u, v)
        BY <3>1, <3>5
      <4>1. LET e == Effect(P.kind[i], Y, env, i, u, v)
            IN  /\ ~e.trap /\ e.mem = Y.mem /\ e.seen = Y.seen
                /\ e.val[i] = Result(P.kind[i], Y, env, i, u, v)
                /\ \A j \in Id \ {i} : e.val[j] = Y.val[j]
        BY ONLY <1>2, <1>4, <4>0, AloneEffect
      <4> QED BY <3>3, <3>4, <3>5, <4>1
    <3>7. Agree(Id \ {i}, X, Y2)
      <4> HIDE DEF X, Y, Y2
      <4> QED BY <1>8, <3>1, <3>6 DEF Agree
    <3> QED BY <1>8, <2>3, <2>5, <3>6, <3>7 DEF Related
  <2> QED BY <2>4, <2>5
<1>9. CASE X.trap
  BY <1>9 DEF Related
<1> QED BY <1>7, <1>8, <1>9

\* A turn of an instruction that has not moved.
LEMMA MoveBoth ==
  ASSUME NEW P, NEW c, NEW R, NEW d, NEW Q, NEW env, NEW path, NEW i, NEW l, NEW p,
         IsMoveScene(P, c, R, d, Q, env, path, i, l, p),
         NEW k \in 1..Len(path), NEW n \in 1..N, NEW m \in 1..N,
         Related(P, c, R, d, Q, env, path, i, l, p, k, n - 1, m - 1),
         c.order[n] = d.order[m], c.order[n] # i, c.home[c.order[n]] = path[k]
  PROVE  Related(P, c, R, d, Q, env, path, i, l, p, k, n, m)
<1> DEFINE X == PointAt(P, c, env, path, k, n - 1)
           X2 == PointAt(P, c, env, path, k, n)
           Y == PointAt(P, d, env, path, k, m - 1)
           Y2 == PointAt(P, d, env, path, k, m)
           z == c.order[n]
           V == Id \ {i}
<1>1. /\ IsRun(P, c, env, path) /\ IsRun(P, d, env, path) /\ env \in Env
      /\ IsMove(P, c, R, d, Q, i, l, p) /\ Enumerates(c.order, R) /\ Enumerates(d.order, Q)
      /\ P.kind[i] = "load" => OfUnwritten(P, c, env, i, l) \/ BoundToRun(P, c, i, l, path)
      /\ \A x \in Id \ {i} : d.home[x] = c.home[x]
      /\ UsesDominated(P, c, R)
  BY DEF IsMoveScene, IsMove
<1>2. /\ IsProgram(P) /\ IsBody(c) /\ IsBody(d) /\ N \in Nat /\ Len(path) \in Nat
      /\ c.live = Id /\ c.args = P.args /\ d.live = Id /\ d.args = P.args /\ i \in Id
      /\ P.kind[i] \in Pure \cup {"load"}
      /\ 1 \in Slot /\ 2 \in Slot
  BY SceneFacts
<1>3. /\ n - 1 \in 0..N /\ n \in 0..N /\ n \in Nat
      /\ m - 1 \in 0..N /\ m \in 0..N /\ m \in Nat
  BY ONLY <1>2, n \in 1..N, m \in 1..N
<1>4. X \in Machines /\ X2 \in Machines /\ Y \in Machines /\ Y2 \in Machines
  BY <1>1, <1>3, RunType
<1>5. /\ X2 = Turn(P, c, env, path[k], z, X)
      /\ Y2 = Turn(P, d, env, path[k], z, Y)
  BY <1>2, TurnIs
<1>6. /\ z \in Id /\ z \in V /\ R[z] = n /\ Q[z] = m /\ c.home[z] = path[k]
      /\ R[i] # n /\ Q[i] # m /\ R[i] \in Nat /\ Q[i] \in Nat
  <2>1. z \in Id /\ R[z] = n /\ R[i] \in 1..N
    BY <1>1, <1>2 DEF Enumerates
  <2>2. Q[z] = m /\ Q[i] \in 1..N
    BY <1>1, <1>2 DEF Enumerates
  <2>3. R[i] # n
    BY <1>1, <1>2 DEF Enumerates
  <2>4. Q[i] # m
    BY <1>1, <1>2 DEF Enumerates
  <2> QED BY <1>2, <2>1, <2>2, <2>3, <2>4
<1>7. HasRun(P, c, R, i, path[k], n) <=> HasRun(P, c, R, i, path[k], n - 1)
  <2>1. R[i] <= n <=> R[i] <= n - 1
    BY ONLY <1>3, <1>6
  <2> QED BY <2>1 DEF HasRun
<1>8. Holding(Q, path, i, l, p, k, m) <=> Holding(Q, path, i, l, p, k, m - 1)
  <2>1. Q[i] <= m <=> Q[i] <= m - 1
    BY ONLY <1>3, <1>6
  <2> QED BY <2>1 DEF Holding
<1>9. ASSUME Holding(Q, path, i, l, p, k, m), ~X2.trap
      PROVE  /\ Steady(P, X, X2, env, i)
             /\ Trapping(P, X2, env, i) <=> Trapping(P, X, env, i)
             /\ ~Trapping(P, X, env, i) => Yield(P, X2, env, i) = Yield(P, X, env, i)
  <2>1. path[k] \in l \/ P.kind[z] = "term"
    <3>1. CASE path[k] = p /\ Q[i] <= m
      <4>1. Q[i] < Q[z]
        BY ONLY <1>3, <1>6, <3>1
      <4> QED BY <1>1, <1>6, <4>1 DEF IsMove
    <3> QED BY <1>9, <3>1 DEF Holding
  <2>2. Steady(P, X, X2, env, i)
    BY <1>1, <1>9, <2>1, SteadyTurn
  <2> HIDE DEF X, X2
  <2> QED BY <1>2, <2>2, SteadyTells
<1>10. ASSUME ~X2.trap
       PROVE  ~X.trap /\ X2.val[i] = X.val[i]
  <2> HIDE DEF X, X2, z
  <2>1. ~X.trap
    BY <1>5, <1>10 DEF Turn
  <2>2. CASE P.kind[z] = "phi"
    BY <1>5, <2>1, <2>2 DEF Turn
  <2>3. CASE P.kind[z] # "phi"
    <3>1. PICK y, w : X2 = Effect(P.kind[z], X, env, z, y, w)
      BY <1>2, <1>5, <1>6, <2>1, <2>3 DEF Turn
    <3>2. z # i
      BY <1>6
    <3> QED BY <1>2, <1>4, <1>10, <2>1, <3>1, <3>2 DEF Effect, Machines
  <2> QED BY <2>1, <2>2, <2>3
<1>11. CASE X2.trap
  BY <1>11 DEF Related
<1>12. CASE /\ ~X2.trap
            /\ P.kind[i] = "load" /\ BoundToRun(P, c, i, l, path)
            /\ ~HasRun(P, c, R, i, path[k], n - 1)
            /\ Holding(Q, path, i, l, p, k, m - 1)
            /\ Trapping(P, X, env, i)
  <2>1. Trapping(P, X2, env, i)
    BY <1>8, <1>9, <1>12
  <2> QED BY <1>7, <1>8, <1>12, <2>1 DEF Related
<1>13. CASE /\ ~X2.trap
            /\ Agree(V, X, Y)
            /\ HasRun(P, c, R, i, path[k], n - 1) => Y.val[i] = X.val[i]
            /\ Holding(Q, path, i, l, p, k, m - 1) =>
                 ~Trapping(P, X, env, i) /\ Y.val[i] = Yield(P, X, env, i)
  <2>1. ~X.trap /\ X2.val[i] = X.val[i]
    BY <1>10, <1>13
  <2>2. Agree(V, X2, Y2) /\ Y2.val[i] = Y.val[i]
    <3>1. CASE P.kind[z] = "phi"
      <4>1. X2 = X /\ Y2 = Y
        BY <1>5, <3>1 DEF Turn
      <4> QED BY <1>13, <4>1
    <3>2. CASE P.kind[z] # "phi"
      <4>1. ASSUME NEW s \in Slot
            PROVE  ValueOf(X, env, P.args[z][s]) = ValueOf(Y, env, P.args[z][s])
        <5>1. CASE P.args[z][s] = i
          <6>1. IF c.home[i] = c.home[z] THEN R[i] < R[z]
                ELSE <<c.home[i], c.home[z]>> \in Dom[P.graph]
            BY <1>1, <1>2, <1>6, <3>2, <5>1 DEF UsesDominated
          <6>2. HasRun(P, c, R, i, path[k], n - 1)
            <7>1. CASE c.home[i] = c.home[z]
              <8>1. R[i] <= n - 1
                BY ONLY <1>3, <1>6, <6>1, <7>1
              <8> QED BY <1>6, <7>1, <8>1 DEF HasRun
            <7>2. CASE c.home[i] # c.home[z]
              BY <1>6, <6>1, <7>2 DEF HasRun
            <7> QED BY <7>1, <7>2
          <6> QED BY <1>2, <1>13, <5>1, <6>2 DEF ValueOf
        <5>2. CASE P.args[z][s] # i
          <6> HIDE DEF X, Y
          <6> QED BY <1>13, <2>1, <5>2 DEF ValueOf, Agree
        <5> QED BY <5>1, <5>2
      <4> DEFINE u == ValueOf(X, env, P.args[z][1])
                 w == ValueOf(X, env, P.args[z][2])
      <4>2. ~Y.trap
        BY <1>13, <2>1 DEF Agree
      <4>3. d.home[z] = path[k]
        BY <1>1, <1>6
      <4>4. X2 = Effect(P.kind[z], X, env, z, u, w)
        BY <1>2, <1>5, <1>6, <2>1, <3>2 DEF Turn
      <4>5. Y2 = Effect(P.kind[z], Y, env, z, u, w)
        BY <1>2, <1>5, <1>6, <3>2, <4>1, <4>2, <4>3 DEF Turn
      <4>6. P.kind[z] \in Kind /\ V \subseteq Id
        BY <1>2, <1>6 DEF IsProgram
      <4> HIDE DEF X, X2, Y, Y2, u, w, z
      <4>7. Agree(V, X2, Y2)
        <5> HIDE DEF V
        <5> QED BY <1>4, <1>6, <1>13, <2>1, <4>4, <4>5, <4>6, AgreeEffect
      <4>8. ~Y2.trap
        BY <1>13, <4>7 DEF Agree
      <4>9. Y2.val[i] = Y.val[i]
        <5>1. z # i
          BY <1>6
        <5> QED BY <1>2, <1>4, <4>2, <4>5, <4>8, <5>1 DEF Effect, Machines
      <4> QED BY <4>7, <4>9
    <3> QED BY <3>1, <3>2
  <2> QED BY <1>7, <1>8, <1>9, <1>13, <2>1, <2>2 DEF Related
<1> QED BY <1>10, <1>11, <1>12, <1>13 DEF Related

\* The step from one block of the path to the next.
LEMMA MoveEntry ==
  ASSUME NEW P, NEW c, NEW R, NEW d, NEW Q, NEW env, NEW path, NEW i, NEW l, NEW p,
         IsMoveScene(P, c, R, d, Q, env, path, i, l, p),
         NEW k \in 2..Len(path),
         Related(P, c, R, d, Q, env, path, i, l, p, k - 1, N, N)
  PROVE  Related(P, c, R, d, Q, env, path, i, l, p, k, 0, 0)
<1> DEFINE M == PointAt(P, c, env, path, k - 1, N)
           M2 == PointAt(P, d, env, path, k - 1, N)
           X == PointAt(P, c, env, path, k, 0)
           Y == PointAt(P, d, env, path, k, 0)
           V == Id \ {i}
           F == path[k - 1]
           b == path[k]
           h == c.home[i]
<1>1. /\ IsRun(P, c, env, path) /\ IsRun(P, d, env, path) /\ env \in Env
      /\ IsMove(P, c, R, d, Q, i, l, p) /\ IsRoute(path, l, p)
      /\ Enumerates(c.order, R) /\ Enumerates(d.order, Q)
      /\ \A x \in Id \ {i} : d.home[x] = c.home[x]
      /\ UsesDominated(P, c, R)
  BY DEF IsMoveScene, IsMove
<1>2. /\ IsProgram(P) /\ IsBody(c) /\ IsBody(d) /\ N \in Nat /\ Len(path) \in Nat
      /\ c.live = Id /\ c.args = P.args /\ d.live = Id /\ d.args = P.args /\ i \in Id
      /\ P.kind[i] \in Pure \cup {"load"} /\ P.kind[i] # "phi"
      /\ P.graph \in Graph /\ path \in Path[P.graph]
      /\ h \in l /\ h \in Block
  BY SceneFacts
<1>3. /\ k \in 1..Len(path) /\ k - 1 \in 1..Len(path) /\ k # 1 /\ 0 \in 0..N /\ N \in 0..N
      /\ k - 1 \in 1..Len(path) - 1 /\ (k - 1) + 1 = k
  BY ONLY <1>2, k \in 2..Len(path)
<1>4. /\ Came(P, c, env, path, k) = M /\ Came(P, d, env, path, k) = M2
      /\ Origin(path, k) = F
  BY <1>3 DEF Came, Origin
<1>5. /\ X = Phis(P, c, M, env, F, b)
      /\ Y = Phis(P, d, M2, env, F, b)
  BY <1>2, <1>3, <1>4, EntryIs
<1>6. M \in Machines /\ M2 \in Machines
  BY <1>1, <1>3, RunType
<1>7. R[i] \in Nat /\ R[i] > 0 /\ R[i] <= N /\ Q[i] \in Nat /\ Q[i] > 0 /\ Q[i] <= N
  <2>1. R[i] \in 1..N /\ Q[i] \in 1..N
    BY <1>1, <1>2 DEF Enumerates
  <2> QED BY ONLY <1>2, <2>1
<1>8. /\ X.trap = M.trap /\ X.val[i] = M.val[i] /\ Y.val[i] = M2.val[i]
  <2> HIDE DEF M, M2, X, Y
  <2> QED BY <1>2, <1>5, <1>6 DEF Phis, Machines
<1>9. <<h, b>> \in Dom[P.graph] /\ h # b => HasRun(P, c, R, i, F, N)
  <2> SUFFICES ASSUME <<h, b>> \in Dom[P.graph], h # b
               PROVE  HasRun(P, c, R, i, F, N)
    OBVIOUS
  <2>1. <<h, path[(k - 1) + 1]>> \in Dom[P.graph] /\ h # path[(k - 1) + 1]
    BY <1>3
  <2>2. <<h, F>> \in Dom[P.graph]
    BY <1>2, <1>3, <2>1, PathAssumption
  <2> QED BY <1>7, <2>2 DEF HasRun
<1>10. HasRun(P, c, R, i, b, 0) => HasRun(P, c, R, i, F, N)
  <2> SUFFICES ASSUME HasRun(P, c, R, i, b, 0) PROVE HasRun(P, c, R, i, F, N)
    OBVIOUS
  <2>1. h # b /\ <<h, b>> \in Dom[P.graph]
    <3>1. ~(R[i] <= 0)
      BY ONLY <1>7
    <3> QED BY <3>1 DEF HasRun
  <2> QED BY <1>9, <2>1
<1>11. Holding(Q, path, i, l, p, k, 0) <=> b \in l
  <2>1. ~(Q[i] <= 0)
    BY ONLY <1>7
  <2> QED BY <2>1 DEF Holding
<1>12. Holding(Q, path, i, l, p, k - 1, N) <=> F \in l \cup {p}
  BY <1>7 DEF Holding
<1>13. (b \in l => F \in l \cup {p}) /\ (F = p => b \in l)
  BY <1>1, <1>3 DEF IsRoute
<1>14. b \in l =>
         /\ Trapping(P, X, env, i) <=> Trapping(P, M, env, i)
         /\ ~Trapping(P, M, env, i) => Yield(P, X, env, i) = Yield(P, M, env, i)
  <2> SUFFICES ASSUME b \in l
               PROVE  /\ Trapping(P, X, env, i) <=> Trapping(P, M, env, i)
                      /\ ~Trapping(P, M, env, i) => Yield(P, X, env, i) = Yield(P, M, env, i)
    OBVIOUS
  <2>1. Steady(P, Came(P, c, env, path, k), X, env, i)
    BY <1>1, <1>3, SteadyEntry
  <2>2. Steady(P, M, X, env, i)
    BY <1>4, <2>1
  <2> HIDE DEF M, X
  <2> QED BY <1>2, <2>2, SteadyTells
<1>15. CASE M.trap
  BY <1>8, <1>15 DEF Related
<1>16. CASE /\ ~M.trap
            /\ Agree(V, M, M2)
            /\ HasRun(P, c, R, i, F, N) => M2.val[i] = M.val[i]
            /\ Holding(Q, path, i, l, p, k - 1, N) =>
                 ~Trapping(P, M, env, i) /\ M2.val[i] = Yield(P, M, env, i)
  <2>1. ASSUME NEW x \in V, c.home[x] = b, P.kind[x] = "phi"
        PROVE  ValueOf(M, env, P.args[x][Incoming(P, x, F)])
             = ValueOf(M2, env, P.args[x][Incoming(P, x, F)])
    <3> DEFINE s == Incoming(P, x, F)
    <3>1. s \in Slot /\ P.from[x][s] = F
      BY <1>1, <1>3, <2>1, IncomingIs
    <3> HIDE DEF s
    <3>2. CASE P.args[x][s] = i
      <4>1. <<h, F>> \in Dom[P.graph]
        BY <1>1, <1>2, <2>1, <3>1, <3>2 DEF UsesDominated
      <4>2. HasRun(P, c, R, i, F, N)
        BY <1>7, <4>1 DEF HasRun
      <4>3. M2.val[i] = M.val[i]
        BY <1>16, <4>2
      <4> QED BY <1>2, <3>2, <4>3 DEF ValueOf, s
    <3>3. CASE P.args[x][s] # i
      <4> HIDE DEF M, M2
      <4> QED BY <1>16, <3>3 DEF ValueOf, Agree, s
    <3> QED BY <3>2, <3>3
  <2>2. Agree(V, X, Y)
    <3> HIDE DEF M, M2, X, Y
    <3>1. V \subseteq Id
      OBVIOUS
    <3>2. \A x \in V :
            /\ x \in c.live <=> x \in d.live
            /\ c.home[x] = d.home[x]
            /\ ~M.trap /\ x \in c.live /\ c.home[x] = b /\ P.kind[x] = "phi" =>
                 ValueOf(M, env, c.args[x][Incoming(P, x, F)])
               = ValueOf(M2, env, d.args[x][Incoming(P, x, F)])
      BY <1>1, <1>2, <2>1
    <3> HIDE DEF V, F, b
    <3> QED BY <1>5, <1>6, <1>16, <3>1, <3>2, AgreePhis
  <2>3. ~X.trap
    BY <1>8, <1>16
  <2>4. HasRun(P, c, R, i, b, 0) => Y.val[i] = X.val[i]
    BY <1>8, <1>10, <1>16
  <2>5. b \in l => ~Trapping(P, X, env, i) /\ Y.val[i] = Yield(P, X, env, i)
    BY <1>8, <1>12, <1>13, <1>14, <1>16
  <2> QED BY <1>11, <2>2, <2>3, <2>4, <2>5 DEF Related
<1>17. CASE /\ P.kind[i] = "load" /\ BoundToRun(P, c, i, l, path)
            /\ ~HasRun(P, c, R, i, F, N)
            /\ Holding(Q, path, i, l, p, k - 1, N)
            /\ Trapping(P, M, env, i)
  <2>1. b \in l
    <3>1. SUFFICES ASSUME F \in l, b \notin l PROVE FALSE
      BY <1>12, <1>13, <1>17
    <3>2. <<h, path[(k - 1) + 1]>> \in Dom[P.graph]
      BY <1>3, <1>17, <3>1 DEF BoundToRun
    <3>3. <<h, b>> \in Dom[P.graph] /\ h # b
      BY <1>2, <1>3, <3>1, <3>2
    <3> QED BY <1>9, <1>17, <3>3
  <2>2. ~HasRun(P, c, R, i, b, 0)
    BY <1>10, <1>17
  <2>3. Trapping(P, X, env, i)
    BY <1>14, <1>17, <2>1
  <2> QED BY <1>11, <1>17, <2>1, <2>2, <2>3 DEF Related
<1> QED BY <1>15, <1>16, <1>17 DEF Related

\* The entry.
LEMMA MoveStart ==
  ASSUME NEW P, NEW c, NEW R, NEW d, NEW Q, NEW env, NEW path, NEW i, NEW l, NEW p,
         IsMoveScene(P, c, R, d, Q, env, path, i, l, p)
  PROVE  Related(P, c, R, d, Q, env, path, i, l, p, 1, 0, 0)
<1> DEFINE M == Machine(env)
           X == PointAt(P, c, env, path, 1, 0)
           Y == PointAt(P, d, env, path, 1, 0)
           b == path[1]
           V == Id \ {i}
<1>1. /\ IsRun(P, c, env, path) /\ IsRun(P, d, env, path) /\ IsEnv(env)
      /\ IsMove(P, c, R, d, Q, i, l, p) /\ IsRoute(path, l, p)
      /\ Enumerates(c.order, R) /\ Enumerates(d.order, Q)
      /\ \A x \in Id \ {i} : d.home[x] = c.home[x]
  <2>1. IsEnv(env)
    BY SceneFacts
  <2> QED BY <2>1 DEF IsMoveScene, IsMove
<1>2. /\ N \in Nat /\ Len(path) \in Nat /\ Len(path) # 0
      /\ c.live = Id /\ d.live = Id /\ i \in Id
      /\ P.kind[i] # "phi" /\ P.graph \in Graph /\ path \in Path[P.graph]
      /\ c.home[i] \in l /\ c.home[i] \in Block
  BY SceneFacts
<1>3. 1 \in 1..Len(path) /\ ~(1 > 1)
  BY ONLY <1>2
<1>4. /\ X = Phis(P, c, M, env, Origin(path, 1), b)
      /\ Y = Phis(P, d, M, env, Origin(path, 1), b)
  BY <1>2, <1>3, EntryIs DEF Came
<1>5. M \in Machines /\ ~M.trap
  <2>1. M \in Machines
    BY <1>1, MachineType
  <2> QED BY <2>1 DEF Machine
<1>6. \A x \in Id : c.home[x] = b => P.kind[x] # "phi"
  BY <1>1, <1>3, IncomingIs
<1>7. \A x \in Id : d.home[x] = b => P.kind[x] # "phi"
  BY <1>1, <1>3, IncomingIs
<1>8. X = M
  <2> HIDE DEF M
  <2>1. [x \in Id |-> IF x \in c.live /\ c.home[x] = b /\ P.kind[x] = "phi"
                      THEN ValueOf(M, env, c.args[x][Incoming(P, x, Origin(path, 1))])
                      ELSE M.val[x]] = M.val
    BY <1>5, <1>6 DEF Machines
  <2> QED BY <1>4, <1>5, <2>1 DEF Phis, Machines
<1>9. Y = M
  <2> HIDE DEF M
  <2>1. [x \in Id |-> IF x \in d.live /\ d.home[x] = b /\ P.kind[x] = "phi"
                      THEN ValueOf(M, env, d.args[x][Incoming(P, x, Origin(path, 1))])
                      ELSE M.val[x]] = M.val
    BY <1>5, <1>7 DEF Machines
  <2> QED BY <1>4, <1>5, <2>1 DEF Phis, Machines
<1>10. ~HasRun(P, c, R, i, b, 0)
  <2>1. R[i] \in 1..N
    BY <1>1, <1>2 DEF Enumerates
  <2>2. ~(R[i] <= 0)
    BY ONLY <1>2, <2>1
  <2>3. c.home[i] # b
    BY <1>1, <1>2 DEF IsRoute
  <2>4. <<c.home[i], b>> \notin Dom[P.graph]
    BY <1>2, <2>3, PathAssumption
  <2> QED BY <2>2, <2>4 DEF HasRun
<1>11. ~Holding(Q, path, i, l, p, 1, 0)
  <2>1. Q[i] \in 1..N
    BY <1>1, <1>2 DEF Enumerates
  <2>2. ~(Q[i] <= 0)
    BY ONLY <1>2, <2>1
  <2> QED BY <1>1, <2>2 DEF Holding, IsRoute
<1>12. Agree(V, M, M)
  BY DEF Agree
<1> QED BY <1>5, <1>8, <1>9, <1>10, <1>11, <1>12 DEF Related

\* A move keeps what a path shows.
LEMMA MoveKeeps ==
  ASSUME NEW P, NEW c, NEW R, NEW d, NEW Q, NEW env, NEW path, NEW i, NEW l, NEW p,
         IsMoveScene(P, c, R, d, Q, env, path, i, l, p)
  PROVE  Agree({}, Run(P, c, env, path), Run(P, d, env, path))
<1> DEFINE L == Len(path)
           V == Id \ {i}
           B == [k \in 1..L |-> {x \in V : c.home[x] = path[k]}]
           Rel(k, n, m) == Related(P, c, R, d, Q, env, path, i, l, p, k, n, m)
           S == {t \in (1..L) \X (0..N) \X (0..N) : Rel(t[1], t[2], t[3])}
<1>1. /\ IsMove(P, c, R, d, Q, i, l, p) /\ IsRoute(path, l, p)
      /\ Enumerates(c.order, R) /\ Enumerates(d.order, Q)
      /\ \A x \in V : d.home[x] = c.home[x]
      /\ \A x, y \in V : R[x] < R[y] <=> Q[x] < Q[y]
  BY DEF IsMoveScene, IsMove
<1>2. N \in Nat /\ L \in Nat /\ L # 0 /\ N \in 0..N /\ 0 \in 0..N /\ 1 \in 1..L /\ L \in 1..L
  BY SceneFacts
<1>3. \A k \in 1..L, n, m \in 0..N : <<k, n, m>> \in S <=> Rel(k, n, m)
  OBVIOUS
<1>4. \A n \in 1..N : n \in 0..N /\ n - 1 \in 0..N
  BY ONLY <1>2
<1>5. \A k \in 1..L : B[k] = {x \in V : c.home[x] = path[k]}
  OBVIOUS
<1>6. \A n \in 1..N : c.order[n] \in Id /\ d.order[n] \in Id
  BY <1>1 DEF Enumerates
<1> HIDE DEF S, B
<1>7. \A k \in 1..L : B[k] \in SUBSET Id /\ SameOrderOn(B[k], R, Q)
  BY <1>1, <1>5 DEF SameOrderOn
<1>8. <<1, 0, 0>> \in S
  BY <1>2, <1>3, MoveStart
<1>9. ASSUME NEW k \in 2..L, <<k - 1, N, N>> \in S
      PROVE  <<k, 0, 0>> \in S
  <2>1. k \in 1..L /\ k - 1 \in 1..L
    BY ONLY <1>2, k \in 2..L
  <2>2. Rel(k - 1, N, N)
    BY <1>2, <1>3, <1>9, <2>1
  <2>3. Rel(k, 0, 0)
    BY <2>2, MoveEntry
  <2> QED BY <1>2, <1>3, <2>1, <2>3
<1>10. ASSUME NEW k \in 1..L, NEW n \in 1..N, NEW m \in 0..N,
              <<k, n - 1, m>> \in S, c.order[n] \notin B[k]
       PROVE  <<k, n, m>> \in S
  <2>1. c.order[n] = i \/ c.home[c.order[n]] # path[k]
    BY <1>5, <1>6, <1>10
  <2>2. Rel(k, n - 1, m)
    BY <1>3, <1>4, <1>10
  <2>3. Rel(k, n, m)
    BY <2>1, <2>2, MoveFirst
  <2> QED BY <1>3, <1>4, <2>3
<1>11. ASSUME NEW k \in 1..L, NEW n \in 0..N, NEW m \in 1..N,
              <<k, n, m - 1>> \in S, InStep(B[k], R, Q, n, m - 1), d.order[m] \notin B[k]
       PROVE  <<k, n, m>> \in S
  <2>1. d.order[m] = i \/ c.home[d.order[m]] # path[k]
    BY <1>5, <1>6, <1>11
  <2>2. Rel(k, n, m - 1)
    BY <1>3, <1>4, <1>11
  <2>3. InStep({x \in Id \ {i} : c.home[x] = path[k]}, R, Q, n, m - 1)
    BY <1>5, <1>11
  <2>4. Rel(k, n, m)
    BY <2>1, <2>2, <2>3, MoveSecond
  <2> QED BY <1>3, <1>4, <2>4
<1>12. ASSUME NEW k \in 1..L, NEW n \in 1..N, NEW m \in 1..N,
              <<k, n - 1, m - 1>> \in S, c.order[n] = d.order[m], c.order[n] \in B[k]
       PROVE  <<k, n, m>> \in S
  <2>1. c.order[n] # i /\ c.home[c.order[n]] = path[k]
    BY <1>5, <1>12
  <2>2. Rel(k, n - 1, m - 1)
    BY <1>3, <1>4, <1>12
  <2>3. Rel(k, n, m)
    BY <1>12, <2>1, <2>2, MoveBoth
  <2> QED BY <1>3, <1>4, <2>3
<1>13. \A k \in 1..L : <<k, N, N>> \in S
  <2>1. Marches(c.order, R, d.order, Q, L, B, S)
    BY <1>1, <1>2, <1>7, <1>8, <1>9, <1>10, <1>11, <1>12 DEF Marches
  <2> QED BY <2>1, InterleavedRuns
<1>14. Rel(L, N, N)
  BY <1>2, <1>3, <1>13
<1>15. ~Holding(Q, path, i, l, p, L, N)
  BY <1>1 DEF Holding, IsRoute
<1>16. /\ Run(P, c, env, path) = PointAt(P, c, env, path, L, N)
       /\ Run(P, d, env, path) = PointAt(P, d, env, path, L, N)
  BY <1>2, RunIs
<1> QED BY <1>14, <1>15, <1>16 DEF Related, Agree

-----------------------------------------------------------------------------
(* The same function under other numbers.                                  *)

\* old[n] is the instruction that gets the number n, and new its inverse.
Renumbers(new, old) ==
  /\ new \in [Id -> Id] /\ old \in [Id -> Id]
  /\ \A n \in Id : new[old[n]] = n
  /\ \A i \in Id : old[new[i]] = i

Anew(new, v) == IF v \in Id THEN new[v] ELSE v

\* d, of function T, is what c, of P, is under the new numbers.
IsRenumbered(P, c, T, d, new, old) ==
  /\ Renumbers(new, old)
  /\ \A i \in Id : /\ T.kind[new[i]] = P.kind[i]
                   /\ T.from[new[i]] = P.from[i]
                   /\ i \in c.live <=> new[i] \in d.live
                   /\ d.home[new[i]] = c.home[i]
                   /\ \A s \in Slot : d.args[new[i]][s] = Anew(new, c.args[i][s])
  /\ \A n \in 1..N : d.order[n] = new[c.order[n]]

\* The environment whose allocas have the new numbers.
EnvAnew(env, old) ==
  [leaf |-> env.leaf, frame |-> [n \in Id |-> env.frame[old[n]]],
   mem |-> env.mem, clobbers |-> env.clobbers]

SameEvent(e, e2, new) ==
  \E i \in Id : \E x, y, w : \/ e = <<i, x, y>> /\ e2 = <<new[i], x, y>>
                             \/ e = <<i, x, y, w>> /\ e2 = <<new[i], x, y, w>>

SameSeen(s, s2, new) ==
  /\ Len(s2) = Len(s)
  /\ \A k \in 1..Len(s) : SameEvent(s[k], s2[k], new)

\* The machines of the two runs.
SameMachine(m, m2, new) ==
  /\ m \in Machines /\ m2 \in Machines
  /\ m2.trap = m.trap /\ m2.mem = m.mem
  /\ \A i \in Id : m2.val[new[i]] = m.val[i]
  /\ SameSeen(m.seen, m2.seen, new)

LEMMA SameSeenAppend ==
  ASSUME NEW s \in Seq(Event), NEW s2 \in Seq(Event), NEW new, SameSeen(s, s2, new),
         NEW e \in Event, NEW e2 \in Event, SameEvent(e, e2, new)
  PROVE  SameSeen(Append(s, e), Append(s2, e2), new)
<1> HIDE DEF Event
<1>1. /\ Len(s) \in Nat /\ Len(s2) = Len(s)
      /\ Len(Append(s, e)) = Len(s) + 1 /\ Len(Append(s2, e2)) = Len(s) + 1
      /\ Append(s, e)[Len(s) + 1] = e /\ Append(s2, e2)[Len(s) + 1] = e2
      /\ \A k \in 1..Len(s) : Append(s, e)[k] = s[k] /\ Append(s2, e2)[k] = s2[k]
  BY AppendProperties, LenProperties DEF SameSeen
<1>2. ASSUME NEW k \in 1..Len(s) + 1
      PROVE  SameEvent(Append(s, e)[k], Append(s2, e2)[k], new)
  <2>1. k \in 1..Len(s) \/ k = Len(s) + 1
    BY ONLY <1>1, k \in 1..Len(s) + 1
  <2> QED BY <1>1, <2>1 DEF SameSeen
<1> QED BY <1>1, <1>2 DEF SameSeen

LEMMA TupleLengths ==
  ASSUME NEW a, NEW b, NEW c, NEW e, NEW f, NEW g, NEW h
  PROVE  <<a, b, c>> # <<e, f, g, h>>
OBVIOUS

\* Who sees the same under the new numbers has seen the same.
LEMMA SameSeenTwice ==
  ASSUME NEW s \in Seq(Event), NEW t \in Seq(Event), NEW s2, NEW new, NEW old,
         Renumbers(new, old), SameSeen(s, s2, new), SameSeen(t, s2, new)
  PROVE  s = t
<1>1. \A i, j \in Id : new[i] = new[j] => i = j
  BY DEF Renumbers
<1>2. ASSUME NEW e, NEW f, NEW e2, SameEvent(e, e2, new), SameEvent(f, e2, new)
      PROVE  e = f
  <2>1. PICK i \in Id : \E x, y, w : \/ e = <<i, x, y>> /\ e2 = <<new[i], x, y>>
                                     \/ e = <<i, x, y, w>> /\ e2 = <<new[i], x, y, w>>
    BY <1>2 DEF SameEvent
  <2>2. PICK x, y, w : \/ e = <<i, x, y>> /\ e2 = <<new[i], x, y>>
                       \/ e = <<i, x, y, w>> /\ e2 = <<new[i], x, y, w>>
    BY <2>1
  <2>3. PICK j \in Id : \E u, v, z : \/ f = <<j, u, v>> /\ e2 = <<new[j], u, v>>
                                     \/ f = <<j, u, v, z>> /\ e2 = <<new[j], u, v, z>>
    BY <1>2 DEF SameEvent
  <2>4. PICK u, v, z : \/ f = <<j, u, v>> /\ e2 = <<new[j], u, v>>
                       \/ f = <<j, u, v, z>> /\ e2 = <<new[j], u, v, z>>
    BY <2>3
  <2>5. <<new[i], x, y>> # <<new[j], u, v, z>> /\ <<new[i], x, y, w>> # <<new[j], u, v>>
    BY TupleLengths
  <2>6. CASE e = <<i, x, y>> /\ e2 = <<new[i], x, y>>
    <3>1. f = <<j, u, v>> /\ e2 = <<new[j], u, v>>
      BY <2>4, <2>5, <2>6
    <3>2. new[i] = new[j] /\ x = u /\ y = v
      BY <2>6, <3>1
    <3> QED BY <1>1, <2>6, <3>1, <3>2
  <2>7. CASE e = <<i, x, y, w>> /\ e2 = <<new[i], x, y, w>>
    <3>1. f = <<j, u, v, z>> /\ e2 = <<new[j], u, v, z>>
      BY <2>4, <2>5, <2>7
    <3>2. new[i] = new[j] /\ x = u /\ y = v /\ w = z
      BY <2>7, <3>1
    <3> QED BY <1>1, <2>7, <3>1, <3>2
  <2> QED BY <2>2, <2>6, <2>7
<1> HIDE DEF Event
<1>3. Len(s) = Len(t) /\ \A k \in 1..Len(s) : s[k] = t[k]
  BY <1>2 DEF SameSeen
<1> QED BY <1>3, SeqEqual

LEMMA AnewValue ==
  ASSUME NEW m, NEW m2, NEW new, NEW old, Renumbers(new, old), SameMachine(m, m2, new),
         NEW env, NEW v
  PROVE  ValueOf(m2, EnvAnew(env, old), Anew(new, v)) = ValueOf(m, env, v)
BY DEF Renumbers, SameMachine, ValueOf, EnvAnew, Anew

\* Instruction i does the same under its new number.
LEMMA AnewEffect ==
  ASSUME NEW m, NEW m2, NEW new, NEW old, Renumbers(new, old), SameMachine(m, m2, new),
         NEW env, IsEnv(env), NEW k \in Kind, NEW i \in Id, NEW x \in Word, NEW y \in Word,
         Effect(k, m, env, i, x, y) \in Machines,
         Effect(k, m2, EnvAnew(env, old), new[i], x, y) \in Machines
  PROVE  SameMachine(Effect(k, m, env, i, x, y),
                     Effect(k, m2, EnvAnew(env, old), new[i], x, y), new)
<1> DEFINE E == EnvAnew(env, old)
           e == Effect(k, m, env, i, x, y)
           e2 == Effect(k, m2, E, new[i], x, y)
<1>1. /\ m \in Machines /\ m2 \in Machines /\ m2.trap = m.trap /\ m2.mem = m.mem
      /\ \A j \in Id : m2.val[new[j]] = m.val[j]
      /\ m.val \in [Id -> Word] /\ m2.val \in [Id -> Word] /\ m.mem \in Memory
      /\ m.seen \in Seq(Event) /\ m2.seen \in Seq(Event) /\ SameSeen(m.seen, m2.seen, new)
  BY DEF SameMachine, Machines
<1>2. /\ new[i] \in Id /\ \A j \in Id : new[j] = new[i] <=> j = i
      /\ \A j \in Id : new[j] \in Id
  BY DEF Renumbers
<1>3. E.frame[new[i]] = env.frame[i] /\ E.clobbers = env.clobbers
  BY <1>2 DEF EnvAnew, Renumbers
<1>4. CASE Traps(k, x, y)
  <2>1. e = [m EXCEPT !.trap = TRUE] /\ e2 = [m2 EXCEPT !.trap = TRUE]
    BY <1>4 DEF Effect
  <2>2. /\ e.trap = e2.trap /\ e2.mem = m2.mem /\ e.mem = m.mem
        /\ e.val = m.val /\ e2.val = m2.val /\ e.seen = m.seen /\ e2.seen = m2.seen
    BY <1>1, <2>1 DEF Machines
  <2> HIDE DEF e, e2, E
  <2>3. e \in Machines /\ e2 \in Machines
    BY DEF e, e2, E
  <2>4. SameMachine(e, e2, new)
    BY <1>1, <2>2, <2>3 DEF SameMachine
  <2> QED BY <2>4 DEF e, e2, E
<1>5. CASE ~Traps(k, x, y)
  <2>1. /\ e.val = [m.val EXCEPT ![i] = Result(k, m, env, i, x, y)]
        /\ e.mem = MemoryAfter(k, m, env, x, y)
        /\ e.seen = SeenAfter(k, m, i, x, y) /\ e.trap = FALSE
        /\ e2.val = [m2.val EXCEPT ![new[i]] = Result(k, m2, E, new[i], x, y)]
        /\ e2.mem = MemoryAfter(k, m2, E, x, y)
        /\ e2.seen = SeenAfter(k, m2, new[i], x, y) /\ e2.trap = FALSE
    BY <1>5 DEF Effect
  <2>2. Result(k, m2, E, new[i], x, y) = Result(k, m, env, i, x, y)
    BY <1>1, <1>3 DEF Result
  <2>3. MemoryAfter(k, m2, E, x, y) = MemoryAfter(k, m, env, x, y)
    BY <1>1, <1>3 DEF MemoryAfter
  <2>4. SameSeen(SeenAfter(k, m, i, x, y), SeenAfter(k, m2, new[i], x, y), new)
    <3>1. /\ <<i, x, y>> \in Event /\ <<new[i], x, y>> \in Event
          /\ <<i, x, y, m.mem>> \in Event /\ <<new[i], x, y, m.mem>> \in Event
      BY <1>1, <1>2 DEF Event
    <3>2. SameEvent(<<i, x, y>>, <<new[i], x, y>>, new)
      BY DEF SameEvent
    <3>3. SameEvent(<<i, x, y, m.mem>>, <<new[i], x, y, m.mem>>, new)
      BY DEF SameEvent
    <3> HIDE DEF Event
    <3>4. /\ SameSeen(Append(m.seen, <<i, x, y>>), Append(m2.seen, <<new[i], x, y>>), new)
          /\ SameSeen(Append(m.seen, <<i, x, y, m.mem>>),
                      Append(m2.seen, <<new[i], x, y, m.mem>>), new)
      BY <1>1, <3>1, <3>2, <3>3, SameSeenAppend
    <3> QED BY <1>1, <3>4 DEF SeenAfter
  <2> HIDE DEF e, e2, E
  <2>5. ASSUME NEW j \in Id PROVE e2.val[new[j]] = e.val[j]
    BY <1>1, <1>2, <2>1, <2>2
  <2>6. e \in Machines /\ e2 \in Machines
    BY DEF e, e2, E
  <2>7. SameMachine(e, e2, new)
    BY <2>1, <2>3, <2>4, <2>5, <2>6 DEF SameMachine
  <2> QED BY <2>7 DEF e, e2, E
<1> QED BY <1>4, <1>5

LEMMA EnvAnewIsEnv ==
  ASSUME NEW env, IsEnv(env), NEW new, NEW old, Renumbers(new, old)
  PROVE  IsEnv(EnvAnew(env, old))
BY DEF IsEnv, EnvAnew, Renumbers

LEMMA AnewTurn ==
  ASSUME NEW P, NEW c, NEW T, NEW d, NEW new, NEW old, IsRenumbered(P, c, T, d, new, old),
         IsProgram(P), IsBody(c), IsProgram(T), IsBody(d), NEW env, IsEnv(env),
         NEW b, NEW i \in Id, NEW m, NEW m2, SameMachine(m, m2, new)
  PROVE  SameMachine(Turn(P, c, env, b, i, m),
                     Turn(T, d, EnvAnew(env, old), b, new[i], m2), new)
<1> DEFINE E == EnvAnew(env, old)
           v(s) == ValueOf(m, env, c.args[i][s])
           v2(s) == ValueOf(m2, E, d.args[new[i]][s])
<1>1. /\ Renumbers(new, old) /\ new[i] \in Id /\ m \in Machines /\ m2 \in Machines
      /\ m2.trap = m.trap /\ IsEnv(E)
  BY EnvAnewIsEnv DEF IsRenumbered, Renumbers, SameMachine
<1>2. /\ T.kind[new[i]] = P.kind[i] /\ (i \in c.live <=> new[i] \in d.live)
      /\ d.home[new[i]] = c.home[i]
      /\ \A s \in Slot : d.args[new[i]][s] = Anew(new, c.args[i][s])
  BY DEF IsRenumbered
<1>3. \A s \in Slot : v2(s) = v(s) /\ v(s) \in Word
  <2>1. \A s \in Slot : c.args[i][s] \in Value
    BY DEF IsBody
  <2> QED BY <1>1, <1>2, <2>1, AnewValue, ValueType
<1>4. 1 \in Slot /\ 2 \in Slot /\ P.kind[i] \in Kind
  BY DEF Slot, IsProgram
<1>5. /\ Turn(P, c, env, b, i, m) \in Machines
      /\ Turn(T, d, E, b, new[i], m2) \in Machines
  BY <1>1, TurnType
<1>6. CASE ~m.trap /\ i \in c.live /\ c.home[i] = b /\ P.kind[i] # "phi"
  <2>1. Turn(P, c, env, b, i, m) = Effect(P.kind[i], m, env, i, v(1), v(2))
    BY <1>6 DEF Turn
  <2>2. Turn(T, d, E, b, new[i], m2) = Effect(P.kind[i], m2, E, new[i], v2(1), v2(2))
    BY <1>1, <1>2, <1>6 DEF Turn
  <2>3. Turn(T, d, E, b, new[i], m2) = Effect(P.kind[i], m2, E, new[i], v(1), v(2))
    BY <1>3, <1>4, <2>2
  <2> QED BY <1>1, <1>3, <1>4, <1>5, <2>1, <2>3, AnewEffect
<1>7. CASE ~(~m.trap /\ i \in c.live /\ c.home[i] = b /\ P.kind[i] # "phi")
  <2>1. Turn(P, c, env, b, i, m) = m
    BY <1>7 DEF Turn
  <2>2. Turn(T, d, E, b, new[i], m2) = m2
    BY <1>1, <1>2, <1>7 DEF Turn
  <2> QED BY <2>1, <2>2
<1> QED BY <1>6, <1>7

LEMMA AnewPhis ==
  ASSUME NEW P, NEW c, NEW T, NEW d, NEW new, NEW old, IsRenumbered(P, c, T, d, new, old),
         NEW env, NEW path, IsRun(P, c, env, path), NEW k \in 1..Len(path),
         NEW m, NEW m2, SameMachine(m, m2, new)
  PROVE  SameMachine(Phis(P, c, m, env, Origin(path, k), path[k]),
                     Phis(T, d, m2, EnvAnew(env, old), Origin(path, k), path[k]), new)
<1> DEFINE E == EnvAnew(env, old)
           F == Origin(path, k)
           V == [i \in Id |->
                  IF i \in c.live /\ c.home[i] = path[k] /\ P.kind[i] = "phi"
                  THEN ValueOf(m, env, c.args[i][Incoming(P, i, F)])
                  ELSE m.val[i]]
           V2 == [i \in Id |->
                  IF i \in d.live /\ d.home[i] = path[k] /\ T.kind[i] = "phi"
                  THEN ValueOf(m2, E, d.args[i][Incoming(T, i, F)])
                  ELSE m2.val[i]]
           x == Phis(P, c, m, env, F, path[k])
           y == Phis(T, d, m2, E, F, path[k])
<1>1. /\ Renumbers(new, old) /\ m \in Machines /\ m2 \in Machines
      /\ m2.trap = m.trap /\ m2.mem = m.mem /\ SameSeen(m.seen, m2.seen, new)
      /\ \A i \in Id : m2.val[new[i]] = m.val[i]
  BY DEF IsRenumbered, SameMachine
<1>2. /\ \A i \in Id : new[i] \in Id
      /\ \A n \in Id : old[n] \in Id /\ new[old[n]] = n
  BY <1>1 DEF Renumbers
<1>3. x = [m EXCEPT !.val = V] /\ y = [m2 EXCEPT !.val = V2]
  BY DEF Phis
<1>4. ASSUME NEW i \in Id PROVE V2[new[i]] = V[i]
  <2>1. /\ T.kind[new[i]] = P.kind[i] /\ (i \in c.live <=> new[i] \in d.live)
        /\ d.home[new[i]] = c.home[i] /\ T.from[new[i]] = P.from[i]
        /\ \A s \in Slot : d.args[new[i]][s] = Anew(new, c.args[i][s])
    BY DEF IsRenumbered
  <2>2. Incoming(T, new[i], F) = Incoming(P, i, F)
    BY <2>1 DEF Incoming
  <2>3. CASE i \in c.live /\ c.home[i] = path[k] /\ P.kind[i] = "phi"
    <3>1. Incoming(P, i, F) \in Slot
      <4>1. k > 1 /\ Incoming(P, i, path[k - 1]) \in Slot
        BY <2>3, IncomingIs
      <4> QED BY <4>1 DEF Origin
    <3>2. V[i] = ValueOf(m, env, c.args[i][Incoming(P, i, F)])
      BY <2>3
    <3>3. V2[new[i]] = ValueOf(m2, E, Anew(new, c.args[i][Incoming(P, i, F)]))
      BY <1>2, <2>1, <2>2, <2>3, <3>1
    <3> QED BY <1>1, <3>2, <3>3, AnewValue
  <2>4. CASE ~(i \in c.live /\ c.home[i] = path[k] /\ P.kind[i] = "phi")
    <3>1. V[i] = m.val[i]
      BY <2>4
    <3>2. V2[new[i]] = m2.val[new[i]]
      BY <1>2, <2>1, <2>4
    <3> QED BY <1>1, <3>1, <3>2
  <2> QED BY <2>3, <2>4
<1>5. x \in Machines
  BY <1>1, PhisType
<1> HIDE DEF V, V2, x, y, E, F
<1>6. /\ x.val = V /\ x.mem = m.mem /\ x.trap = m.trap /\ x.seen = m.seen
      /\ y.val = V2 /\ y.mem = m2.mem /\ y.trap = m2.trap /\ y.seen = m2.seen
      /\ y = [m2 EXCEPT !.val = V2]
  BY <1>1, <1>3 DEF Machines
<1>7. V2 \in [Id -> Word]
  <2>1. V \in [Id -> Word]
    BY <1>5, <1>6 DEF Machines
  <2>2. ASSUME NEW n \in Id PROVE V2[n] \in Word
    <3>1. old[n] \in Id /\ new[old[n]] = n
      BY <1>2
    <3>2. V2[new[old[n]]] = V[old[n]]
      BY <1>4, <3>1
    <3> QED BY <2>1, <3>1, <3>2
  <2>3. V2 = [n \in Id |-> V2[n]]
    BY DEF V2
  <2> QED BY <2>2, <2>3
<1>8. y \in Machines
  BY <1>1, <1>6, <1>7 DEF Machines
<1>9. SameMachine(x, y, new)
  BY <1>1, <1>4, <1>5, <1>6, <1>8 DEF SameMachine
<1> QED BY <1>9 DEF x, y, E, F

\* A function behaves as before when its instructions get other numbers.
LEMMA Renumbered ==
  ASSUME NEW P, NEW c, NEW T, NEW d, NEW new, NEW old, IsRenumbered(P, c, T, d, new, old),
         NEW env, NEW path, IsRun(P, c, env, path), IsProgram(T), IsBody(d)
  PROVE  SameMachine(Run(P, c, env, path), Run(T, d, EnvAnew(env, old), path), new)
<1> DEFINE E == EnvAnew(env, old)
           L == Len(path)
           X(k, n) == PointAt(P, c, env, path, k, n)
           Y(k, n) == PointAt(T, d, E, path, k, n)
           S == {t \in (1..L) \X (0..N) : SameMachine(X(t[1], t[2]), Y(t[1], t[2]), new)}
<1>1. L \in Nat \ {0} /\ N \in Nat /\ IsProgram(P) /\ IsBody(c) /\ IsEnv(env)
  BY RunFacts
<1>2. \A k \in 1..L, n \in 0..N : <<k, n>> \in S <=> SameMachine(X(k, n), Y(k, n), new)
  OBVIOUS
<1>3. ASSUME NEW k \in 1..L,
             SameMachine(Came(P, c, env, path, k), Came(T, d, E, path, k), new)
      PROVE  SameMachine(X(k, 0), Y(k, 0), new)
  <2>1. /\ X(k, 0) = Phis(P, c, Came(P, c, env, path, k), env, Origin(path, k), path[k])
        /\ Y(k, 0) = Phis(T, d, Came(T, d, E, path, k), E, Origin(path, k), path[k])
    BY <1>1, EntryIs
  <2> QED BY <1>3, <2>1, AnewPhis
<1>4. ASSUME NEW k \in 1..L, NEW n \in 1..N, SameMachine(X(k, n - 1), Y(k, n - 1), new)
      PROVE  SameMachine(X(k, n), Y(k, n), new)
  <2>1. /\ X(k, n) = Turn(P, c, env, path[k], c.order[n], X(k, n - 1))
        /\ Y(k, n) = Turn(T, d, E, path[k], d.order[n], Y(k, n - 1))
    BY <1>1, TurnIs
  <2>2. d.order[n] = new[c.order[n]] /\ c.order[n] \in Id
    BY <1>1 DEF IsRenumbered, IsBody
  <2> HIDE DEF X, Y, E
  <2>3. SameMachine(Turn(P, c, env, path[k], c.order[n], X(k, n - 1)),
                    Turn(T, d, E, path[k], new[c.order[n]], Y(k, n - 1)), new)
    BY <1>1, <1>4, <2>2, AnewTurn DEF E
  <2> QED BY <2>1, <2>2, <2>3
<1>5. SameMachine(Machine(env), Machine(E), new)
  <2>1. Machine(env) \in Machines /\ Machine(E) \in Machines
    BY <1>1, MachineType, EnvAnewIsEnv DEF IsRenumbered
  <2>2. E.mem = env.mem
    BY DEF EnvAnew
  <2>3. \A i \in Id : new[i] \in Id
    BY DEF IsRenumbered, Renumbers
  <2> HIDE DEF E
  <2>4. /\ Machine(E).trap = Machine(env).trap /\ Machine(E).mem = Machine(env).mem
        /\ \A i \in Id : Machine(E).val[new[i]] = Machine(env).val[i]
        /\ Machine(E).seen = <<>> /\ Machine(env).seen = <<>>
    BY <2>2, <2>3 DEF Machine
  <2>5. SameSeen(<<>>, <<>>, new)
    <3>1. Len(<<>>) = 0
      OBVIOUS
    <3>2. \A k \in 1..0 : FALSE
      OBVIOUS
    <3> QED BY <3>1, <3>2 DEF SameSeen
  <2> QED BY <2>1, <2>4, <2>5 DEF SameMachine
<1> HIDE DEF S, X, Y, E, L
<1>6. <<1, 0>> \in S
  <2>1. 1 \in 1..L /\ 0 \in 0..N
    BY ONLY <1>1
  <2>2. Came(P, c, env, path, 1) = Machine(env) /\ Came(T, d, E, path, 1) = Machine(E)
    BY DEF Came
  <2> QED BY <1>2, <1>3, <1>5, <2>1, <2>2
<1>7. \A k \in 1..L, n \in 1..N : <<k, n - 1>> \in S => <<k, n>> \in S
  <2>1. \A n \in 1..N : n \in 0..N /\ n - 1 \in 0..N
    BY ONLY <1>1
  <2> QED BY <1>2, <1>4, <2>1
<1>8. ASSUME NEW k \in 2..L, <<k - 1, N>> \in S
      PROVE  <<k, 0>> \in S
  <2>1. k \in 1..L /\ k - 1 \in 1..L /\ k # 1 /\ 0 \in 0..N /\ N \in 0..N
    BY ONLY <1>1, k \in 2..L
  <2>2. SameMachine(X(k - 1, N), Y(k - 1, N), new)
    BY <1>2, <1>8, <2>1
  <2>3. SameMachine(Came(P, c, env, path, k), Came(T, d, E, path, k), new)
    BY <2>1, <2>2 DEF Came, X, Y
  <2> QED BY <1>2, <1>3, <2>1, <2>3
<1>9. \A k \in 1..L, n \in 0..N : <<k, n>> \in S
  BY <1>1, <1>6, <1>7, <1>8, RunInduction
<1>10. L \in 1..L /\ N \in 0..N
  BY ONLY <1>1
<1>11. SameMachine(X(L, N), Y(L, N), new)
  BY <1>2, <1>9, <1>10
<1> QED BY <1>1, <1>11, RunIs DEF X, Y, L, E
=============================================================================
