------------------------------ MODULE DCE_proofs ----------------------------
(***************************************************************************)
(* The worklist of dce.cpp is safe and complete, its order does not show,  *)
(* and the pass is a rewriter, for functions of every size.                *)
(***************************************************************************)
EXTENDS DCE, IR_proofs

\* What is still dead has not been swept yet or is on the list.
DeadListed == \A i \in live : Dead(i) => i \in worklist \/ scan <= i

\* The sweep erases nothing.
SweepErasesNone == scan <= N => live = Id

\* Counted, while the sweep still runs.
CountedSoFar ==
  /\ dead = N - Cardinality(live)
  /\ work <= scan - 1 + 2 * dead

\* Survivors have the operands they were parsed with.
OperandsKept == \A i \in live : args[i] = prog.args[i]

KeptAlive == Kept \subseteq live

\* Only what isDead may name has gone.
GoneRemovable ==
  /\ prog \in Programs
  /\ \A i \in Id \ live : prog.kind[i] \in Removable

Shape ==
  /\ TypeOK
  /\ UsesAlive(live, args)
  /\ UsesWellPlaced(prog, args)
  /\ OperandsFilled(prog, live, args)

Inv ==
  /\ Shape
  /\ SweepErasesNone
  /\ WorklistAlive
  /\ DeadListed
  /\ OperandsKept
  /\ KeptAlive
  /\ GoneRemovable
  /\ CountedSoFar

-----------------------------------------------------------------------------

LEMMA KeptProperty ==
  \A i \in Kept : \/ prog.kind[i] \notin Removable
                  \/ \E j \in Kept, s \in Slot : prog.args[j][s] = i
BY DEF Kept

\* Erasing an unused instruction leaves the operands of the others alone.
LEMMA EraseUnused ==
  ASSUME Shape, NEW i \in live, ~HasUse(args, i)
  PROVE  /\ \A j \in Id \ {i} : Rewritten(args, {i}, Nil)[j] = args[j]
         /\ \A s \in Slot : Rewritten(args, {i}, Nil)[i][s] = Nil
         /\ i \notin Operands(i)
         /\ Operands(i) \subseteq live
<1> DEFINE R == Rewritten(args, {i}, Nil)
<1>1. ASSUME NEW j \in Id \ {i}
      PROVE  R[j] = args[j]
  <2>1. \A s \in Slot : args[j][s] # i
    BY DEF HasUse
  <2>2. R[j] = [s \in Slot |-> args[j][s]]
    BY <2>1 DEF Rewritten
  <2> QED BY <2>2 DEF Shape, TypeOK
<1>2. \A s \in Slot : R[i][s] = Nil
  BY DEF Rewritten, NoArgs, Shape, TypeOK
<1>3. i \in Id
  BY DEF Shape, TypeOK
<1>4. i \notin Operands(i)
  BY <1>3 DEF HasUse, Operands
<1>5. Operands(i) \subseteq live
  BY <1>3 DEF Operands, Shape, UsesAlive
<1> QED BY <1>1, <1>2, <1>4, <1>5

LEMMA EraseShape ==
  ASSUME Shape, NEW i \in live, Erase(i)
  PROVE  /\ args' \in [Id -> [Slot -> Value]]
         /\ UsesWellPlaced(prog, args')
         /\ UsesAlive(live', args')
         /\ OperandsFilled(prog, live', args')
<1> USE DEF Shape, TypeOK
<1>1. {i} \in SUBSET live /\ live \in SUBSET Id
  OBVIOUS
<1>2. Nil \in Value
  BY LeafAssumption DEF Value
<1>3. \A r \in {i} : HasUse(args, r) => StandsFor(prog, Nil, r, live \ {i})
  BY DEF Erase, Dead
<1>4. /\ Rewritten(args, {i}, Nil) \in [Id -> [Slot -> Value]]
      /\ UsesWellPlaced(prog, Rewritten(args, {i}, Nil))
      /\ UsesAlive(live \ {i}, Rewritten(args, {i}, Nil))
      /\ OperandsFilled(prog, live \ {i}, Rewritten(args, {i}, Nil))
  BY <1>1, <1>2, <1>3, RewrittenWellFormed
<1> QED BY <1>4 DEF Erase

LEMMA SlotCount ==
  ASSUME NEW T \in SUBSET Slot
  PROVE  Cardinality(T) \in 0..2
<1>1. Slot = {1} \cup {2}
  BY DEF Slot
<1>2. IsFiniteSet(Slot) /\ Cardinality(Slot) = 2
  <2>1. IsFiniteSet({1}) /\ Cardinality({1}) = 1
    BY FS_Singleton
  <2>2. 2 \notin {1}
    OBVIOUS
  <2> QED BY <1>1, <2>1, <2>2, FS_AddElement
<1>3. IsFiniteSet(T) /\ Cardinality(T) <= 2
  BY <1>2, FS_Subset
<1>4. Cardinality(T) \in Nat
  BY <1>3, FS_CardinalityType
<1> QED BY <1>3, <1>4

-----------------------------------------------------------------------------

LEMMA InvInit == Init => Inv
<1> SUFFICES ASSUME Init PROVE Inv
  OBVIOUS
<1>1. IsProgram(prog) /\ UsesWellPlaced(prog, prog.args)
  BY ProgramsAssumption DEF Init
<1>2. scan \in 1..N+1 /\ scan = NextIn(Id, 0)
  BY NextInAdvances, SizeAssumption DEF Init
<1>3. Shape
  BY <1>1, <1>2 DEF Init, Shape, TypeOK, IsProgram, UsesAlive, OperandsFilled
<1>4. \A i \in Id : scan <= i
  <2> SUFFICES ASSUME NEW i \in Id PROVE scan <= i
    OBVIOUS
  <2>1. 0 < i
    BY SizeAssumption DEF Id
  <2>2. \E j \in Id : 0 < j /\ \A k \in Id : 0 < k => j <= k
    BY <2>1, NextInFirst
  <2>3. scan = CHOOSE j \in Id : 0 < j /\ \A k \in Id : 0 < k => j <= k
    BY <1>2, <2>1 DEF NextIn
  <2> QED BY <2>1, <2>2, <2>3
<1>5. WorklistAlive /\ DeadListed /\ OperandsKept
  BY <1>4 DEF Init, WorklistAlive, DeadListed, OperandsKept
<1>6. KeptAlive
  BY DEF Init, KeptAlive, Kept
<1>9. GoneRemovable
  BY DEF Init, GoneRemovable
<1>7. SweepErasesNone
  BY DEF Init, SweepErasesNone
<1>8. CountedSoFar
  BY <1>2, IdCount, SizeAssumption DEF Init, CountedSoFar
<1> QED BY <1>3, <1>5, <1>6, <1>7, <1>8, <1>9 DEF Inv

\* Past i, the sweep is at the next live instruction: it skips none.
LEMMA NextInSkipsNone ==
  ASSUME NEW L \in SUBSET Id, NEW i \in Int, NEW j \in L, i < j
  PROVE  NextIn(L, i) <= j
<1>1. \E k \in L : i < k /\ \A m \in L : i < m => k <= m
  BY NextInFirst
<1>2. NextIn(L, i) = CHOOSE k \in L : i < k /\ \A m \in L : i < m => k <= m
  BY DEF NextIn
<1> QED BY <1>1, <1>2

LEMMA InvCollect ==
  ASSUME Inv, NEW i \in Id, Collect(i)
  PROVE  Inv'
<1> USE DEF Inv, Shape, TypeOK, Collect
<1>1. i \in 0..N /\ i \in Int
  BY SizeAssumption DEF Id
<1>2. scan' \in 1..N+1
  BY <1>1, NextInAdvances
<1>3. work' \in Nat
  OBVIOUS
<1>4. Shape'
  BY <1>2, <1>3
<1>5. DeadListed'
  <2> SUFFICES ASSUME NEW j \in live, Dead(j), j \notin worklist'
               PROVE  scan' <= j
    BY DEF DeadListed, Dead
  <2>1. j # i /\ scan <= j
    BY DEF DeadListed
  <2>2. j \in Int /\ i < j
    BY <1>1, <2>1, SizeAssumption DEF Id
  <2> QED BY <1>1, <2>2, NextInSkipsNone
<1>6. WorklistAlive'
  <2>1. i \in live
    BY <1>1 DEF SweepErasesNone
  <2> QED BY <2>1 DEF WorklistAlive
<1>7. OperandsKept' /\ KeptAlive'
  BY DEF OperandsKept, KeptAlive, Kept
<1>8. SweepErasesNone'
  BY <1>1 DEF SweepErasesNone
<1>9. CountedSoFar'
  <2>1. i < scan' /\ scan' \in Int
    BY <1>1, <1>2, NextInAdvances
  <2>2. work' <= work + 1
    OBVIOUS
  <2> QED BY <1>1, <2>1, <2>2 DEF CountedSoFar
<1>10. GoneRemovable'
  BY DEF GoneRemovable
<1> QED BY <1>4, <1>5, <1>6, <1>7, <1>8, <1>9, <1>10

LEMMA InvDrop ==
  ASSUME Inv, NEW i \in Id, Drop(i)
  PROVE  Inv'
<1> USE DEF Inv, Drop, Take
<1>1. Shape' /\ SweepErasesNone' /\ OperandsKept' /\ KeptAlive' /\ GoneRemovable'
      /\ CountedSoFar'
  BY DEF Shape, TypeOK, SweepErasesNone, OperandsKept, KeptAlive, Kept,
         GoneRemovable, CountedSoFar
<1>2. WorklistAlive'
  BY DEF WorklistAlive
<1>3. DeadListed'
  BY DEF DeadListed, Dead
<1> QED BY <1>1, <1>2, <1>3

LEMMA InvErase ==
  ASSUME Inv, NEW i \in Id, Erase(i)
  PROVE  Inv'
<1> USE DEF Inv
<1>1. i \in live /\ ~HasUse(args, i) /\ prog.kind[i] \in Removable
  BY DEF Erase, Take, Dead, WorklistAlive
<1>2. /\ \A j \in Id \ {i} : args'[j] = args[j]
      /\ \A s \in Slot : args'[i][s] = Nil
      /\ i \notin Operands(i)
      /\ Operands(i) \subseteq live
  BY <1>1, EraseUnused DEF Erase
<1>3. /\ prog' = prog /\ scan' = scan /\ scan = N + 1
      /\ live' = live \ {i}
      /\ worklist' = (worklist \ {i}) \cup Operands(i)
      /\ dead' = dead + 1
      /\ work' = work + Cardinality({s \in Slot : args[i][s] \in Id})
  BY DEF Erase, Take
<1>4. Cardinality({s \in Slot : args[i][s] \in Id}) \in 0..2
  BY SlotCount
<1>5. Shape'
  <2>1. live' \subseteq Id /\ worklist' \subseteq Id /\ dead' \in Nat /\ work' \in Nat
    BY <1>3, <1>4 DEF Shape, TypeOK, Operands
  <2>2. /\ args' \in [Id -> [Slot -> Value]]
        /\ UsesWellPlaced(prog, args')
        /\ UsesAlive(live', args')
        /\ OperandsFilled(prog, live', args')
    BY <1>1, EraseShape
  <2> QED BY <1>3, <2>1, <2>2 DEF Shape, TypeOK
<1>6. SweepErasesNone'
  BY <1>3, SizeAssumption DEF SweepErasesNone
<1>7. WorklistAlive'
  BY <1>2, <1>3 DEF WorklistAlive
<1>8. DeadListed'
  <2> SUFFICES ASSUME NEW j \in live', prog.kind[j] \in Removable,
                      ~HasUse(args', j)
               PROVE  j \in worklist'
    BY <1>3 DEF DeadListed, Dead
  <2>1. j \in live /\ j # i /\ j \in Id
    BY <1>3 DEF Shape, TypeOK
  <2>2. CASE HasUse(args, j)
    <3>1. PICK k \in Id, s \in Slot : args[k][s] = j
      BY <2>2 DEF HasUse
    <3>2. k = i
      BY <1>2, <3>1 DEF HasUse
    <3> QED BY <1>3, <2>1, <3>1, <3>2 DEF Operands
  <2>3. CASE ~HasUse(args, j)
    <3>1. j \in worklist \/ scan <= j
      BY <2>1, <2>3 DEF DeadListed, Dead
    <3> QED BY <1>3, <2>1, <3>1, SizeAssumption DEF Id
  <2> QED BY <2>2, <2>3
<1>9. OperandsKept'
  BY <1>2, <1>3 DEF OperandsKept, Shape, TypeOK
<1>10. KeptAlive'
  <2>1. Kept' = Kept
    BY <1>3 DEF Kept
  <2>2. i \notin Kept
    <3> SUFFICES ASSUME i \in Kept PROVE FALSE
      OBVIOUS
    <3>1. PICK j \in Kept, s \in Slot : prog.args[j][s] = i
      BY <1>1, KeptProperty
    <3>2. j \in Id /\ args[j][s] = i
      BY <3>1 DEF KeptAlive, OperandsKept, Shape, TypeOK
    <3> QED BY <1>1, <3>2 DEF HasUse
  <2> QED BY <1>3, <2>1, <2>2 DEF KeptAlive
<1>11. CountedSoFar'
  <2>1. /\ Cardinality(live) \in Nat
        /\ Cardinality(live \ {i}) = Cardinality(live) - 1
    <3>1. {i} \in SUBSET live /\ live \in SUBSET Id
      BY <1>1 DEF Shape, TypeOK
    <3>2. Cardinality({i}) = 1
      BY FS_Singleton
    <3> QED BY <3>1, <3>2, ErasedCount
  <2> QED BY <1>3, <1>4, <2>1, SizeAssumption DEF CountedSoFar, Shape, TypeOK
<1>12. GoneRemovable'
  BY <1>1, <1>3 DEF GoneRemovable
<1> QED BY <1>5, <1>6, <1>7, <1>8, <1>9, <1>10, <1>11, <1>12

LEMMA InvStep == Inv /\ [Next]_vars => Inv'
<1> SUFFICES ASSUME Inv, [Next]_vars PROVE Inv'
  OBVIOUS
<1>1. ASSUME NEW i \in Id, Collect(i) \/ Erase(i) \/ Drop(i)
      PROVE  Inv'
  BY <1>1, InvCollect, InvErase, InvDrop
<1>2. CASE UNCHANGED vars
  BY <1>2 DEF vars, Inv, Shape, TypeOK, SweepErasesNone, WorklistAlive, DeadListed,
              Dead, OperandsKept, KeptAlive, Kept, GoneRemovable, CountedSoFar
<1> QED BY <1>1, <1>2 DEF Next, Stopped

LEMMA InvHolds == Spec => []Inv
BY InvInit, InvStep, PTL DEF Spec

-----------------------------------------------------------------------------

\* TYPE: the variables stay in their ranges, in functions of every size.
THEOREM DCETypeOK == Spec => []TypeOK
<1>1. Inv => TypeOK
  BY DEF Inv, Shape
<1> QED BY InvHolds, <1>1, PTL

\* Popping the set never yields a freed instruction.
THEOREM DCEWorklistAlive == Spec => []WorklistAlive
<1>1. Inv => WorklistAlive
  BY DEF Inv
<1> QED BY InvHolds, <1>1, PTL

\* One drain of the list leaves nothing dead.
THEOREM DCEComplete == Spec => []Complete
<1>1. Inv => Complete
  <2> SUFFICES ASSUME Inv, Done, NEW i \in live PROVE ~Dead(i)
    BY DEF Complete
  <2> QED BY SizeAssumption DEF Inv, Done, DeadListed, Shape, TypeOK, Id
<1> QED BY InvHolds, <1>1, PTL

\* Any order of the pointers leaves the same instructions.
THEOREM DCEConfluent == Spec => []Confluent
<1>1. Inv => Confluent
  <2> SUFFICES ASSUME Inv, Done PROVE live = Kept
    BY DEF Confluent
  <2> USE DEF Inv, Shape, TypeOK
  <2>1. ASSUME NEW i \in live
        PROVE  \/ prog.kind[i] \notin Removable
               \/ \E j \in live, s \in Slot : prog.args[j][s] = i
    <3>1. ~Dead(i)
      BY SizeAssumption DEF Done, DeadListed, Id
    <3>2. CASE HasUse(args, i)
      <4>1. PICK j \in Id, s \in Slot : args[j][s] = i
        BY <3>2 DEF HasUse
      <4>2. j \in live
        BY <4>1 DEF UsesAlive
      <4> QED BY <4>1, <4>2 DEF OperandsKept
    <3> QED BY <3>1, <3>2 DEF Dead
  <2>2. live \subseteq Kept
    BY <2>1 DEF Kept
  <2> QED BY <2>2 DEF KeptAlive
<1> QED BY InvHolds, <1>1, PTL

\* The two statistics.
THEOREM DCECounted == Spec => []Counted
<1>1. Inv => Counted
  BY SizeAssumption DEF Inv, CountedSoFar, Counted, Shape, TypeOK
<1> QED BY InvHolds, <1>1, PTL

\* What is left of the function.
Remainder == Body(live, args, prog.blk, [i \in Id |-> i])

\* At each point of each path, what is left has the values and the memory of
\* the function as parsed, which only runs instructions that yield a value
\* nobody uses in between.
LEMMA AgreeAlong ==
  ASSUME Inv, NEW env \in Env, NEW path \in Path[prog.graph]
  PROVE  Agree(live, Run(prog, Parsed(prog), env, path), Run(prog, Remainder, env, path))
<1> DEFINE P == prog
           c == Parsed(P)
           d == Remainder
           L == Len(path)
           X(k, n) == PointAt(P, c, env, path, k, n)
           Y(k, n) == PointAt(P, d, env, path, k, n)
           S == {p \in (1..L) \X (0..N) : Agree(live, X(p[1], p[2]), Y(p[1], p[2]))}
<1>0. /\ IsProgram(P) /\ P \in Programs /\ live \subseteq Id
      /\ UsesAlive(live, args) /\ OperandsKept
      /\ args \in [Id -> [Slot -> Value]]
      /\ \A i \in Id \ live : P.kind[i] \in Removable
      /\ N \in Nat /\ IsEnv(env)
  BY EnvAssumption, SizeAssumption DEF Inv, Shape, TypeOK, GoneRemovable
<1>1. /\ path \in Seq(Block) /\ L \in Nat /\ L # 0 /\ L \in Nat \ {0}
  <2>1. path \in Seq(Block) /\ path # <<>>
    BY <1>0, PathAssumption DEF IsProgram
  <2>2. L \in Nat
    BY <2>1, LenProperties
  <2> QED BY <2>1, <2>2, EmptySeq
<1>2. /\ c.live = Id /\ c.args = P.args /\ c.home = P.blk
      /\ c.order = [i \in Id |-> i]
      /\ d.live = live /\ d.args = args /\ d.home = P.blk
      /\ d.order = [i \in Id |-> i]
  BY DEF Parsed, Body, Remainder
<1>3. IsBody(c) /\ IsBody(d)
  BY <1>0, <1>2 DEF IsBody, IsProgram, Id
<1>4. IsRun(P, c, env, path) /\ IsRun(P, d, env, path)
  BY <1>0, <1>1, <1>2, <1>3 DEF IsRun
<1> HIDE DEF P, c, d
<1>5. /\ \A k \in 1..L, n \in 0..N : X(k, n) \in Machines /\ Y(k, n) \in Machines
      /\ \A k \in 1..L : /\ Came(P, c, env, path, k) \in Machines
                         /\ Came(P, d, env, path, k) \in Machines
  BY <1>4, RunType
\* Equal operands have equal values.
<1>6. ASSUME NEW m, NEW m2, Agree(live, m, m2), ~m.trap, NEW i \in live, NEW s \in Slot
      PROVE  ValueOf(m, env, c.args[i][s]) = ValueOf(m2, env, d.args[i][s])
  <2>1. c.args[i][s] = d.args[i][s] /\ d.args[i][s] = args[i][s]
    BY <1>0, <1>2 DEF OperandsKept, P
  <2>2. args[i][s] \in Id => args[i][s] \in live
    BY <1>0 DEF UsesAlive
  <2> QED BY <1>6, <2>1, <2>2 DEF Agree, ValueOf
<1>7. ASSUME NEW k \in 1..L, NEW m \in Machines, NEW m2 \in Machines, Agree(live, m, m2)
      PROVE  Agree(live, Phis(P, c, m, env, Origin(path, k), path[k]),
                         Phis(P, d, m2, env, Origin(path, k), path[k]))
  <2>1. ASSUME NEW i \in live, ~m.trap, c.home[i] = path[k], P.kind[i] = "phi"
        PROVE  ValueOf(m, env, c.args[i][Incoming(P, i, Origin(path, k))])
             = ValueOf(m2, env, d.args[i][Incoming(P, i, Origin(path, k))])
    <3>1. k > 1 /\ Incoming(P, i, path[k - 1]) \in Slot
      BY <1>0, <1>4, <2>1, IncomingIs
    <3>2. Incoming(P, i, Origin(path, k)) \in Slot
      BY <3>1 DEF Origin
    <3> QED BY <1>6, <1>7, <2>1, <3>2
  <2> QED BY <1>0, <1>2, <1>7, <2>1, AgreePhis
<1>8. ASSUME NEW k \in 1..L, NEW n \in 1..N, Agree(live, X(k, n - 1), Y(k, n - 1))
      PROVE  Agree(live, X(k, n), Y(k, n))
  <2>1. n - 1 \in 0..N /\ n \in Id
    BY <1>0 DEF Id
  <2>2. X(k, n - 1) \in Machines /\ Y(k, n - 1) \in Machines
    BY <1>5, <2>1
  <2>3. /\ X(k, n) = Turn(P, c, env, path[k], n, X(k, n - 1))
        /\ Y(k, n) = Turn(P, d, env, path[k], n, Y(k, n - 1))
    BY <1>1, <1>2, <2>1, TurnIs
  <2>4. n \notin live => P.kind[n] \in Silent
    BY <1>0, <2>1 DEF Removable, Silent, Kind, Stores, Observed
  <2> HIDE DEF X, Y
  <2>5. n \in live /\ ~X(k, n - 1).trap =>
          \A s \in Slot : ValueOf(X(k, n - 1), env, c.args[n][s])
                        = ValueOf(Y(k, n - 1), env, d.args[n][s])
    BY <1>6, <1>8
  <2>6. Agree(live, Turn(P, c, env, path[k], n, X(k, n - 1)),
                    Turn(P, d, env, path[k], n, Y(k, n - 1)))
    BY <1>0, <1>2, <1>3, <1>8, <2>1, <2>2, <2>4, <2>5, AgreeTurn
  <2> QED BY <2>3, <2>6
<1>9. ASSUME NEW k \in 1..L, Agree(live, Came(P, c, env, path, k), Came(P, d, env, path, k))
      PROVE  Agree(live, X(k, 0), Y(k, 0))
  BY <1>1, <1>5, <1>7, <1>9, EntryIs
<1>10. <<1, 0>> \in S
  <2>1. Agree(live, Machine(env), Machine(env))
    BY DEF Agree, Machine
  <2>2. 1 \in 1..L /\ 0 \in 0..N
    BY <1>0, <1>1
  <2>3. Agree(live, X(1, 0), Y(1, 0))
    BY <1>9, <2>1, <2>2 DEF Came
  <2> QED BY <2>2, <2>3
<1>11. ASSUME NEW k \in 1..L, NEW n \in 1..N, <<k, n - 1>> \in S
       PROVE  <<k, n>> \in S
  <2>1. n \in 0..N
    BY <1>0
  <2> HIDE DEF X, Y
  <2> QED BY <1>8, <1>11, <2>1
<1>12. ASSUME NEW k \in 2..L, <<k - 1, N>> \in S
       PROVE  <<k, 0>> \in S
  <2>1. k \in 1..L /\ k # 1 /\ 0 \in 0..N
    BY <1>0
  <2>2. Agree(live, Came(P, c, env, path, k), Came(P, d, env, path, k))
    BY <1>12, <2>1 DEF Came
  <2>3. Agree(live, X(k, 0), Y(k, 0))
    BY <1>9, <2>1, <2>2
  <2> QED BY <2>1, <2>3
<1>13. <<L, N>> \in S
  <2>1. L \in 1..L /\ N \in 0..N
    BY <1>0, <1>1
  <2> HIDE DEF S, L
  <2> QED BY <1>1, <1>10, <1>11, <1>12, <2>1, RunInduction
<1> QED BY <1>1, <1>13, RunIs DEF P, c, d

\* Deleting what is dead does not change what a caller can observe.
THEOREM DCEBehaviourKept == Spec => []BehaviourKept
<1>1. Inv => BehaviourKept
  <2> SUFFICES ASSUME Inv PROVE SameBehaviour(prog, Remainder, Env)
    BY DEF BehaviourKept, Remainder
  <2> QED BY AgreeAlong, AgreeBehaviour
<1> QED BY InvHolds, <1>1, PTL

\* The operators of IR that Rewriter sees are those that DCE sees.
LEMMA SameOperators ==
  /\ Abstract!Id = Id /\ Abstract!Slot = Slot /\ Abstract!Value = Value
  /\ Abstract!NoArgs = NoArgs /\ Abstract!Kind = Kind /\ Abstract!Void = Void
  /\ \A P : Abstract!IsProgram(P) = IsProgram(P)
  /\ \A P, i, j : Abstract!Before(P, i, j) = Before(P, i, j)
  /\ \A P, M : Abstract!UsesWellPlaced(P, M) = UsesWellPlaced(P, M)
  /\ \A M, gone, v : Abstract!Rewritten(M, gone, v) = Rewritten(M, gone, v)
  /\ \A M, r : Abstract!HasUse(M, r) = HasUse(M, r)
<1>1. /\ Abstract!Id = Id /\ Abstract!Slot = Slot
      /\ Abstract!Kind = Kind /\ Abstract!Void = Void
      /\ Abstract!Passing = Passing /\ Abstract!Loads = Loads
  BY DEF Abstract!Id, Id, Abstract!Slot, Slot, Abstract!Kind, Kind, Abstract!Void,
         Void, Abstract!Passing, Passing, Abstract!Loads, Loads
<1>2. Abstract!Value = Value /\ Abstract!NoArgs = NoArgs
  BY <1>1 DEF Abstract!Value, Value, Abstract!NoArgs, NoArgs
<1>3. \A P : Abstract!IsProgram(P) = IsProgram(P)
  BY <1>1, <1>2 DEF Abstract!IsProgram, IsProgram
<1>4. \A P, i, j : Abstract!Before(P, i, j) = Before(P, i, j)
  BY DEF Abstract!Before, Before
<1>5. \A M, r : Abstract!HasUse(M, r) = HasUse(M, r)
  BY <1>1 DEF Abstract!HasUse, HasUse
<1>6. \A P, r, i, s : Abstract!MayUse(P, r, i, s) = MayUse(P, r, i, s)
  BY <1>1, <1>4 DEF Abstract!MayUse, MayUse
<1>7. \A P, M : Abstract!UsesWellPlaced(P, M) = UsesWellPlaced(P, M)
  BY <1>1, <1>6 DEF Abstract!UsesWellPlaced, UsesWellPlaced
<1>8. \A M, gone, v : Abstract!Rewritten(M, gone, v) = Rewritten(M, gone, v)
  BY <1>1, <1>2 DEF Abstract!Rewritten, Rewritten
<1> QED BY <1>1, <1>2, <1>3, <1>4, <1>5, <1>7, <1>8

\* The pass implements the abstract rewriter: it replaces nothing.
THEOREM DCERefinesRewriter == Spec => RefinesRewriter
<1>1. Init => Abstract!Init
  <2> SUFFICES ASSUME Init PROVE Abstract!Init
    OBVIOUS
  <2>1. IsProgram(prog) /\ UsesWellPlaced(prog, prog.args)
    BY ProgramsAssumption DEF Init
  <2> QED BY <2>1, SameOperators DEF Init, Abstract!Init
<1>2. Inv /\ [Next]_vars => [Abstract!Next]_(Abstract!vars)
  <2> SUFFICES ASSUME Inv, [Next]_vars
               PROVE  [Abstract!Next]_(Abstract!vars)
    OBVIOUS
  <2>1. ASSUME NEW i \in Id, Erase(i)
        PROVE  Abstract!Next
    <3>1. live \ live' = {i}
      BY <2>1 DEF Erase, Take, Inv, WorklistAlive
    <3>2. ~Abstract!HasUse(args, i)
      BY <2>1, SameOperators DEF Erase, Dead
    <3>3. args' = Abstract!Rewritten(args, live \ live', Nil)
      BY <2>1, <3>1, SameOperators DEF Erase
    <3>4. Abstract!Rewrite(Nil)
      BY <2>1, <3>1, <3>2, <3>3 DEF Erase, Abstract!Rewrite
    <3>5. Nil \in Abstract!Value
      BY LeafAssumption, SameOperators DEF Value
    <3> QED BY <3>4, <3>5 DEF Abstract!Next
  <2>2. ASSUME NEW i \in Id, Collect(i) \/ Drop(i)
        PROVE  UNCHANGED Abstract!vars
    BY <2>2 DEF Collect, Drop, Abstract!vars
  <2>3. CASE UNCHANGED vars
    BY <2>3 DEF vars, Abstract!vars
  <2> QED BY <2>1, <2>2, <2>3 DEF Next, Stopped
<1> QED BY InvHolds, <1>1, <1>2, PTL DEF Spec, RefinesRewriter, Abstract!Spec

-----------------------------------------------------------------------------
(* How far the two loops still have to go.                                 *)

\* Turns that are left at most: two for what the sweep has before it and for
\* what an erasure frees, one for what is on the list.
TurnsLeft == 2 * (N + 1 - scan) + 2 * Cardinality(live) + Cardinality(worklist)

LEMMA OperandCount ==
  ASSUME TypeOK, NEW i \in Id
  PROVE  IsFiniteSet(Operands(i)) /\ Cardinality(Operands(i)) <= 2
<1> DEFINE T == {args[i][1]} \cup {args[i][2]}
<1>1. Operands(i) \subseteq T
  BY DEF Operands, Slot
<1>2. /\ IsFiniteSet({args[i][1]}) /\ Cardinality({args[i][1]}) = 1
      /\ IsFiniteSet({args[i][2]}) /\ Cardinality({args[i][2]}) = 1
  BY FS_Singleton
<1>3. IsFiniteSet(T) /\ Cardinality(T) <= 2
  <2>1. Cardinality({args[i][1]} \cap {args[i][2]}) \in Nat
    BY <1>2, FS_Intersection, FS_CardinalityType
  <2> QED BY <1>2, <2>1, FS_Union
<1>4. IsFiniteSet(Operands(i)) /\ Cardinality(Operands(i)) <= Cardinality(T)
  BY <1>1, <1>3, FS_Subset
<1> QED BY <1>3, <1>4, FS_CardinalityType

\* Of a set of instructions to which a few more are added.
LEMMA Enlarged ==
  ASSUME NEW L \in SUBSET Id, NEW T, IsFiniteSet(T)
  PROVE  Cardinality(L \cup T) <= Cardinality(L) + Cardinality(T)
<1>1. IsFiniteSet(L)
  <2>1. IsFiniteSet(Id)
    BY FS_Interval, SizeAssumption DEF Id
  <2> QED BY <2>1, FS_Subset
<1>2. /\ Cardinality(L \cap T) \in Nat
      /\ Cardinality(L) \in Nat
      /\ Cardinality(T) \in Nat
  BY <1>1, FS_Intersection, FS_CardinalityType
<1>3. Cardinality(L \cup T)
        = Cardinality(L) + Cardinality(T) - Cardinality(L \cap T)
  BY <1>1, FS_Union
<1> QED BY <1>2, <1>3

LEMMA OneLess ==
  ASSUME NEW L \in SUBSET Id, NEW i \in L
  PROVE  /\ Cardinality(L) \in Nat
         /\ Cardinality(L \ {i}) = Cardinality(L) - 1
<1>1. {i} \in SUBSET L /\ Cardinality({i}) = 1
  BY FS_Singleton
<1> QED BY <1>1, ErasedCount

LEMMA TurnsCount == Inv => TurnsLeft \in Nat
<1> SUFFICES ASSUME Inv PROVE TurnsLeft \in Nat
  OBVIOUS
<1>1. scan \in 1..N+1 /\ live \in SUBSET Id /\ worklist \in SUBSET Id
  BY DEF Inv, Shape, TypeOK
<1>2. Cardinality(live) \in Nat /\ Cardinality(worklist) \in Nat
  BY <1>1, ErasedCount
<1> QED BY <1>1, <1>2, SizeAssumption DEF TurnsLeft

LEMMA CollectLowers ==
  ASSUME Inv, NEW i \in Id, Collect(i)
  PROVE  TurnsLeft' < TurnsLeft
<1>1. /\ scan = i /\ i \in 0..N /\ scan' = NextIn(live, i)
      /\ live' = live /\ live \in SUBSET Id /\ worklist \in SUBSET Id
  BY SizeAssumption DEF Collect, Inv, Shape, TypeOK, Id
<1>2. scan < scan' /\ scan' \in 1..N+1
  BY <1>1, NextInAdvances
<1>3. Cardinality(worklist) \in Nat /\ Cardinality(live) \in Nat
  BY <1>1, ErasedCount
<1>4. Cardinality(worklist') \in Nat /\ Cardinality(worklist') <= Cardinality(worklist) + 1
  <2> DEFINE T == {j \in {i} : Dead(j)}
  <2>1. IsFiniteSet({i}) /\ Cardinality({i}) = 1
    BY FS_Singleton
  <2>2. IsFiniteSet(T) /\ Cardinality(T) <= 1
    BY <2>1, FS_Subset
  <2>3. Cardinality(T) \in Nat
    BY <2>2, FS_CardinalityType
  <2>4. worklist' = worklist \cup T
    BY DEF Collect
  <2>5. worklist' \in SUBSET Id
    BY <1>1, <2>4
  <2>6. Cardinality(worklist \cup T) <= Cardinality(worklist) + Cardinality(T)
    BY <1>1, <2>2, Enlarged
  <2>7. Cardinality(worklist') \in Nat
    BY <2>5, ErasedCount
  <2> QED BY <1>3, <2>2, <2>3, <2>4, <2>6, <2>7
<1> QED BY <1>1, <1>2, <1>3, <1>4, SizeAssumption DEF TurnsLeft

LEMMA DropLowers ==
  ASSUME Inv, NEW i \in Id, Drop(i)
  PROVE  TurnsLeft' < TurnsLeft
<1>1. /\ i \in worklist /\ worklist' = worklist \ {i}
      /\ live' = live /\ scan' = scan /\ scan \in 1..N+1
      /\ live \in SUBSET Id /\ worklist \in SUBSET Id
  BY DEF Drop, Take, Inv, Shape, TypeOK
<1>2. /\ Cardinality(worklist) \in Nat
      /\ Cardinality(worklist') = Cardinality(worklist) - 1
      /\ Cardinality(live) \in Nat
  BY <1>1, OneLess, ErasedCount
<1> QED BY <1>1, <1>2, SizeAssumption DEF TurnsLeft

\* An erasure lists two operands at most, and frees one instruction for good.
LEMMA EraseLowers ==
  ASSUME Inv, NEW i \in Id, Erase(i)
  PROVE  TurnsLeft' < TurnsLeft
<1>1. /\ i \in worklist /\ worklist' = (worklist \ {i}) \cup Operands(i)
      /\ live' = live \ {i} /\ scan' = scan /\ scan \in 1..N+1
      /\ live \in SUBSET Id /\ worklist \in SUBSET Id /\ i \in live
  BY DEF Erase, Take, Inv, Shape, TypeOK, WorklistAlive
<1>2. /\ Cardinality(live) \in Nat
      /\ Cardinality(live') = Cardinality(live) - 1
      /\ Cardinality(worklist) \in Nat
      /\ Cardinality(worklist \ {i}) = Cardinality(worklist) - 1
  BY <1>1, OneLess
<1>3. IsFiniteSet(Operands(i)) /\ Cardinality(Operands(i)) <= 2
  BY OperandCount DEF Inv, Shape
<1>4. Cardinality(worklist') <= Cardinality(worklist \ {i}) + Cardinality(Operands(i))
  BY <1>1, <1>3, Enlarged
<1>5. Cardinality(Operands(i)) \in Nat /\ Cardinality(worklist') \in Nat
  <2>1. worklist' \in SUBSET Id
    BY <1>1 DEF Operands
  <2> QED BY <1>3, <2>1, FS_CardinalityType, ErasedCount
<1> QED BY <1>1, <1>2, <1>3, <1>4, <1>5, SizeAssumption DEF TurnsLeft

LEMMA TurnLowers == Inv /\ [Next]_vars => [TurnsLeft' < TurnsLeft]_vars
<1> SUFFICES ASSUME Inv, [Next]_vars PROVE [TurnsLeft' < TurnsLeft]_vars
  OBVIOUS
<1>1. ASSUME NEW i \in Id, Collect(i) \/ Erase(i) \/ Drop(i)
      PROVE  TurnsLeft' < TurnsLeft
  BY <1>1, CollectLowers, EraseLowers, DropLowers
<1> QED BY <1>1 DEF Next, Stopped

LEMMA TurnsAtMost == Inv /\ Init => TurnsLeft <= 4 * N
<1> SUFFICES ASSUME Inv, Init PROVE TurnsLeft <= 4 * N
  OBVIOUS
<1>1. scan \in 1..N+1
  BY DEF Inv, Shape, TypeOK
<1>2. Cardinality(live) = N /\ Cardinality(worklist) = 0
  BY IdCount, FS_EmptySet DEF Init
<1> QED BY <1>1, <1>2, SizeAssumption DEF TurnsLeft

\* Every order of the worklist is short: no turn of the two loops is idle,
\* although an erasure may list two more, and a function of N instructions is
\* done after 4 * N of them at the latest.
THEOREM DCEFewTurns ==
  Spec => [](TurnsLeft \in 0..4 * N) /\ [][TurnsLeft' < TurnsLeft]_vars
<1> DEFINE Few == TurnsLeft <= 4 * N
<1>1. Init => Few
  BY InvInit, TurnsAtMost
<1>2. Inv /\ Inv' /\ Few /\ [Next]_vars => Few'
  <2> SUFFICES ASSUME Inv, Inv', Few, [Next]_vars PROVE Few'
    OBVIOUS
  <2>1. TurnsLeft \in Nat /\ TurnsLeft' \in Nat
    <3>1. TurnsLeft \in Nat
      BY TurnsCount
    <3>2. scan' \in 1..N+1 /\ live' \in SUBSET Id /\ worklist' \in SUBSET Id
      BY DEF Inv, Shape, TypeOK
    <3>3. Cardinality(live') \in Nat /\ Cardinality(worklist') \in Nat
      BY <3>2, ErasedCount
    <3> QED BY <3>1, <3>2, <3>3, SizeAssumption DEF TurnsLeft
  <2>2. CASE TurnsLeft' < TurnsLeft
    BY <2>1, <2>2, SizeAssumption
  <2>3. CASE UNCHANGED vars
    BY <2>3 DEF vars, TurnsLeft
  <2> QED BY <2>2, <2>3, TurnLowers
<1>3. Inv /\ Few => TurnsLeft \in 0..4 * N
  BY TurnsCount, SizeAssumption
<1> QED BY InvHolds, TurnLowers, <1>1, <1>2, <1>3, PTL DEF Spec
=============================================================================
