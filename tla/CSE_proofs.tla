------------------------------ MODULE CSE_proofs ----------------------------
(***************************************************************************)
(* The CSE pass of p2.cpp is a rewriter, keeps its iterator valid, its     *)
(* counters balanced and the instructions with effects, for functions of   *)
(* every size.  Each turn of the loop is first shown to erase a batch with *)
(* one replacement (Batch); the invariants follow from that.               *)
(***************************************************************************)
EXTENDS CSE, IR_proofs

Shape == TypeOK /\ NoDanglingUse /\ DefsDominateUses

Inv ==
  /\ Shape
  /\ IteratorValid
  /\ StatsBalance
  /\ EffectsKept

\* gone may be erased in favour of v.
Sound(gone, v) ==
  /\ gone \subseteq live
  /\ v \in Value
  /\ \A r \in gone : HasUse(args, r) => StandsFor(prog, v, r, live \ gone)

\* The kinds of instructions the pass may erase.
Erasable(gone) ==
  \A r \in gone : prog.kind[r] \notin {"vload", "vstore", "call", "alloca", "term"}

-----------------------------------------------------------------------------

LEMMA IdIsInt == Id \subseteq Int /\ Id \subseteq 0..N
BY SizeAssumption DEF Id

LEMMA EraseShape ==
  ASSUME Shape, NEW gone, NEW v, Sound(gone, v), Erase(gone, v)
  PROVE  /\ live' = live \ gone
         /\ live' \subseteq Id
         /\ args' \in [Id -> [Slot -> Value]]
         /\ UsesWellPlaced(prog, args')
         /\ UsesAlive(live', args')
         /\ OperandsFilled(prog, live', args')
<1> USE DEF Shape, TypeOK, NoDanglingUse, DefsDominateUses, Sound
<1>1. gone \in SUBSET live /\ live \in SUBSET Id /\ v \in Value
  OBVIOUS
<1>2. /\ Rewritten(args, gone, v) \in [Id -> [Slot -> Value]]
      /\ UsesWellPlaced(prog, Rewritten(args, gone, v))
      /\ UsesAlive(live \ gone, Rewritten(args, gone, v))
      /\ OperandsFilled(prog, live \ gone, Rewritten(args, gone, v))
  BY <1>1, RewrittenWellFormed
<1> QED BY <1>1, <1>2 DEF Erase

\* What an operand is: alive, of a kind that yields a value, well placed.
LEMMA OperandFacts ==
  ASSUME Shape, NEW i \in Id, NEW s \in Slot, args[i][s] \in Id
  PROVE  /\ args[i][s] \in live
         /\ prog.kind[args[i][s]] \notin Void
         /\ MayUse(prog, args[i][s], i, s)
BY DEF Shape, NoDanglingUse, DefsDominateUses, UsesAlive, UsesWellPlaced, MayUse

\* What is passed on is there.
LEMMA FirstOperand ==
  ASSUME Shape, NEW i \in live, prog.kind[i] \in Passing
  PROVE  args[i][1] # Nil
BY DEF Shape, TypeOK, NoDanglingUse, OperandsFilled, IsProgram, Slot

\* What a store yields, nobody uses.
LEMMA VoidUnused ==
  ASSUME Shape, NEW i \in Id, prog.kind[i] \in Void
  PROVE  ~HasUse(args, i)
BY DEF Shape, DefsDominateUses, UsesWellPlaced, MayUse, HasUse

-----------------------------------------------------------------------------
(* Each turn erases a sound batch.                                         *)

LEMMA DeadSound ==
  ASSUME Shape, NEW i \in live, Dead(i)
  PROVE  Sound({i}, Nil) /\ Erasable({i})
<1>1. Nil \in Value
  BY LeafAssumption DEF Value
<1> QED BY <1>1 DEF Dead, DeadKinds, Sound, Erasable

LEMMA SimplifySound ==
  ASSUME Shape, NEW i \in live, NEW v \in Simplifications(i)
  PROVE  Sound({i}, v) /\ Erasable({i})
<1> USE DEF Shape, TypeOK
<1>1. i \in Id /\ args[i][1] \in Value
  BY DEF Slot
<1>2. v \in {args[i][1], Zero} /\ prog.kind[i] \in {"sub", "gep", "phi"}
  BY DEF Simplifications
<1>3. v \in Leaf \/ (v = args[i][1] /\ Before(prog, v, i))
  BY LeafAssumption DEF Simplifications
<1>4. v \in Value /\ v # Nil
  BY <1>1, <1>2, FirstOperand, LeafAssumption DEF Value, Passing
<1>5. CASE v \in Leaf
  BY <1>2, <1>4, <1>5 DEF Sound, Erasable, StandsFor
<1>6. CASE v \notin Leaf
  <2>1. v \in Id /\ v = args[i][1] /\ Before(prog, v, i)
    BY <1>3, <1>4, <1>6 DEF Value
  <2>2. v \in live /\ prog.kind[v] \notin Void
    BY <1>1, <2>1, OperandFacts DEF Slot
  <2>3. v # i
    BY <2>1, BeforeIrreflexive
  <2> QED BY <1>2, <1>4, <2>1, <2>2, <2>3 DEF Sound, Erasable, StandsFor
<1> QED BY <1>5, <1>6

LEMMA KidsFacts ==
  ASSUME Shape, NEW i \in Id, NEW j \in Id, InChildBlock(i, j)
  PROVE  j # i /\ Before(prog, i, j)
<1>1. prog.blk[j] # prog.blk[i] /\ <<prog.blk[i], prog.blk[j]>> \in Dom[prog.graph]
  BY DEF InChildBlock, Kids
<1> QED BY <1>1 DEF Before

LEMMA LaterFacts ==
  ASSUME NEW i \in Id, NEW j \in Id, SameBlockLater(i, j)
  PROVE  j # i /\ Before(prog, i, j)
BY IdIsInt DEF SameBlockLater, SameBlock, Before

\* Any set of later instructions of the block or of a child block may be
\* replaced by i, when i yields a value.
LEMMA LaterSound ==
  ASSUME Shape, NEW i \in live, prog.kind[i] \notin Void, NEW gone \in SUBSET live,
         \A j \in gone : SameBlockLater(i, j) \/ InChildBlock(i, j)
  PROVE  Sound(gone, i)
<1>1. i \in Id /\ gone \subseteq Id
  BY DEF Shape, TypeOK
<1>2. \A j \in gone : j # i /\ Before(prog, i, j)
  BY <1>1, KidsFacts, LaterFacts
<1>3. i \in live \ gone
  BY <1>2
<1> QED BY <1>1, <1>2, <1>3 DEF Sound, StandsFor, Value

LEMMA TwinsSound ==
  ASSUME Shape, NEW i \in live, CSEable(i)
  PROVE  /\ Sound(Twins(i), i) /\ Erasable(Twins(i))
         /\ Sound(TwinsInBlock(i), i) /\ Erasable(TwinsInBlock(i))
<1>1. prog.kind[i] \notin Void
  BY DEF CSEable, Void
<1>2. Erasable(Twins(i)) /\ Erasable(TwinsInBlock(i))
  BY DEF CSEable, Twins, TwinsInBlock, Identical, Erasable
<1>3. Sound(Twins(i), i)
  BY <1>1, LaterSound DEF Twins
<1>4. Sound(TwinsInBlock(i), i)
  BY <1>1, LaterSound DEF TwinsInBlock
<1> QED BY <1>2, <1>3, <1>4

LEMMA LoadsSound ==
  ASSUME Shape, NEW i \in live, prog.kind[i] \in Loads, NEW gone \in LoadsErased(i)
  PROVE  Sound(gone, i) /\ Erasable(gone)
<1>1. gone \subseteq SameLoads(i)
  BY DEF LoadsErased
<1>2. gone \in SUBSET live /\ \A j \in gone : SameBlockLater(i, j)
  BY <1>1 DEF SameLoads
<1>3. prog.kind[i] \notin Void
  BY DEF Loads, Void
<1>4. Sound(gone, i)
  BY <1>2, <1>3, LaterSound
<1> QED BY <1>1, <1>4 DEF SameLoads, Erasable

LEMMA StoreSound ==
  ASSUME Shape, NEW i \in live, prog.kind[i] \in Stores,
         NEW killed \in SUBSET {i}, killed # {} => Overwritten(i)
  PROVE  /\ Sound(Forwarded(i) \cup killed, args[i][1])
         /\ Erasable(Forwarded(i) \cup killed)
         /\ i \notin Forwarded(i)
<1> DEFINE v == args[i][1]
           gone == Forwarded(i) \cup killed
<1>1. i \in Id /\ live \subseteq Id /\ v \in Value /\ v # Nil
  BY FirstOperand DEF Shape, TypeOK, Slot, Stores, Passing
<1>2. \A r \in Forwarded(i) : r \in live /\ SameBlockLater(i, r) /\ prog.kind[r] = "load"
  BY DEF Forwarded, Forwardable
<1>3. i \notin Forwarded(i)
  BY <1>1, <1>2, LaterFacts
<1>4. Erasable(gone)
  BY <1>2 DEF Erasable, Overwritten
<1>5. ~HasUse(args, i)
  BY <1>1, VoidUnused DEF Stores, Void
<1>6. gone \subseteq live
  BY <1>2
<1>7. ASSUME v \in Leaf
      PROVE  Sound(gone, v)
  BY <1>1, <1>6, <1>7 DEF Sound, StandsFor
<1>8. ASSUME v \notin Leaf
      PROVE  Sound(gone, v)
  <2>1. v \in Id
    BY <1>1, <1>8 DEF Value
  <2>2. v \in live /\ prog.kind[v] \notin Void /\ MayUse(prog, v, i, 1)
    BY <1>1, <2>1, OperandFacts DEF Slot
  <2>3. Before(prog, v, i)
    BY <2>2 DEF MayUse, Stores
  <2>4. v # i
    BY <1>1, <2>3, BeforeIrreflexive
  <2>5. v \notin Forwarded(i)
    <3> SUFFICES ASSUME v \in Forwarded(i) PROVE FALSE
      OBVIOUS
    <3>1. Before(prog, i, v)
      BY <1>1, <1>2, <2>1, LaterFacts
    <3>2. IsProgram(prog)
      BY DEF Shape, TypeOK
    <3>3. Before(prog, i, i)
      BY <1>1, <2>1, <2>3, <3>1, <3>2, BeforeTransitive
    <3> QED BY <1>1, <3>3, BeforeIrreflexive
  <2>6. \A r \in Forwarded(i) : Before(prog, v, r)
    <3> SUFFICES ASSUME NEW r \in Forwarded(i) PROVE Before(prog, v, r)
      OBVIOUS
    <3>1. r \in Id /\ Before(prog, i, r)
      BY <1>1, <1>2, LaterFacts
    <3>2. IsProgram(prog)
      BY DEF Shape, TypeOK
    <3> QED BY <1>1, <2>1, <2>3, <3>1, <3>2, BeforeTransitive
  <2>7. v \in live \ gone
    BY <2>2, <2>4, <2>5
  <2>8. ASSUME NEW r \in gone, HasUse(args, r)
        PROVE  StandsFor(prog, v, r, live \ gone)
    <3>1. r \in Forwarded(i)
      BY <1>5, <2>8
    <3> QED BY <2>2, <2>6, <2>7, <3>1 DEF StandsFor
  <2> QED BY <1>1, <1>6, <2>8 DEF Sound
<1> QED BY <1>3, <1>4, <1>7, <1>8

-----------------------------------------------------------------------------
(* The invariant.                                                          *)

LEMMA InvInit == Init => Inv
<1> SUFFICES ASSUME Init PROVE Inv
  OBVIOUS
<1>1. IsProgram(prog) /\ UsesWellPlaced(prog, prog.args)
  BY ProgramsAssumption DEF Init
<1>2. cur \in Id \cup {N + 1} /\ cur \in 1..N+1
  BY NextInAdvances, SizeAssumption DEF Init
<1>3. Shape
  BY <1>1, <1>2 DEF Init, Shape, TypeOK, NoDanglingUse, DefsDominateUses,
                    IsProgram, UsesAlive, OperandsFilled
<1>4. IteratorValid /\ EffectsKept
  BY <1>2 DEF Init, IteratorValid, EffectsKept
<1>5. StatsBalance
  BY IdCount, SizeAssumption DEF Init, StatsBalance, Total, Counter
<1> QED BY <1>3, <1>4, <1>5 DEF Inv

\* A turn that erases a sound batch, counts it and leaves the iterator on a
\* survivor keeps the invariant.
LEMMA BatchInv ==
  ASSUME Inv, NEW gone, NEW v, Sound(gone, v), Erasable(gone), Erase(gone, v),
         prog' = prog, status' \in {"running", "done", "crashed"},
         cur' \in live' \cup {N + 1},
         stats' \in [Counter -> Nat], Total' = Total + Cardinality(gone)
  PROVE  Inv'
<1> USE DEF Inv
<1>1. /\ live' = live \ gone /\ live' \subseteq Id
      /\ args' \in [Id -> [Slot -> Value]]
      /\ UsesWellPlaced(prog, args')
      /\ UsesAlive(live', args')
      /\ OperandsFilled(prog, live', args')
  BY EraseShape
<1>2. cur' \in 1..N+1
  BY <1>1, SizeAssumption DEF Id
<1>3. Shape'
  BY <1>1, <1>2 DEF Shape, TypeOK, NoDanglingUse, DefsDominateUses
<1>4. IteratorValid'
  BY DEF IteratorValid
<1>5. EffectsKept'
  BY <1>1 DEF EffectsKept, Erasable
<1>6. StatsBalance'
  <2>1. live \in SUBSET Id /\ gone \in SUBSET live
    BY DEF Shape, TypeOK, Sound
  <2>2. /\ Cardinality(live) \in Nat /\ Cardinality(gone) \in Nat
        /\ Cardinality(live') = Cardinality(live) - Cardinality(gone)
    BY <1>1, <2>1, ErasedCount
  <2> QED BY <2>2, SizeAssumption DEF StatsBalance
<1> QED BY <1>3, <1>4, <1>5, <1>6

LEMMA CountTotal ==
  ASSUME stats \in [Counter -> Nat], NEW c \in Counter, NEW n \in Nat, Count(c, n)
  PROVE  stats' \in [Counter -> Nat] /\ Total' = Total + n
<1>1. stats' = [stats EXCEPT ![c] = stats[c] + n]
  BY DEF Count
<1>2. stats' \in [Counter -> Nat]
  BY <1>1
<1>3. \A d \in Counter : stats[d] \in Nat
                         /\ stats'[d] = IF d = c THEN stats[d] + n ELSE stats[d]
  BY <1>1
<1>4. Total' = Total + n
  BY <1>3 DEF Total, Counter
<1> QED BY <1>2, <1>4

LEMMA CountStoreTotal ==
  ASSUME stats \in [Counter -> Nat], NEW i, NEW n \in Nat, NEW k \in Nat,
         CountStore(i, n, k)
  PROVE  stats' \in [Counter -> Nat] /\ Total' = Total + (n + k)
<1>1. stats' \in [Counter -> Nat]
  BY DEF CountStore, Counter
<1>2. \A d \in Counter :
        /\ stats[d] \in Nat
        /\ stats'[d] = IF d = "StElim" THEN stats[d] + k
                      ELSE IF d = "Store2Load" THEN stats[d] + n ELSE stats[d]
  BY DEF CountStore, Counter
<1>3. Total' = Total + (n + k)
  BY <1>2 DEF Total, Counter
<1> QED BY <1>1, <1>3

\* The iterator's instruction is alive while the loop runs.
LEMMA AtLive ==
  ASSUME Inv, NEW i \in Id, At(i)
  PROVE  /\ i \in live /\ i \in 0..N /\ live \in SUBSET Id
         /\ stats \in [Counter -> Nat]
         /\ status \in {"running", "done", "crashed"}
BY IdIsInt, SizeAssumption DEF At, Inv, IteratorValid, Id, Shape, TypeOK

\* Moving on over what is left.
LEMMA AdvanceOverLeft ==
  ASSUME Inv, NEW i \in Id, At(i), NEW gone, live' = live \ gone,
         cur' = NextIn(live', i)
  PROVE  cur' \in live' \cup {N + 1}
<1>1. live' \in SUBSET Id /\ i \in 0..N
  BY AtLive
<1> QED BY <1>1, NextInAdvances

\* Moving on before i itself is erased.
LEMMA AdvanceFirst ==
  ASSUME Inv, NEW i \in Id, At(i), live' = live \ {i}, cur' = NextIn(live, i)
  PROVE  cur' \in live' \cup {N + 1}
<1>1. live \in SUBSET Id /\ i \in 0..N /\ i \in Int
  BY AtLive, IdIsInt
<1>2. cur' \in live \cup {N + 1} /\ i < cur'
  BY <1>1, NextInAdvances
<1> QED BY <1>1, <1>2

LEMMA InvEraseDead ==
  ASSUME Inv, NEW i \in Id, EraseDead(i)
  PROVE  Inv'
<1>1. i \in live /\ stats \in [Counter -> Nat] /\ Shape
  BY AtLive DEF EraseDead, Inv
<1>2. Sound({i}, Nil) /\ Erasable({i})
  BY <1>1, DeadSound DEF EraseDead
<1>3. cur' \in live' \cup {N + 1}
  BY AdvanceFirst DEF EraseDead, Erase
<1>4. stats' \in [Counter -> Nat] /\ Total' = Total + Cardinality({i})
  BY <1>1, CountTotal, FS_Singleton DEF EraseDead, Counter
<1> QED BY <1>2, <1>3, <1>4, AtLive, BatchInv DEF EraseDead

LEMMA InvSimplify ==
  ASSUME Inv, NEW i \in Id, Simplify(i)
  PROVE  Inv'
<1>1. i \in live /\ stats \in [Counter -> Nat] /\ Shape
  BY AtLive DEF Simplify, Inv
<1>2. PICK v \in Simplifications(i) : Erase({i}, v)
  BY DEF Simplify
<1>3. Sound({i}, v) /\ Erasable({i})
  BY <1>1, SimplifySound
<1>4. cur' \in live' \cup {N + 1}
  BY <1>2, AdvanceFirst DEF Simplify, Erase
<1>5. stats' \in [Counter -> Nat] /\ Total' = Total + Cardinality({i})
  BY <1>1, CountTotal, FS_Singleton DEF Simplify, Counter
<1> QED BY <1>2, <1>3, <1>4, <1>5, AtLive, BatchInv DEF Simplify

\* A batch of live instructions has a cardinality.
LEMMA BatchCount ==
  ASSUME Inv, NEW gone, NEW v, Sound(gone, v)
  PROVE  Cardinality(gone) \in Nat
BY ErasedCount DEF Inv, Shape, TypeOK, Sound

LEMMA InvEraseTwins ==
  ASSUME Inv, NEW i \in Id, EraseTwins(i)
  PROVE  Inv'
<1> DEFINE gone == Twins(i)
<1>1. i \in live /\ stats \in [Counter -> Nat] /\ Shape
  BY AtLive DEF EraseTwins, Examine, Inv
<1>2. Sound(gone, i) /\ Erasable(gone)
  BY <1>1, TwinsSound DEF EraseTwins
<1>3. cur' \in live' \cup {N + 1}
  BY AdvanceOverLeft DEF EraseTwins, Examine, Erase
<1>4. stats' \in [Counter -> Nat] /\ Total' = Total + Cardinality(gone)
  BY <1>1, <1>2, BatchCount, CountTotal DEF EraseTwins, Counter
<1> QED BY <1>2, <1>3, <1>4, AtLive, BatchInv DEF EraseTwins, Examine

LEMMA InvCrash ==
  ASSUME Inv, NEW i \in Id, CrashOnUnreachable(i)
  PROVE  Inv'
<1> DEFINE gone == TwinsInBlock(i)
<1>1. i \in live /\ stats \in [Counter -> Nat] /\ Shape
  BY AtLive DEF CrashOnUnreachable, Examine, Inv
<1>2. Sound(gone, i) /\ Erasable(gone)
  BY <1>1, TwinsSound DEF CrashOnUnreachable
<1>3. i \notin gone
  BY LaterFacts DEF TwinsInBlock
<1>4. cur' \in live' \cup {N + 1}
  BY <1>1, <1>3 DEF CrashOnUnreachable, Examine, At, Erase
<1>5. stats' \in [Counter -> Nat] /\ Total' = Total + Cardinality(gone)
  BY <1>1, <1>2, BatchCount, CountTotal DEF CrashOnUnreachable, Counter
<1> QED BY <1>2, <1>4, <1>5, BatchInv DEF CrashOnUnreachable

LEMMA InvEraseLoads ==
  ASSUME Inv, NEW i \in Id, EraseLoads(i)
  PROVE  Inv'
<1>1. i \in live /\ stats \in [Counter -> Nat] /\ Shape
  BY AtLive DEF EraseLoads, Examine, Inv
<1>2. PICK gone \in LoadsErased(i) :
        Erase(gone, i) /\ Count("LdElim", Cardinality(gone))
  BY DEF EraseLoads
<1>3. Sound(gone, i) /\ Erasable(gone)
  BY <1>1, LoadsSound DEF EraseLoads
<1>4. cur' \in live' \cup {N + 1}
  BY <1>2, AdvanceOverLeft DEF EraseLoads, Examine, Erase
<1>5. stats' \in [Counter -> Nat] /\ Total' = Total + Cardinality(gone)
  BY <1>1, <1>2, <1>3, BatchCount, CountTotal DEF Counter
<1> QED BY <1>2, <1>3, <1>4, <1>5, AtLive, BatchInv DEF EraseLoads, Examine

LEMMA InvEraseAroundStore ==
  ASSUME Inv, NEW i \in Id, EraseAroundStore(i)
  PROVE  Inv'
<1> DEFINE killed == IF Overwritten(i) THEN {i} ELSE {}
           gone == Forwarded(i) \cup killed
<1>1. i \in live /\ stats \in [Counter -> Nat] /\ Shape
  BY AtLive DEF EraseAroundStore, Examine, Inv
<1>2. killed \in SUBSET {i} /\ (killed # {} => Overwritten(i))
  OBVIOUS
<1>3. Sound(gone, args[i][1]) /\ Erasable(gone) /\ i \notin Forwarded(i)
  <2> HIDE DEF killed
  <2> QED BY <1>1, <1>2, StoreSound DEF EraseAroundStore
<1>4. Erase(gone, args[i][1])
      /\ CountStore(i, Cardinality(Forwarded(i)), Cardinality(killed))
  BY DEF EraseAroundStore
<1>5. cur' \in live' \cup {N + 1}
  BY <1>4, AdvanceOverLeft DEF EraseAroundStore, Examine, Erase
<1>6. /\ Cardinality(Forwarded(i)) \in Nat /\ Cardinality(killed) \in Nat
      /\ Cardinality(gone) = Cardinality(Forwarded(i)) + Cardinality(killed)
  <2>1. gone \in SUBSET live /\ live \in SUBSET Id
    BY <1>1, <1>3 DEF Sound, Shape, TypeOK
  <2>2. /\ Forwarded(i) \in SUBSET gone /\ gone \in SUBSET Id
        /\ killed \in SUBSET gone /\ gone \ Forwarded(i) = killed
    BY <1>3, <2>1
  <2> HIDE DEF gone, killed
  <2>3. /\ Cardinality(gone) \in Nat
        /\ Cardinality(Forwarded(i)) \in Nat
        /\ Cardinality(gone \ Forwarded(i)) = Cardinality(gone) - Cardinality(Forwarded(i))
    BY <2>2, ErasedCount
  <2>4. Cardinality(killed) \in Nat
    BY <2>2, ErasedCount
  <2> QED BY <2>2, <2>3, <2>4
<1>7. stats' \in [Counter -> Nat] /\ Total' = Total + Cardinality(gone)
  <2> HIDE DEF gone, killed
  <2> QED BY <1>1, <1>4, <1>6, CountStoreTotal
<1> QED
  <2> HIDE DEF gone, killed
  <2> QED BY <1>3, <1>4, <1>5, <1>7, AtLive, BatchInv DEF EraseAroundStore, Examine

LEMMA InvPass ==
  ASSUME Inv, NEW i \in Id, Pass(i)
  PROVE  Inv'
<1>1. cur' \in live \cup {N + 1} /\ cur' \in 1..N+1
  BY AtLive, NextInAdvances DEF Pass, Examine
<1> QED BY <1>1 DEF Pass, Inv, Shape, TypeOK, NoDanglingUse, DefsDominateUses,
                    IteratorValid, StatsBalance, Total, EffectsKept

LEMMA InvStep == Inv /\ [Next]_vars => Inv'
<1> SUFFICES ASSUME Inv, [Next]_vars PROVE Inv'
  OBVIOUS
<1>1. ASSUME NEW i \in Id,
             \/ EraseDead(i) \/ Simplify(i) \/ EraseTwins(i)
             \/ CrashOnUnreachable(i) \/ EraseLoads(i) \/ EraseAroundStore(i)
             \/ Pass(i)
      PROVE  Inv'
  BY <1>1, InvEraseDead, InvSimplify, InvEraseTwins, InvCrash, InvEraseLoads,
     InvEraseAroundStore, InvPass
<1>2. CASE Finish \/ UNCHANGED vars
  BY <1>2 DEF Finish, vars, Inv, Shape, TypeOK, NoDanglingUse, DefsDominateUses,
              IteratorValid, StatsBalance, Total, EffectsKept
<1> QED BY <1>1, <1>2 DEF Next, Stopped

LEMMA InvHolds == Spec => []Inv
BY InvInit, InvStep, PTL DEF Spec

-----------------------------------------------------------------------------

\* The variables keep their types.
THEOREM CSETypeOK == Spec => []TypeOK
<1>1. Inv => TypeOK
  BY DEF Inv, Shape
<1> QED BY InvHolds, <1>1, PTL

\* No live instruction is left with an erased operand.
THEOREM CSENoDanglingUse == Spec => []NoDanglingUse
<1>1. Inv => NoDanglingUse
  BY DEF Inv, Shape
<1> QED BY InvHolds, <1>1, PTL

\* Definitions go on dominating their uses, the pass across blocks included.
THEOREM CSEDefsDominateUses == Spec => []DefsDominateUses
<1>1. Inv => DefsDominateUses
  BY DEF Inv, Shape
<1> QED BY InvHolds, <1>1, PTL

\* instIter never points at an erased instruction.
THEOREM CSEIteratorValid == Spec => []IteratorValid
<1>1. Inv => IteratorValid
  BY DEF Inv
<1> QED BY InvHolds, <1>1, PTL

\* The six counters add up to what was erased.
THEOREM CSEStatsBalance == Spec => []StatsBalance
<1>1. Inv => StatsBalance
  BY DEF Inv
<1> QED BY InvHolds, <1>1, PTL

\* Volatile accesses, calls, allocations and terminators are never erased.
THEOREM CSEEffectsKept == Spec => []EffectsKept
<1>1. Inv => EffectsKept
  BY DEF Inv
<1> QED BY InvHolds, <1>1, PTL

-----------------------------------------------------------------------------

\* Turns that are left at most: one for each instruction from the iterator on
\* and one that ends the pass.
TurnsLeft == IF status = "running" THEN N + 2 - cur ELSE 0

\* The iterator only goes forward, and one turn is the last.
LEMMA TurnLowers == Inv /\ [Next]_vars => [TurnsLeft' < TurnsLeft]_vars
<1> SUFFICES ASSUME Inv, [Next]_vars PROVE [TurnsLeft' < TurnsLeft]_vars
  OBVIOUS
<1>1. cur \in 1..N+1
  BY DEF Inv, Shape, TypeOK
<1>2. ASSUME NEW i \in Id, At(i), NEW L \in SUBSET Id,
             cur' = NextIn(L, i), status' = status
      PROVE  TurnsLeft' < TurnsLeft
  <2>1. i \in 0..N /\ cur = i /\ status = "running"
    BY <1>2, IdIsInt DEF At
  <2>2. cur < cur' /\ cur' \in 1..N+1
    BY <1>2, <2>1, NextInAdvances
  <2> QED BY <1>1, <1>2, <2>1, <2>2, SizeAssumption DEF TurnsLeft
<1>3. ASSUME NEW i \in Id, EraseDead(i) \/ Simplify(i) \/ Pass(i)
      PROVE  TurnsLeft' < TurnsLeft
  <2>1. At(i) /\ cur' = NextIn(live, i) /\ status' = status
    BY <1>3 DEF EraseDead, Simplify, Pass, Examine
  <2>2. live \in SUBSET Id
    BY DEF Inv, Shape, TypeOK
  <2> QED BY <1>2, <2>1, <2>2
<1>4. ASSUME NEW i \in Id, EraseTwins(i) \/ EraseLoads(i) \/ EraseAroundStore(i)
      PROVE  TurnsLeft' < TurnsLeft
  <2>1. At(i) /\ cur' = NextIn(live', i) /\ status' = status
    BY <1>4 DEF EraseTwins, EraseLoads, EraseAroundStore, Examine
  <2>2. live' \subseteq live
    BY <1>4 DEF EraseTwins, EraseLoads, EraseAroundStore, Erase
  <2>3. live' \in SUBSET Id
    BY <2>2 DEF Inv, Shape, TypeOK
  <2> QED BY <1>2, <2>1, <2>3
<1>5. ASSUME Finish \/ \E i \in Id : CrashOnUnreachable(i)
      PROVE  TurnsLeft' < TurnsLeft
  <2>1. status = "running" /\ status' # "running"
    BY <1>5 DEF Finish, CrashOnUnreachable, Examine, At
  <2> QED BY <1>1, <2>1, SizeAssumption DEF TurnsLeft
<1> QED BY <1>3, <1>4, <1>5 DEF Next, Stopped

\* However much a turn erases in front of the iterator and behind it, the
\* sweep never stands still or goes back: a function of N instructions takes
\* it N + 1 turns at most, the one that ends the pass included.
THEOREM CSEFewTurns ==
  Spec => [](TurnsLeft \in 0..N + 1) /\ [][TurnsLeft' < TurnsLeft]_vars
<1>1. Inv => TurnsLeft \in 0..N + 1
  BY SizeAssumption DEF Inv, Shape, TypeOK, TurnsLeft
<1> QED BY InvHolds, TurnLowers, <1>1, PTL DEF Spec

-----------------------------------------------------------------------------
(* The pass changes nothing an observer can see, if only loads, stores and *)
(* well-behaved calls touch memory.                                        *)

IsQuietRun(env, path) ==
  /\ prog \in Programs
  /\ env \in Env /\ PlainMemory(prog, env)
  /\ path \in Path[prog.graph]

\* What the function does before a turn, and what it would do without the
\* instructions of gone.
Done(env, path) == Run(prog, Left, env, path)
Without(L, M, env, path) == Run(prog, Unmoved(prog, L, M), env, path)

LEMMA LeftRuns ==
  ASSUME Shape, NEW env, NEW path, IsQuietRun(env, path)
  PROVE  /\ IsScene(prog, env, path)
         /\ Left = Unmoved(prog, live, args)
         /\ IsRun(prog, Left, env, path) /\ InPlace(prog, Left)
         /\ Left.live = live /\ Left.args = args
         /\ UsesWellPlaced(prog, Left.args)
         /\ live \in SUBSET Id /\ args \in [Id -> [Slot -> Value]]
         /\ IsProgram(prog) /\ IsEnv(env)
<1>1. /\ live \in SUBSET Id /\ args \in [Id -> [Slot -> Value]]
      /\ IsProgram(prog) /\ IsEnv(env)
  BY EnvAssumption DEF Shape, TypeOK, IsQuietRun
<1>2. IsScene(prog, env, path)
  BY <1>1 DEF IsScene, IsQuietRun
<1>3. Left = Unmoved(prog, live, args) /\ Left.live = live /\ Left.args = args
  BY DEF Left, Unmoved, Body
<1>4. IsRun(prog, Left, env, path) /\ InPlace(prog, Left)
  BY <1>1, <1>2, <1>3, UnmovedRuns
<1> QED BY <1>1, <1>2, <1>3, <1>4 DEF Shape, DefsDominateUses

\* Whoever uses r may use v instead, in this run.
Fits(gone, v, env, path) ==
  \A r \in gone : HasUse(args, r) => HasValue(prog, Left, env, path, r, v)

\* What a fitting batch leaves does the same.
LEMMA FittingBatch ==
  ASSUME Shape, NEW env, NEW path, IsQuietRun(env, path), NEW gone, NEW v,
         Sound(gone, v), Fits(gone, v, env, path),
         \A r \in gone : prog.kind[r] \in Silent
  PROVE  Agree(live \ gone, Done(env, path),
               Without(live \ gone, Rewritten(args, gone, v), env, path))
<1>1. gone \in SUBSET live /\ v \in Value /\ UsesAlive(live, args) /\ UsesWellPlaced(prog, args)
  BY DEF Sound, Shape, NoDanglingUse, DefsDominateUses
<1>2. /\ IsScene(prog, env, path) /\ Left = Unmoved(prog, live, args) /\ Left.args = args
      /\ live \in SUBSET Id /\ args \in [Id -> [Slot -> Value]]
  BY LeftRuns
<1>3. Rewritten(args, gone, v) \in [Id -> [Slot -> Value]]
  BY <1>1, <1>2, RewrittenWellFormed DEF Shape, TypeOK, NoDanglingUse, Sound
<1>4. Equal(prog, Unmoved(prog, live, args), env, path, gone, v, live \ gone)
  <2> SUFFICES ASSUME NEW r \in gone, HasUse(args, r)
               PROVE  /\ v \in Id => v \in live \ gone
                      /\ HasValue(prog, Left, env, path, r, v)
    BY <1>2 DEF Equal
  <2>1. v \in Id => v \in live \ gone
    BY LeafAssumption DEF Sound, StandsFor
  <2> QED BY <2>1 DEF Fits
<1>5. Agree(live \ gone, Run(prog, Unmoved(prog, live, args), env, path),
            Run(prog, Unmoved(prog, live \ gone, Rewritten(args, gone, v)), env, path))
  BY <1>1, <1>2, <1>3, <1>4, Replaced
<1> QED BY <1>2, <1>5 DEF Done, Without

LEMMA DeadFits ==
  ASSUME NEW env, NEW path, NEW i, ~HasUse(args, i)
  PROVE  Fits({i}, Nil, env, path)
BY DEF Fits

\* x - x is 0, x - 0 and a gep by 0 are x, and so is a phi of x and x.
LEMMA SimplifyFits ==
  ASSUME Shape, NEW env, NEW path, IsQuietRun(env, path),
         NEW i \in live, NEW v \in Simplifications(i)
  PROVE  Fits({i}, v, env, path)
<1> DEFINE x == args[i][1]
           y == args[i][2]
           Z(k, n) == PointAt(prog, Left, env, path, k, n)
<1>1. /\ IsRun(prog, Left, env, path) /\ InPlace(prog, Left)
      /\ Left.live = live /\ Left.args = args /\ UsesWellPlaced(prog, Left.args)
      /\ live \in SUBSET Id /\ IsEnv(env) /\ i \in Id
      /\ Zero \notin Id /\ args \in [Id -> [Slot -> Value]]
  BY LeftRuns, LeafAssumption
<1>2. HasValue(prog, Left, env, path, i, v)
  <2>1. CASE prog.kind[i] = "phi"
    <3>1. x = y /\ v = x
      BY <2>1 DEF Simplifications
    <3>2. v \in Id => Before(prog, v, i) /\ prog.blk[v] # prog.blk[i]
      BY <2>1, LeafAssumption DEF Simplifications, SameBlock
    <3>3. TakesValue(prog, Left, env, path, i, v)
      <4> SUFFICES ASSUME NEW k \in 1..Len(path), path[k] = prog.blk[i]
                   PROVE  Z(k, 0).val[i] = ValueOf(Z(k, 0), env, v)
        BY <2>1 DEF TakesValue, Ran
      <4> DEFINE m == Came(prog, Left, env, path, k)
                 s == Incoming(prog, i, path[k - 1])
      <4>1. /\ s \in Slot
            /\ Z(k, 0).val[i] = ValueOf(m, env, args[i][s])
            /\ \A z \in Id : prog.blk[z] # path[k] => Z(k, 0).val[z] = m.val[z]
        BY <1>1, <2>1, PhiRuns
      <4>2. args[i][s] = v
        BY <3>1, <4>1 DEF Slot
      <4> HIDE DEF m, s, Z
      <4> QED BY <3>2, <4>1, <4>2 DEF ValueOf
    <3> QED BY <1>1, <3>2, <3>3, LastingPair DEF SettledBy
  <2>2. CASE prog.kind[i] # "phi"
    <3>1. prog.kind[i] \in {"sub", "gep"}
      BY <2>2 DEF Simplifications
    <3>2. \A k \in 1..Len(path), n \in 0..N : Available(prog, i, path[k], n) =>
            \/ Z(k, n).trap
            \/ Z(k, n).val[i] = Compute[prog.kind[i]][ValueOf(Z(k, n), env, x)]
                                                     [ValueOf(Z(k, n), env, y)]
      BY <1>1, <3>1, LastingCompute
    <3>3. ASSUME NEW k \in 1..Len(path), NEW n \in 0..N, Available(prog, i, path[k], n),
                 ~Z(k, n).trap
          PROVE  Z(k, n).val[i] = ValueOf(Z(k, n), env, v)
      <4> DEFINE X == ValueOf(Z(k, n), env, x)
                 Y == ValueOf(Z(k, n), env, y)
      <4>1. Z(k, n) \in Machines /\ x \in Value /\ y \in Value
        BY <1>1, RunType DEF Slot
      <4>2. X \in Word /\ Y \in Word
        BY <1>1, <4>1, ValueType
      <4>3. ValueOf(Z(k, n), env, Zero) = 0
        BY <1>1 DEF ValueOf, IsEnv
      <4>4. Z(k, n).val[i] = Compute[prog.kind[i]][X][Y]
        BY <3>2, <3>3
      <4>5. CASE prog.kind[i] = "sub" /\ x = y /\ v = Zero
        <5> HIDE DEF Z
        <5> QED BY <4>2, <4>3, <4>4, <4>5, WordAssumption
      <4>6. CASE y = Zero /\ v = x
        <5> HIDE DEF Z
        <5> QED BY <3>1, <4>2, <4>3, <4>4, <4>6, WordAssumption
      <4> QED BY <3>1, <4>5, <4>6 DEF Simplifications
    <3> QED BY <3>3 DEF HasValue
  <2> QED BY <2>1, <2>2
<1> QED BY <1>2 DEF Fits

\* An instruction has the value of one that is identical and comes before it.
LEMMA TwinFits ==
  ASSUME Shape, NEW env, NEW path, IsQuietRun(env, path),
         NEW i \in live, NEW r \in live, CSEable(i), Identical(i, r), Before(prog, i, r)
  PROVE  HasValue(prog, Left, env, path, r, i)
<1> DEFINE x == args[i][1]
           y == args[i][2]
           Z(k, n) == PointAt(prog, Left, env, path, k, n)
<1>1. /\ IsRun(prog, Left, env, path) /\ InPlace(prog, Left)
      /\ Left.live = live /\ Left.args = args /\ UsesWellPlaced(prog, Left.args)
      /\ live \in SUBSET Id /\ IsEnv(env) /\ i \in Id /\ r \in Id /\ IsProgram(prog)
  BY LeftRuns
<1>2. prog.kind[r] = prog.kind[i] /\ args[r] = args[i]
  BY DEF Identical
<1>3. CASE prog.kind[i] = "phi"
  <2>1. prog.blk[i] = prog.blk[r] /\ prog.from[i] = prog.from[r]
    BY <1>3 DEF Identical, SameBlock
  <2>2. TakesValue(prog, Left, env, path, r, i)
    <3> SUFFICES ASSUME NEW k \in 1..Len(path), path[k] = prog.blk[r]
                 PROVE  Z(k, 0).val[r] = Z(k, 0).val[i]
      BY <1>1, <1>2, <1>3 DEF TakesValue, Ran, ValueOf
    <3> DEFINE m == Came(prog, Left, env, path, k)
    <3>1. Z(k, 0).val[i] = ValueOf(m, env, args[i][Incoming(prog, i, path[k - 1])])
      BY <1>1, <1>3, <2>1, PhiRuns
    <3>2. Z(k, 0).val[r] = ValueOf(m, env, args[r][Incoming(prog, r, path[k - 1])])
      BY <1>1, <1>2, <1>3, PhiRuns
    <3>3. Incoming(prog, i, path[k - 1]) = Incoming(prog, r, path[k - 1])
      BY <2>1 DEF Incoming
    <3> QED BY <1>2, <3>1, <3>2, <3>3
  <2> QED BY <1>1, <1>2, <1>3, <2>2, LastingPair DEF SettledBy
<1>4. CASE prog.kind[i] # "phi"
  <2>1. prog.kind[i] \in {"sub", "div", "gep"}
    BY <1>1, <1>4 DEF CSEable, IsQuietRun, PlainMemory
  <2>2. ASSUME NEW q \in {i, r}, NEW k \in 1..Len(path), NEW n \in 0..N,
               Available(prog, q, path[k], n), ~Z(k, n).trap
        PROVE  Z(k, n).val[q] = Compute[prog.kind[i]][ValueOf(Z(k, n), env, x)]
                                                     [ValueOf(Z(k, n), env, y)]
    <3>1. q \in live /\ prog.kind[q] = prog.kind[i] /\ args[q] = args[i]
      BY <1>2
    <3> QED BY <1>1, <2>1, <2>2, <3>1, LastingCompute
  <2>3. ASSUME NEW k \in 1..Len(path), NEW n \in 0..N,
               Available(prog, r, path[k], n), ~Z(k, n).trap
        PROVE  Z(k, n).val[r] = ValueOf(Z(k, n), env, i)
    <3>1. path[k] \in Block
      BY <1>1, RunFacts
    <3>2. Available(prog, i, path[k], n)
      BY <1>1, <1>2, <1>4, <2>3, <3>1, AvailableBefore
    <3>3. /\ Z(k, n).val[i] = Compute[prog.kind[i]][ValueOf(Z(k, n), env, x)]
                                                   [ValueOf(Z(k, n), env, y)]
          /\ Z(k, n).val[r] = Compute[prog.kind[i]][ValueOf(Z(k, n), env, x)]
                                                   [ValueOf(Z(k, n), env, y)]
      BY <2>2, <2>3, <3>2
    <3> QED BY <1>1, <3>3 DEF ValueOf
  <2> QED BY <2>3 DEF HasValue
<1> QED BY <1>3, <1>4

LEMMA TwinsFit ==
  ASSUME Shape, NEW env, NEW path, IsQuietRun(env, path),
         NEW i \in live, CSEable(i)
  PROVE  /\ Fits(Twins(i), i, env, path)
         /\ Fits(TwinsInBlock(i), i, env, path)
         /\ \A r \in Twins(i) \cup TwinsInBlock(i) : prog.kind[r] \in Silent
<1>1. ASSUME NEW r \in Twins(i) \cup TwinsInBlock(i)
      PROVE  /\ HasValue(prog, Left, env, path, r, i)
             /\ prog.kind[r] \in Silent
  <2>1. r \in live /\ r \in Id /\ i \in Id /\ Identical(i, r)
        /\ (SameBlockLater(i, r) \/ InChildBlock(i, r))
    BY DEF Twins, TwinsInBlock, Shape, TypeOK
  <2>2. Before(prog, i, r)
    BY <2>1, KidsFacts, LaterFacts
  <2>3. prog.kind[r] \in {"sub", "div", "gep", "phi"}
    BY <2>1 DEF Identical, CSEable, IsQuietRun, PlainMemory
  <2> QED BY <2>1, <2>2, <2>3, TwinFits DEF Silent, Kind, Stores, Observed
<1> QED BY <1>1 DEF Fits

\* Nothing between two instructions of a block writes to memory, if neither
\* a store nor an atomic does and calls do not write.
LEMMA QuietBetween ==
  ASSUME Shape, NEW env, NEW path, IsQuietRun(env, path), NEW i \in live, NEW r \in live,
         \A n \in live : SameBlock(i, n) /\ i < n /\ n < r => prog.kind[n] \notin Stores
  PROVE  IsQuiet(prog, Left, env, prog.blk[i], i, r)
BY LeftRuns DEF IsQuiet, SameBlock, IsQuietRun, PlainMemory

LEMMA LoadsFit ==
  ASSUME Shape, NEW env, NEW path, IsQuietRun(env, path),
         NEW i \in live, prog.kind[i] \in Loads, NEW gone \in LoadsErased(i)
  PROVE  Fits(gone, i, env, path) /\ \A r \in gone : prog.kind[r] \in Silent
<1>1. ASSUME NEW r \in gone
      PROVE  HasValue(prog, Left, env, path, r, i) /\ prog.kind[r] \in Silent
  <2>1. r \in SameLoads(i)
    BY DEF LoadsErased
  <2>2. /\ r \in live /\ r \in Id /\ i \in Id /\ SameBlockLater(i, r)
        /\ prog.kind[r] = "load" /\ args[r] = args[i]
        /\ \A n \in live : i < n /\ n < r => prog.kind[n] \notin Stores
    BY <2>1 DEF SameLoads, Shape, TypeOK
  <2>3. Before(prog, i, r) /\ prog.blk[i] = prog.blk[r] /\ i < r
    BY <2>2, LaterFacts DEF SameBlockLater, SameBlock
  <2>4. IsQuiet(prog, Left, env, prog.blk[r], i, r)
    BY <2>2, <2>3, QuietBetween
  <2>5. TakesValue(prog, Left, env, path, r, i)
    BY <2>2, <2>3, <2>4, LeftRuns, LoadAgain DEF Loads
  <2>6. HasValue(prog, Left, env, path, r, i)
    BY <2>2, <2>3, <2>5, LeftRuns, LastingPair DEF SettledBy
  <2> QED BY <2>2, <2>6 DEF Silent, Kind, Stores, Observed
<1> QED BY <1>1 DEF Fits

LEMMA ForwardedFit ==
  ASSUME Shape, NEW env, NEW path, IsQuietRun(env, path),
         NEW i \in live, prog.kind[i] \in Stores
  PROVE  /\ Fits(Forwarded(i), args[i][1], env, path)
         /\ \A r \in Forwarded(i) : prog.kind[r] \in Silent
<1> DEFINE v == args[i][1]
<1>1. ASSUME NEW r \in Forwarded(i)
      PROVE  HasValue(prog, Left, env, path, r, v) /\ prog.kind[r] \in Silent
  <2>1. /\ r \in live /\ r \in Id /\ i \in Id /\ SameBlockLater(i, r)
        /\ prog.kind[r] = "load" /\ args[r][1] = args[i][2]
        /\ \A n \in StoreStops(i) : r < n
    BY DEF Forwarded, Forwardable, Shape, TypeOK
  <2>2. Before(prog, i, r) /\ prog.blk[i] = prog.blk[r] /\ i < r
    BY <2>1, LaterFacts DEF SameBlockLater, SameBlock
  <2>3. ASSUME NEW n \in live, SameBlock(i, n), i < n, n < r
        PROVE  prog.kind[n] \notin Stores
    <3> SUFFICES ASSUME prog.kind[n] \in Stores PROVE FALSE
      OBVIOUS
    <3>1. n \in StoreStops(i)
      BY <2>3 DEF StoreStops, SameBlockLater, Forwardable, Stores
    <3>2. n \in Int /\ r \in Int
      BY <2>1, IdIsInt DEF Shape, TypeOK
    <3> QED BY <2>1, <2>3, <3>1, <3>2
  <2>4. IsQuiet(prog, Left, env, prog.blk[r], i, r)
    BY <2>1, <2>2, <2>3, QuietBetween
  <2>5. TakesValue(prog, Left, env, path, r, v)
    BY <2>1, <2>2, <2>4, LeftRuns, LoadStored DEF Loads
  <2>6. v \in Id => SettledBy(prog, v, r)
    <3> SUFFICES ASSUME v \in Id PROVE SettledBy(prog, v, r)
      OBVIOUS
    <3>1. MayUse(prog, v, i, 1)
      BY <2>1 DEF Slot, Shape, DefsDominateUses, UsesWellPlaced
    <3>2. Before(prog, v, i)
      BY <3>1 DEF MayUse, Stores
    <3>3. Before(prog, v, r)
      BY <2>1, <2>2, <3>2, BeforeTransitive DEF Shape, TypeOK
    <3> QED BY <2>1, <3>3 DEF SettledBy
  <2>7. HasValue(prog, Left, env, path, r, v)
    <3> HIDE DEF v
    <3> QED BY <2>1, <2>5, <2>6, LeftRuns, LastingPair
  <2> QED BY <2>1, <2>7 DEF Silent, Kind, Stores, Observed
<1> QED BY <1>1 DEF Fits

-----------------------------------------------------------------------------
(* Turn by turn.                                                           *)

LEMMA AgreeTransitive ==
  ASSUME NEW a, NEW b, NEW c, Agree({}, a, b), Agree({}, b, c)
  PROVE  Agree({}, a, c)
BY DEF Agree

\* Done after a turn is what Without says of the turn's batch.
LEMMA DoneNext ==
  ASSUME NEW env, NEW path, NEW L, NEW M, prog' = prog, live' = L, args' = M
  PROVE  Done(env, path)' = Without(L, M, env, path)
<1>1. Left' = Unmoved(prog, L, M)
  BY DEF Left, Unmoved, Body
<1> QED BY <1>1 DEF Done, Without

\* A turn that erases a fitting batch.
LEMMA BatchAgrees ==
  ASSUME Shape, NEW env, NEW path, IsQuietRun(env, path), NEW gone, NEW v,
         Sound(gone, v), Fits(gone, v, env, path),
         \A r \in gone : prog.kind[r] \in Silent,
         Erase(gone, v), prog' = prog
  PROVE  Agree({}, Done(env, path), Done(env, path)')
<1>1. Agree(live \ gone, Done(env, path),
            Without(live \ gone, Rewritten(args, gone, v), env, path))
  BY FittingBatch
<1>2. Done(env, path)' = Without(live \ gone, Rewritten(args, gone, v), env, path)
  BY DoneNext DEF Erase
<1> QED BY <1>1, <1>2 DEF Agree

\* What lies between a store that goes and the one that overwrites it.
LEMMA OverwrittenFacts ==
  ASSUME Shape, NEW env, NEW path, IsQuietRun(env, path),
         NEW i \in live, Overwritten(i)
  PROVE  \E j \in live \ Forwarded(i) :
           /\ prog.blk[i] = prog.blk[j] /\ i < j
           /\ prog.kind[j] \in Stores /\ args[j][2] = args[i][2]
           /\ \A n \in live \ Forwarded(i) :
                prog.blk[n] = prog.blk[i] /\ i < n /\ n < j =>
                  prog.kind[n] \notin Stores \cup Reads \cup {"call"}
<1>1. PICK j \in StoreStops(i) : /\ \A k \in StoreStops(i) : j <= k
                                 /\ prog.kind[j] \in Stores
                                 /\ args[j][2] = args[i][2]
  BY DEF Overwritten
<1>2. j \in live /\ prog.blk[i] = prog.blk[j] /\ i < j
  BY DEF StoreStops, SameBlockLater, SameBlock
<1>3. j \notin Forwarded(i)
  BY <1>1 DEF Forwarded, Forwardable, Stores
<1>4. live \subseteq Int
  BY IdIsInt DEF Shape, TypeOK
<1>5. ASSUME NEW n \in live \ Forwarded(i), prog.blk[n] = prog.blk[i], i < n, n < j,
             prog.kind[n] \in Stores \cup Reads \cup {"call"}
      PROVE  FALSE
  <2>1. SameBlockLater(i, n)
    BY <1>5 DEF SameBlockLater, SameBlock
  <2>2. prog.kind[n] \in Loads \cup Stores \cup {"call"}
    BY <1>5 DEF IsQuietRun, PlainMemory, Reads, Shape, TypeOK
  <2>3. CASE Forwardable(i, n)
    <3>1. \A k \in StoreStops(i) : n < k
      <4> SUFFICES ASSUME NEW k \in StoreStops(i) PROVE n < k
        OBVIOUS
      <4>1. j <= k /\ k \in live
        BY <1>1 DEF StoreStops
      <4> QED BY <1>2, <1>4, <1>5, <4>1
    <3> QED BY <1>5, <2>1, <2>3, <3>1 DEF Forwarded
  <2>4. CASE ~Forwardable(i, n)
    <3>1. n \in StoreStops(i)
      BY <2>1, <2>2, <2>4 DEF StoreStops
    <3> QED BY <1>1, <1>2, <1>4, <1>5, <3>1
  <2> QED BY <2>3, <2>4
<1> QED BY <1>1, <1>2, <1>3, <1>5

\* First the loads that the store answers are gone, then the store itself.
LEMMA StoreAgrees ==
  ASSUME Shape, NEW env, NEW path, IsQuietRun(env, path),
         NEW i \in live, EraseAroundStore(i)
  PROVE  Agree({}, Done(env, path), Done(env, path)')
<1> DEFINE v == args[i][1]
           F == Forwarded(i)
           L == live \ F
           M == Rewritten(args, F, v)
           R == Rewritten(args, F \cup {i}, v)
<1>1. /\ prog.kind[i] \in Stores /\ prog' = prog /\ i \in Id
      /\ live' = live \ (F \cup IF Overwritten(i) THEN {i} ELSE {})
      /\ args' = Rewritten(args, F \cup IF Overwritten(i) THEN {i} ELSE {}, v)
  BY DEF EraseAroundStore, Erase, Shape, TypeOK
<1>2. Sound(F, v) /\ i \notin F
  <2>1. Sound(F \cup {}, v) /\ i \notin F
    BY <1>1, StoreSound
  <2> QED BY <2>1
<1>3. Agree(L, Done(env, path), Without(L, M, env, path))
  BY <1>1, <1>2, ForwardedFit, FittingBatch
<1>4. CASE ~Overwritten(i)
  <2>1. live' = L /\ args' = M
    BY <1>1, <1>4
  <2> HIDE DEF L, M
  <2>2. Done(env, path)' = Without(L, M, env, path)
    BY <1>1, <2>1, DoneNext
  <2> QED BY <1>3, <2>2 DEF Agree
<1>5. CASE Overwritten(i)
  <2>1. live' = live \ (F \cup {i}) /\ args' = R
    BY <1>1, <1>5
  <2>2. PICK j \in live \ Forwarded(i) :
          /\ prog.blk[i] = prog.blk[j] /\ i < j
          /\ prog.kind[j] \in Stores /\ args[j][2] = args[i][2]
          /\ \A n \in live \ Forwarded(i) :
               prog.blk[n] = prog.blk[i] /\ i < n /\ n < j =>
                 prog.kind[n] \notin Stores \cup Reads \cup {"call"}
    BY <1>5, OverwrittenFacts
  <2>3. Sound(F \cup {i}, v)
    BY <1>1, <1>5, StoreSound
  <2>4. F \in SUBSET live /\ F \cup {i} \in SUBSET live /\ live \in SUBSET Id /\ v \in Value
    BY <1>2, <2>3 DEF Sound, Shape, TypeOK
  <2>5. /\ M \in [Id -> [Slot -> Value]] /\ R \in [Id -> [Slot -> Value]]
        /\ UsesAlive(L, M) /\ UsesWellPlaced(prog, M)
    BY <1>2, <2>3, <2>4, RewrittenWellFormed
      DEF Shape, TypeOK, NoDanglingUse, DefsDominateUses, Sound
  <2>6. ~HasUse(args, i)
    BY <1>1, VoidUnused DEF Stores, Void
  <2>7. \A n \in Id \ {i} : R[n] = M[n]
    BY <2>6 DEF Rewritten, HasUse
  <2>8. M[i][2] = M[j][2]
    BY <1>1, <1>2, <2>2 DEF Rewritten, Slot, Shape, TypeOK
  <2>9. prog.kind[i] = "store"
    BY <1>5 DEF Overwritten
  <2>10. IsScene(prog, env, path)
    BY LeftRuns
  <2>11. i \in L /\ j \in L /\ L \in SUBSET Id
    BY <1>2, <2>2, <2>4
  <2>12. \A n \in L : prog.blk[n] = prog.blk[i] /\ i < n /\ n < j =>
                        prog.kind[n] \notin Stores \cup Reads \cup {"call"}
    BY <2>2
  <2> HIDE DEF L, M, R, F, v
  <2>13. Agree(L \ {i}, Run(prog, Unmoved(prog, L, M), env, path),
                        Run(prog, Unmoved(prog, L \ {i}, R), env, path))
    BY <2>2, <2>5, <2>7, <2>8, <2>9, <2>10, <2>11, <2>12, StoreKilled
  <2>14. live' = L \ {i}
    BY <2>1 DEF L
  <2>15. Done(env, path)' = Without(L \ {i}, R, env, path)
    BY <1>1, <2>1, <2>14, DoneNext
  <2> QED BY <1>3, <2>13, <2>15 DEF Agree, Without
<1> QED BY <1>4, <1>5

\* No turn changes what the function does.
LEMMA TurnAgrees ==
  ASSUME Inv, NEW env, NEW path, IsQuietRun(env, path), [Next]_vars
  PROVE  Agree({}, Done(env, path), Done(env, path)')
<1>0. Shape
  BY DEF Inv
<1>1. ASSUME NEW i \in Id, At(i)
      PROVE  i \in live
  BY <1>1, AtLive
<1>2. ASSUME NEW i \in Id, EraseDead(i)
      PROVE  Agree({}, Done(env, path), Done(env, path)')
  <2>1. i \in live /\ Dead(i) /\ Erase({i}, Nil) /\ prog' = prog
    BY <1>1, <1>2 DEF EraseDead
  <2>2. Sound({i}, Nil) /\ \A r \in {i} : prog.kind[r] \in Silent
    BY <1>0, <2>1, DeadSound DEF Dead, DeadKinds, Silent, Kind, Stores, Observed
  <2> QED BY <1>0, <2>1, <2>2, DeadFits, BatchAgrees DEF Dead
<1>3. ASSUME NEW i \in Id, Simplify(i)
      PROVE  Agree({}, Done(env, path), Done(env, path)')
  <2>1. i \in live /\ prog' = prog
    BY <1>1, <1>3 DEF Simplify
  <2>2. PICK v \in Simplifications(i) : Erase({i}, v)
    BY <1>3 DEF Simplify
  <2>3. Sound({i}, v)
    BY <1>0, <2>1, SimplifySound
  <2>4. \A r \in {i} : prog.kind[r] \in Silent
    BY DEF Simplifications, Silent, Kind, Stores, Observed
  <2> QED BY <1>0, <2>1, <2>2, <2>3, <2>4, SimplifyFits, BatchAgrees
<1>4. ASSUME NEW i \in Id, EraseTwins(i) \/ CrashOnUnreachable(i)
      PROVE  Agree({}, Done(env, path), Done(env, path)')
  <2>1. /\ i \in live /\ prog' = prog /\ CSEable(i)
        /\ Erase(Twins(i), i) \/ Erase(TwinsInBlock(i), i)
    BY <1>1, <1>4 DEF EraseTwins, CrashOnUnreachable, Examine
  <2>2. Sound(Twins(i), i) /\ Sound(TwinsInBlock(i), i)
    BY <1>0, <2>1, TwinsSound
  <2>3. /\ Fits(Twins(i), i, env, path)
        /\ Fits(TwinsInBlock(i), i, env, path)
        /\ \A r \in Twins(i) : prog.kind[r] \in Silent
        /\ \A r \in TwinsInBlock(i) : prog.kind[r] \in Silent
    BY <1>0, <2>1, TwinsFit
  <2>4. CASE Erase(Twins(i), i)
    BY <1>0, <2>1, <2>2, <2>3, <2>4, BatchAgrees
  <2>5. CASE Erase(TwinsInBlock(i), i)
    BY <1>0, <2>1, <2>2, <2>3, <2>5, BatchAgrees
  <2> QED BY <2>1, <2>4, <2>5
<1>5. ASSUME NEW i \in Id, EraseLoads(i)
      PROVE  Agree({}, Done(env, path), Done(env, path)')
  <2>1. i \in live /\ prog' = prog /\ prog.kind[i] \in Loads
    BY <1>1, <1>5 DEF EraseLoads, Examine
  <2>2. PICK gone \in LoadsErased(i) : Erase(gone, i)
    BY <1>5 DEF EraseLoads
  <2>3. Sound(gone, i)
    BY <1>0, <2>1, LoadsSound
  <2>4. Fits(gone, i, env, path) /\ \A r \in gone : prog.kind[r] \in Silent
    BY <1>0, <2>1, LoadsFit
  <2> QED BY <1>0, <2>1, <2>2, <2>3, <2>4, BatchAgrees
<1>6. ASSUME NEW i \in Id, EraseAroundStore(i)
      PROVE  Agree({}, Done(env, path), Done(env, path)')
  <2>1. i \in live
    BY <1>1, <1>6 DEF EraseAroundStore, Examine
  <2> QED BY <1>0, <1>6, <2>1, StoreAgrees
<1>7. ASSUME UNCHANGED <<prog, live, args>>
      PROVE  Agree({}, Done(env, path), Done(env, path)')
  <2>1. Done(env, path)' = Done(env, path)
    BY <1>7 DEF Done, Left
  <2>2. ~Done(env, path).trap \/ Done(env, path).trap
    OBVIOUS
  <2> QED BY <2>1, <2>2 DEF Agree
<1> QED BY <1>2, <1>3, <1>4, <1>5, <1>6, <1>7 DEF Next, Pass, Finish, Stopped, vars

\* So far the function does what it did.
SoundSoFar ==
  /\ prog \in Programs
  /\ \A env, path : IsQuietRun(env, path) =>
       Agree({}, Run(prog, Parsed(prog), env, path), Done(env, path))

LEMMA SoundInit == Init => SoundSoFar
<1> SUFFICES ASSUME Init PROVE SoundSoFar
  OBVIOUS
<1>1. Left = Parsed(prog)
  BY DEF Init, Left, Parsed
<1> QED BY <1>1 DEF Init, SoundSoFar, Done, Agree

LEMMA SoundStep == Inv /\ SoundSoFar /\ [Next]_vars => SoundSoFar'
<1> SUFFICES ASSUME Inv, SoundSoFar, [Next]_vars PROVE SoundSoFar'
  OBVIOUS
<1>1. prog' = prog
  BY DEF Next, EraseDead, Simplify, EraseTwins, CrashOnUnreachable, EraseLoads,
         EraseAroundStore, Pass, Finish, Stopped, vars
<1>2. ASSUME NEW env, NEW path, IsQuietRun(env, path)
      PROVE  Agree({}, Run(prog, Parsed(prog), env, path), Done(env, path)')
  BY <1>2, TurnAgrees, AgreeTransitive DEF SoundSoFar
<1> QED BY <1>1, <1>2 DEF SoundSoFar, IsQuietRun

\* Without atomics and calls that write memory the function that the pass
\* leaves behaves as the one that was parsed, on every path and in every
\* environment.
THEOREM CSESound == Spec => []SoundOnPlainMemory
<1>1. SoundSoFar => SoundOnPlainMemory
  <2> SUFFICES ASSUME SoundSoFar
               PROVE  SameBehaviour(prog, Left, {env \in Env : PlainMemory(prog, env)})
    BY DEF SoundOnPlainMemory
  <2>1. \A env \in {e \in Env : PlainMemory(prog, e)}, path \in Path[prog.graph] :
          Agree({}, Run(prog, Parsed(prog), env, path), Run(prog, Left, env, path))
    BY DEF SoundSoFar, IsQuietRun, Done
  <2> QED BY <2>1, AgreeBehaviour
<1> QED BY <1>1, InvHolds, SoundInit, InvStep, SoundStep, PTL DEF Spec

-----------------------------------------------------------------------------
(* The refinement.                                                         *)

\* The operators of IR that Rewriter sees are those that CSE sees.
LEMMA SameOperators ==
  /\ Abstract!Id = Id /\ Abstract!Slot = Slot /\ Abstract!Value = Value
  /\ Abstract!NoArgs = NoArgs /\ Abstract!Kind = Kind /\ Abstract!Void = Void
  /\ \A P : Abstract!IsProgram(P) = IsProgram(P)
  /\ \A P, i, j : Abstract!Before(P, i, j) = Before(P, i, j)
  /\ \A P, M : Abstract!UsesWellPlaced(P, M) = UsesWellPlaced(P, M)
  /\ \A M, gone, v : Abstract!Rewritten(M, gone, v) = Rewritten(M, gone, v)
  /\ \A M, r : Abstract!HasUse(M, r) = HasUse(M, r)
  /\ \A P, v, r, L : Abstract!StandsFor(P, v, r, L) = StandsFor(P, v, r, L)
<1>1. /\ Abstract!Id = Id /\ Abstract!Slot = Slot
      /\ Abstract!Kind = Kind /\ Abstract!Void = Void
      /\ Abstract!Passing = Passing /\ Abstract!Loads = Loads
  BY DEF Abstract!Id, Id, Abstract!Slot, Slot, Abstract!Kind, Kind, Abstract!Void,
         Void, Abstract!Passing, Passing, Abstract!Loads, Loads
<1>2. Abstract!Value = Value /\ Abstract!NoArgs = NoArgs
  BY <1>1 DEF Abstract!Value, Value, Abstract!NoArgs, NoArgs
<1>3. \A P : Abstract!IsProgram(P) = IsProgram(P)
  BY <1>1, <1>2 DEF Abstract!IsProgram, IsProgram
<1>4. \A P, i, j : Abstract!Before(P, i, j) = Before(P, i, j)
  BY DEF Abstract!Before, Before
<1>5. \A M, r : Abstract!HasUse(M, r) = HasUse(M, r)
  BY <1>1 DEF Abstract!HasUse, HasUse
<1>6. \A P, r, i, s : Abstract!MayUse(P, r, i, s) = MayUse(P, r, i, s)
  BY <1>1, <1>4 DEF Abstract!MayUse, MayUse
<1>7. \A P, M : Abstract!UsesWellPlaced(P, M) = UsesWellPlaced(P, M)
  BY <1>1, <1>6 DEF Abstract!UsesWellPlaced, UsesWellPlaced
<1>8. \A M, gone, v : Abstract!Rewritten(M, gone, v) = Rewritten(M, gone, v)
  BY <1>1, <1>2 DEF Abstract!Rewritten, Rewritten
<1>9. \A P, v, r, L : Abstract!StandsFor(P, v, r, L) = StandsFor(P, v, r, L)
  BY <1>1, <1>4 DEF Abstract!StandsFor, StandsFor
<1> QED BY <1>1, <1>2, <1>3, <1>4, <1>5, <1>7, <1>8, <1>9

\* A sound batch is a step of the rewriter.
LEMMA BatchRefines ==
  ASSUME Inv, NEW gone, NEW v, Sound(gone, v), Erase(gone, v), prog' = prog
  PROVE  Abstract!Next
<1>1. live' = live \ gone /\ live \ live' = gone
  BY DEF Erase, Sound
<1>2. ASSUME NEW r \in live \ live', Abstract!HasUse(args, r)
      PROVE  Abstract!StandsFor(prog, v, r, live')
  <2>1. HasUse(args, r)
    BY <1>2, SameOperators
  <2>2. StandsFor(prog, v, r, live')
    BY <1>1, <2>1 DEF Sound
  <2> QED BY <2>2, SameOperators
<1>3. args' = Abstract!Rewritten(args, live \ live', v)
  BY <1>1, SameOperators DEF Erase
<1>4. Abstract!Rewrite(v)
  BY <1>1, <1>2, <1>3 DEF Abstract!Rewrite
<1>5. v \in Abstract!Value
  BY SameOperators DEF Sound
<1> QED BY <1>4, <1>5 DEF Abstract!Next

\* Every turn that erases something erases a sound batch.
LEMMA EachBatch ==
  ASSUME Inv, NEW i \in Id,
         \/ EraseDead(i) \/ Simplify(i) \/ EraseTwins(i)
         \/ CrashOnUnreachable(i) \/ EraseLoads(i) \/ EraseAroundStore(i)
  PROVE  prog' = prog /\ \E gone, v : Sound(gone, v) /\ Erase(gone, v)
<1>1. prog' = prog
  BY DEF EraseDead, Simplify, EraseTwins, CrashOnUnreachable, EraseLoads,
         EraseAroundStore
<1>2. i \in live /\ Shape
  BY AtLive DEF EraseDead, Simplify, EraseTwins, CrashOnUnreachable, EraseLoads,
                EraseAroundStore, Examine, Inv
<1>3. CASE EraseDead(i)
  BY <1>1, <1>2, <1>3, DeadSound DEF EraseDead
<1>4. CASE Simplify(i)
  BY <1>1, <1>2, <1>4, SimplifySound DEF Simplify
<1>5. CASE EraseTwins(i)
  BY <1>1, <1>2, <1>5, TwinsSound DEF EraseTwins
<1>6. CASE CrashOnUnreachable(i)
  BY <1>1, <1>2, <1>6, TwinsSound DEF CrashOnUnreachable
<1>7. CASE EraseLoads(i)
  BY <1>1, <1>2, <1>7, LoadsSound DEF EraseLoads
<1>8. CASE EraseAroundStore(i)
  <2> DEFINE killed == IF Overwritten(i) THEN {i} ELSE {}
  <2>1. killed \in SUBSET {i} /\ (killed # {} => Overwritten(i))
    OBVIOUS
  <2>2. Erase(Forwarded(i) \cup killed, args[i][1]) /\ prog.kind[i] \in Stores
    BY <1>8 DEF EraseAroundStore
  <2> HIDE DEF killed
  <2>3. Sound(Forwarded(i) \cup killed, args[i][1])
    BY <1>2, <2>1, <2>2, StoreSound
  <2> QED BY <1>1, <2>2, <2>3
<1> QED BY <1>3, <1>4, <1>5, <1>6, <1>7, <1>8

\* The pass implements the abstract rewriter: whatever it merges, forwards,
\* simplifies or deletes, one value defined earlier takes its place.
THEOREM CSERefinesRewriter == Spec => RefinesRewriter
<1>1. Init => Abstract!Init
  <2> SUFFICES ASSUME Init PROVE Abstract!Init
    OBVIOUS
  <2>1. IsProgram(prog) /\ UsesWellPlaced(prog, prog.args)
    BY ProgramsAssumption DEF Init
  <2> QED BY <2>1, SameOperators DEF Init, Abstract!Init
<1>2. Inv /\ [Next]_vars => [Abstract!Next]_(Abstract!vars)
  <2> SUFFICES ASSUME Inv, [Next]_vars
               PROVE  [Abstract!Next]_(Abstract!vars)
    OBVIOUS
  <2>1. ASSUME NEW i \in Id,
               \/ EraseDead(i) \/ Simplify(i) \/ EraseTwins(i)
               \/ CrashOnUnreachable(i) \/ EraseLoads(i) \/ EraseAroundStore(i)
        PROVE  Abstract!Next
    BY <2>1, EachBatch, BatchRefines
  <2>2. ASSUME NEW i \in Id, Pass(i)
        PROVE  UNCHANGED Abstract!vars
    BY <2>2 DEF Pass, Abstract!vars
  <2>3. CASE Finish \/ UNCHANGED vars
    BY <2>3 DEF Finish, vars, Abstract!vars
  <2> QED BY <2>1, <2>2, <2>3 DEF Next, Stopped
<1> QED BY InvHolds, <1>1, <1>2, PTL DEF Spec, RefinesRewriter, Abstract!Spec

-----------------------------------------------------------------------------
(* Every rewriter leaves a well-formed function.                           *)

RewriterInv ==
  /\ IsProgram(prog) /\ live \in SUBSET Id /\ args \in [Id -> [Slot -> Value]]
  /\ UsesAlive(live, args)
  /\ UsesWellPlaced(prog, args)
  /\ OperandsFilled(prog, live, args)

LEMMA RewriterInvInit == Abstract!Init => RewriterInv
<1> SUFFICES ASSUME Abstract!Init PROVE RewriterInv
  OBVIOUS
<1>1. IsProgram(prog) /\ UsesWellPlaced(prog, prog.args)
  BY SameOperators DEF Abstract!Init
<1>2. live = Id /\ args = prog.args
  BY SameOperators DEF Abstract!Init
<1> QED BY <1>1, <1>2 DEF RewriterInv, IsProgram, UsesAlive, OperandsFilled

LEMMA RewriterInvStep == RewriterInv /\ [Abstract!Next]_(Abstract!vars) => RewriterInv'
<1> SUFFICES ASSUME RewriterInv, [Abstract!Next]_(Abstract!vars) PROVE RewriterInv'
  OBVIOUS
<1>1. ASSUME NEW v \in Value, Abstract!Rewrite(v)
      PROVE  RewriterInv'
  <2> DEFINE gone == live \ live'
  <2>1. prog' = prog /\ live' \subseteq live /\ args' = Rewritten(args, gone, v)
    BY <1>1, SameOperators DEF Abstract!Rewrite
  <2>2. live \ gone = live'
    BY <2>1
  <2>3. \A r \in gone : HasUse(args, r) => StandsFor(prog, v, r, live \ gone)
    BY <1>1, <2>2, SameOperators DEF Abstract!Rewrite
  <2>4. /\ Rewritten(args, gone, v) \in [Id -> [Slot -> Value]]
        /\ UsesWellPlaced(prog, Rewritten(args, gone, v))
        /\ UsesAlive(live \ gone, Rewritten(args, gone, v))
        /\ OperandsFilled(prog, live \ gone, Rewritten(args, gone, v))
    <3> HIDE DEF gone
    <3>1. gone \in SUBSET live
      BY DEF gone
    <3> QED BY <2>3, <3>1, RewrittenWellFormed DEF RewriterInv
  <2> QED BY <2>1, <2>2, <2>4 DEF RewriterInv
<1>2. CASE UNCHANGED Abstract!vars
  BY <1>2 DEF Abstract!vars, RewriterInv
<1> QED BY <1>1, <1>2, SameOperators DEF Abstract!Next

\* What the promise of module Rewriter is worth: in every state of a
\* rewriting no live instruction has an erased operand and every definition
\* dominates its uses.
THEOREM RewriterWellFormed == Abstract!Spec => []Abstract!WellFormed
<1>1. RewriterInv => Abstract!WellFormed
  <2>1. \A L, M : /\ Abstract!UsesAlive(L, M) = UsesAlive(L, M)
                  /\ \A P : Abstract!OperandsFilled(P, L, M) = OperandsFilled(P, L, M)
    BY DEF Abstract!UsesAlive, UsesAlive, Abstract!OperandsFilled,
           OperandsFilled, Abstract!Id, Id, Abstract!Slot, Slot
  <2> QED BY <2>1, SameOperators
          DEF RewriterInv, Abstract!WellFormed, Abstract!NoDanglingUse,
              Abstract!DefsDominateUses, Abstract!NoOperandLost
<1> QED BY RewriterInvInit, RewriterInvStep, <1>1, PTL DEF Abstract!Spec
=============================================================================
