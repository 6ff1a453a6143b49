------------------------------ MODULE P3_proofs ------------------------------
(***************************************************************************)
(* Theorems of project 3, proved by TLAPS for functions of every size and  *)
(* loops nested to every depth: loop invariant code motion keeps operands  *)
(* before their uses, moves only what has no effect and only up the        *)
(* dominator tree, and leaves a function that behaves as before; the       *)
(* verifier that p3.cpp runs at its end never refuses what that and the    *)
(* copy of project 2's pass leave; and the program is one of the drivers.  *)
(***************************************************************************)
EXTENDS P3, IR_proofs, TLAPS, FiniteSetTheorems

-----------------------------------------------------------------------------
(* Loop invariant code motion.  The invariant adds what the moves rely on: *)
(* an open loop has a preheader, the iterator is inside it, and a move's   *)
(* number is higher than all before.                                       *)

LoopOpen == loop # {} => HasPreheader(loop)

CurInside == cur # 0 => loop # {} /\ InLoop(loop, cur)

StampsBounded == \A i \in Id : stamp[i] <= Moves

Inv == TypeOK /\ OperandsBeforeUses /\ LoopOpen /\ CurInside /\ StampsBounded

LEMMA IdIsNat == Id \subseteq Nat /\ Id \subseteq 0..N /\ 0 \notin Id
BY SizeAssumption DEF Id

\* A set of numbers has a least one.
LEMMA LeastNumber ==
  ASSUME NEW S \in SUBSET Nat, S # {}
  PROVE  \E x \in S : \A y \in S : x <= y
<1> DEFINE R == OpToRel(<, Nat)
<1>1. \E x \in S : \A y \in S : ~(<<y, x>> \in R)
  BY NatLessThanWellFounded, WFMin
<1>2. PICK x \in S : \A y \in S : ~(<<y, x>> \in R)
  BY <1>1
<1>3. ASSUME NEW y \in S
      PROVE  x <= y
  <2>1. <<y, x>> \in Nat \X Nat
    OBVIOUS
  <2>2. ~(y < x)
    BY <1>2, <2>1 DEF OpToRel
  <2> QED BY <2>2
<1> QED BY <1>3

\* Some member of a set of instructions comes first.
LEMMA FirstExists ==
  ASSUME stamp \in [Id -> Nat], NEW S \in SUBSET Id, S # {}
  PROVE  \E i \in S : \A j \in S \ {i} : Precedes(i, j)
<1> DEFINE T == {i \in S : prog.kind[i] # "term"}
<1>1. CASE T = {}
  <2>1. PICK i \in S : \A j \in S : i <= j
    BY IdIsNat, LeastNumber
  <2>2. \A j \in S \ {i} : i < j
    BY <2>1, IdIsNat
  <2> QED BY <1>1, <2>1, <2>2 DEF Precedes
<1>2. CASE T # {}
  <2> DEFINE stamps == {stamp[i] : i \in T}
  <2>1. stamps \in SUBSET Nat /\ stamps # {}
    BY <1>2
  <2>2. \E x \in stamps : \A y \in stamps : x <= y
    BY <2>1, LeastNumber
  <2>3. PICK k \in T : \A j \in T : stamp[k] <= stamp[j]
    BY <2>2
  <2> DEFINE U == {i \in T : stamp[i] = stamp[k]}
  <2>4. U \in SUBSET Nat /\ U # {}
    BY IdIsNat
  <2>5. PICK i \in U : \A j \in U : i <= j
    BY <2>4, LeastNumber
  <2>6. ASSUME NEW j \in S \ {i}
        PROVE  Precedes(i, j)
    <3>1. CASE prog.kind[j] = "term"
      BY <3>1, <2>5 DEF Precedes
    <3>2. CASE prog.kind[j] # "term"
      <4>1. stamp[i] <= stamp[j] /\ stamp[i] \in Nat /\ stamp[j] \in Nat
        BY <2>3, <2>5, <3>2
      <4>2. stamp[i] = stamp[j] => i < j
        BY <2>5, <3>2, IdIsNat
      <4> QED BY <2>5, <3>2, <4>1, <4>2 DEF Precedes
    <3> QED BY <3>1, <3>2
  <2> QED BY <2>5, <2>6
<1> QED BY <1>1, <1>2

LEMMA FirstIsMember ==
  ASSUME stamp \in [Id -> Nat], NEW S \in SUBSET Id
  PROVE  /\ First(S) \in 0..N
         /\ First(S) # 0 => First(S) \in S
<1>1. CASE S = {}
  BY <1>1, SizeAssumption DEF First
<1>2. CASE S # {}
  <2>1. First(S) = CHOOSE i \in S : \A j \in S \ {i} : Precedes(i, j)
    BY <1>2 DEF First
  <2>2. First(S) \in S
    BY <1>2, <2>1, FirstExists
  <2> QED BY <2>2, IdIsNat
<1> QED BY <1>1, <1>2

\* The next instruction is another one of the same block.
LEMMA FollowingFacts ==
  ASSUME stamp \in [Id -> Nat], home \in [Id -> Block], NEW i \in Id
  PROVE  /\ Following(i) \in 0..N
         /\ Following(i) # 0 => /\ Following(i) \in Id \ {i}
                                /\ home[Following(i)] = home[i]
<1> DEFINE S == {j \in In(home[i]) : Precedes(i, j)}
<1>1. S \in SUBSET Id
  BY DEF In
<1>2. i \notin S
  BY IdIsNat DEF Precedes
<1>3. /\ Following(i) \in 0..N
      /\ Following(i) # 0 => Following(i) \in S
  BY <1>1, FirstIsMember DEF Following
<1> QED BY <1>2, <1>3 DEF In

-----------------------------------------------------------------------------

\* A preheader is outside its loop, dominates it, and is dominated by
\* whatever else dominates part of it.
LEMMA PreheaderFacts ==
  ASSUME prog.graph \in Graph, NEW l \in Loops[prog.graph], HasPreheader(l)
  PROVE  /\ Preheader(l) \in Block \ l
         /\ \A c \in l : /\ Dominates(Preheader(l), c)
                         /\ \A x \in Block \ l :
                              Dominates(x, c) => Dominates(x, Preheader(l))
<1> DEFINE D == Dom[prog.graph]
           E == Edge[prog.graph]
           h == Header(l)
<1>1. /\ l \subseteq Block
      /\ \E b \in l : \A c \in l : <<b, c>> \in D
  BY LoopAssumption
<1>2. h \in l /\ \A c \in l : <<h, c>> \in D
  BY <1>1 DEF Header, Dominates
<1>3. Entering(l) = {x \in Block \ l : <<x, h>> \in E}
  BY <1>1, <1>2 DEF Entering, Succs
<1>4. \E b \in Block : Entering(l) = {b}
  BY DEF HasPreheader
<1>5. Entering(l) = {Preheader(l)}
  BY <1>4 DEF Preheader
<1>6. Preheader(l) \in Block \ l
  BY <1>3, <1>5
<1>7. {x \in Block \ l : <<x, h>> \in E} = {Preheader(l)}
  BY <1>3, <1>5
<1>8. \A c \in l : /\ <<Preheader(l), c>> \in D
                   /\ \A x \in Block \ l :
                        <<x, c>> \in D => <<x, Preheader(l)>> \in D
  BY <1>2, <1>6, <1>7, LoopAssumption
<1> QED BY <1>6, <1>8 DEF Dominates

LEMMA DominanceOrder ==
  ASSUME prog.graph \in Graph
  PROVE  /\ \A x \in Block : Dominates(x, x)
         /\ \A x, y \in Block : Dominates(x, y) /\ Dominates(y, x) => x = y
         /\ \A x, y, z \in Block :
              Dominates(x, y) /\ Dominates(y, z) => Dominates(x, z)
BY DomAssumption DEF Dominates

LEMMA LoadsUnary ==
  ASSUME NEW P, IsProgram(P), NEW i \in Id, P.kind[i] \in Loads
  PROVE  P.args[i][2] = Nil
BY DEF IsProgram

\* What the two tests let through has operands from outside the loop.
LEMMA MovableOperands ==
  ASSUME TypeOK, NEW i \in Id, Hoistable(loop, i) \/ CanMoveLoad(loop, i)
  PROVE  /\ prog.kind[i] \in Speculatable \cup {"load"}
         /\ \A s \in Slot : Invariant(loop, prog.args[i][s])
<1>1. CASE Hoistable(loop, i)
  BY <1>1 DEF Hoistable
<1>2. CASE CanMoveLoad(loop, i)
  <2>1. prog.kind[i] = "load"
    BY <1>2 DEF CanMoveLoad
  <2>2. Address(i) = prog.args[i][1]
    BY <2>1 DEF Address, Stores
  <2>3. prog.args[i][2] = Nil
    <3>1. prog.kind[i] \in Loads
      BY <2>1 DEF Loads
    <3> QED BY <3>1, LoadsUnary DEF TypeOK
  <2>4. Invariant(loop, prog.args[i][2])
    BY <2>3, LeafAssumption DEF Invariant
  <2>5. Fixed(loop, Address(i)) => Invariant(loop, Address(i))
    BY GlobalAssumption, LeafAssumption DEF Fixed, IsAlloca, Invariant
  <2>6. Invariant(loop, prog.args[i][1])
    BY <1>2, <2>2, <2>5 DEF CanMoveLoad
  <2> QED BY <2>1, <2>4, <2>6 DEF Slot
<1> QED BY <1>1, <1>2

-----------------------------------------------------------------------------
(* A move to the preheader.                                                *)

LEMMA MoveShape ==
  ASSUME TypeOK, NEW i \in Id, MoveToPreheader(i), prog' = prog,
         loop # {}, HasPreheader(loop), InLoop(loop, i)
  PROVE  /\ Preheader(loop) \in Block \ loop
         /\ home' \in [Id -> Block]
         /\ home'[i] = Preheader(loop)
         /\ Dominates(Preheader(loop), home[i])
         /\ \A j \in Id \ {i} : home'[j] = home[j] /\ stamp'[j] = stamp[j]
         /\ stamp' \in [Id -> Nat]
         /\ stamp'[i] = Moves + 1
<1>1. prog.graph \in Graph /\ loop \in Loops[prog.graph] /\ home[i] \in loop
  BY DEF TypeOK, IsProgram, InLoop
<1>2. Preheader(loop) \in Block \ loop /\ Dominates(Preheader(loop), home[i])
  BY <1>1, PreheaderFacts
<1>3. Moves \in Nat
  BY DEF TypeOK, Moves, Counter
<1>4. home' = [home EXCEPT ![i] = Preheader(loop)]
      /\ stamp' = [stamp EXCEPT ![i] = Moves + 1]
  BY DEF MoveToPreheader
<1> QED BY <1>2, <1>3, <1>4 DEF TypeOK

\* Moving an instruction whose operands are outside the loop keeps every
\* operand before its use.
LEMMA MoveKeepsOrder ==
  ASSUME Inv, NEW i \in Id, MoveToPreheader(i), prog' = prog,
         cur = i, Hoistable(loop, i) \/ CanMoveLoad(loop, i)
  PROVE  OperandsBeforeUses'
<1> DEFINE ph == Preheader(loop)
<1>1. loop # {} /\ HasPreheader(loop) /\ InLoop(loop, i)
  BY IdIsNat DEF Inv, CurInside, LoopOpen
<1>2. TypeOK
  BY DEF Inv
<1>3. /\ prog.kind[i] \notin {"phi", "term"}
      /\ prog.kind[i] \notin Void
      /\ \A s \in Slot : Invariant(loop, prog.args[i][s])
  BY <1>2, MovableOperands DEF Speculatable, Void
<1>4. /\ ph \in Block \ loop
      /\ home' \in [Id -> Block]
      /\ home'[i] = ph
      /\ Dominates(ph, home[i])
      /\ \A j \in Id \ {i} : home'[j] = home[j] /\ stamp'[j] = stamp[j]
      /\ stamp' \in [Id -> Nat]
      /\ stamp'[i] = Moves + 1
  BY <1>1, <1>2, MoveShape
<1>5. prog.graph \in Graph /\ home \in [Id -> Block] /\ loop \in Loops[prog.graph]
      /\ prog.from \in [Id -> [Slot -> Block]] /\ stamp \in [Id -> Nat]
  BY <1>1, <1>2 DEF TypeOK, IsProgram
<1>6. home[i] \in loop /\ loop \subseteq Block
  BY <1>1, <1>5, LoopAssumption DEF InLoop
<1>7. /\ \A x, y \in Block : Dominates(x, y) /\ Dominates(y, x) => x = y
      /\ \A x, y, z \in Block : Dominates(x, y) /\ Dominates(y, z) => Dominates(x, z)
  BY <1>5, DominanceOrder
<1>8. \A x \in Block \ loop : Dominates(x, home[i]) => Dominates(x, ph)
  BY <1>1, <1>5, <1>6, PreheaderFacts
<1>9. \A x, y : Dominates(x, y)' <=> Dominates(x, y)
  BY DEF Dominates
<1> SUFFICES ASSUME NEW j \in Id, NEW s \in Slot, prog.args[j][s] \in Id
             PROVE  LET r == prog.args[j][s] IN
                    /\ prog.kind[r] \notin Void
                    /\ IF prog.kind[j] = "phi"
                       THEN Dominates(home'[r], prog.from[j][s])
                       ELSE Reaches(r, j)'
  BY <1>9 DEF OperandsBeforeUses, Dominates
<1> DEFINE r == prog.args[j][s]
<1>10. /\ prog.kind[r] \notin Void
       /\ IF prog.kind[j] = "phi" THEN Dominates(home[r], prog.from[j][s])
                                  ELSE Reaches(r, j)
  BY DEF Inv, OperandsBeforeUses
<1>11. CASE j = i
  <2>1. home[r] \notin loop /\ r # i
    BY <1>3, <1>6, <1>11 DEF Invariant, InLoop
  <2>2. Dominates(home[r], home[i])
    BY <1>3, <1>6, <1>10, <1>11, <2>1 DEF Reaches
  <2>3. Dominates(home[r], ph) /\ home'[r] = home[r] /\ stamp'[r] = stamp[r]
    BY <1>4, <1>5, <1>8, <2>1, <2>2
  <2>4. CASE home[r] = ph
    <3>1. stamp[r] <= Moves /\ Moves \in Nat
      <4>1. Moves \in Nat
        BY <1>2 DEF TypeOK, Moves, Counter
      <4> QED BY <4>1 DEF Inv, StampsBounded
    <3>2. prog.kind[r] # "term"
      BY <1>10 DEF Void
    <3>3. stamp'[r] < stamp'[i]
      BY <1>4, <1>5, <2>3, <3>1
    <3>4. Precedes(r, i)'
      BY <1>3, <3>2, <3>3 DEF Precedes
    <3> QED BY <1>3, <1>4, <1>10, <1>11, <2>3, <2>4, <3>4 DEF Reaches
  <2>5. CASE home[r] # ph
    BY <1>3, <1>4, <1>9, <1>10, <1>11, <2>3, <2>5 DEF Reaches
  <2> QED BY <2>4, <2>5
<1>12. CASE j # i /\ r = i
  <2>1. home'[j] = home[j] /\ home'[r] = ph
    BY <1>4, <1>12
  <2>2. CASE prog.kind[j] = "phi"
    <3>1. prog.from[j][s] \in Block
      BY <1>5
    <3>2. Dominates(ph, prog.from[j][s])
      BY <1>4, <1>5, <1>7, <1>10, <1>12, <2>2, <3>1
    <3> QED BY <1>10, <2>1, <2>2, <3>2
  <2>3. CASE prog.kind[j] # "phi"
    <3>1. home[j] = home[i] \/ Dominates(home[i], home[j])
      BY <1>10, <1>12, <2>3 DEF Reaches
    <3>2. Dominates(ph, home[j])
      BY <1>4, <1>5, <1>7, <3>1
    <3>3. home[j] # ph
      BY <1>4, <1>5, <1>6, <1>7, <3>1
    <3> QED BY <1>9, <1>10, <2>1, <2>3, <3>2, <3>3 DEF Reaches
  <2> QED BY <2>2, <2>3
<1>13. CASE j # i /\ r # i
  <2>1. /\ home'[j] = home[j] /\ home'[r] = home[r]
        /\ stamp'[j] = stamp[j] /\ stamp'[r] = stamp[r]
    BY <1>4, <1>13
  <2>2. Precedes(r, j)' <=> Precedes(r, j)
    BY <2>1 DEF Precedes
  <2> QED BY <1>9, <1>10, <2>1, <2>2 DEF Reaches
<1> QED BY <1>11, <1>12, <1>13

-----------------------------------------------------------------------------
(* One step of each action keeps the invariant.                            *)

LEMMA InvInit == Init => Inv
<1> SUFFICES ASSUME Init
             PROVE  Inv
  OBVIOUS
<1>1. IsProgram(prog) /\ UsesWellPlaced(prog, prog.args)
  BY ProgramsAssumption DEF Init
<1>2. TypeOK
  BY <1>1, SizeAssumption DEF Init, TypeOK, Nothing, Counter, IsProgram
<1>3. OperandsBeforeUses
  <2> SUFFICES ASSUME NEW i \in Id, NEW s \in Slot, prog.args[i][s] \in Id
               PROVE  /\ prog.kind[prog.args[i][s]] \notin Void
                      /\ IF prog.kind[i] = "phi"
                         THEN Dominates(home[prog.args[i][s]], prog.from[i][s])
                         ELSE Reaches(prog.args[i][s], i)
    BY DEF OperandsBeforeUses
  <2> DEFINE r == prog.args[i][s]
  <2>1. MayUse(prog, r, i, s)
    BY <1>1 DEF UsesWellPlaced
  <2>2. CASE prog.kind[i] = "phi"
    BY <2>1, <2>2 DEF MayUse, Dominates, Init
  <2>3. CASE prog.kind[i] # "phi"
    <3>1. prog.kind[r] \notin Void /\ Before(prog, r, i)
      BY <2>1, <2>3 DEF MayUse
    <3>2. CASE prog.blk[r] = prog.blk[i]
      <4>1. r < i
        BY <3>1, <3>2 DEF Before
      <4>2. Precedes(r, i)
        BY <3>1, <4>1 DEF Precedes, Init, Void
      <4> QED BY <2>3, <3>1, <3>2, <4>2 DEF Reaches, Init
    <3>3. CASE prog.blk[r] # prog.blk[i]
      BY <2>3, <3>1, <3>3 DEF Before, Reaches, Dominates, Init
    <3> QED BY <3>2, <3>3
  <2> QED BY <2>2, <2>3
<1>4. LoopOpen /\ CurInside
  BY DEF Init, LoopOpen, CurInside
<1>5. StampsBounded
  BY DEF Init, StampsBounded, Moves, Counter
<1> QED BY <1>2, <1>3, <1>4, <1>5 DEF Inv

\* Where nothing moves, the order of the instructions stays.
LEMMA NoMove ==
  ASSUME Inv, UNCHANGED <<prog, home, stamp>>
  PROVE  OperandsBeforeUses'
BY DEF Inv, OperandsBeforeUses, Reaches, Precedes, Dominates

LEMMA SamePreheader ==
  ASSUME prog' = prog, NEW l
  PROVE  HasPreheader(l)' <=> HasPreheader(l)
<1>1. \A x, y : Dominates(x, y)' <=> Dominates(x, y)
  BY DEF Dominates
<1>2. Header(l)' = Header(l)
  BY Zenon DEF Header, Dominates
<1>3. \A b : Succs(b)' = Succs(b)
  BY DEF Succs
<1>4. Entering(l)' = Entering(l)
  BY <1>2, <1>3 DEF Entering
<1> QED BY <1>2, <1>3, <1>4 DEF HasPreheader

LEMMA SameLoop ==
  ASSUME Inv, UNCHANGED <<prog, loop>>
  PROVE  LoopOpen'
BY SamePreheader DEF Inv, LoopOpen

\* A turn of the inner loop leaves the iterator in the loop it was in.
LEMMA VisitFacts ==
  ASSUME Inv, NEW i \in Id, Visit(i),
         \A j \in Id \ {i} : home'[j] = home[j]
  PROVE  /\ cur' \in 0..N
         /\ seen' \in [{"load", "store", "call"} -> Nat]
         /\ CurInside'
<1>1. TypeOK
  BY DEF Inv
<1>2. /\ Following(i) \in 0..N
      /\ Following(i) # 0 => /\ Following(i) \in Id \ {i}
                             /\ home[Following(i)] = home[i]
  BY <1>1, FollowingFacts DEF TypeOK
<1>3. cur = i /\ cur' = Following(i) /\ loop' = loop
  BY DEF Visit
<1>4. loop # {} /\ home[i] \in loop
  BY <1>3, IdIsNat DEF Inv, CurInside, InLoop
<1>5. CurInside'
  BY <1>2, <1>3, <1>4 DEF CurInside, InLoop
<1>6. seen' \in [{"load", "store", "call"} -> Nat]
  BY <1>1 DEF Visit, See, TypeOK
<1> QED BY <1>2, <1>3, <1>5, <1>6

\* Both moves: one counter goes up with the number of moves.
LEMMA InvMove ==
  ASSUME Inv, NEW i \in Id, NEW c \in {"Basic", "LoadHoist"},
         Visit(i), MoveToPreheader(i), Count(c),
         Hoistable(loop, i) \/ CanMoveLoad(loop, i)
  PROVE  Inv'
<1>1. TypeOK /\ cur = i /\ UNCHANGED <<prog, done, loop, todo>>
  BY DEF Inv, Visit
<1>2. loop # {} /\ HasPreheader(loop) /\ InLoop(loop, i)
  BY <1>1, IdIsNat DEF Inv, CurInside, LoopOpen
<1>3. /\ Preheader(loop) \in Block \ loop
      /\ home' \in [Id -> Block]
      /\ home'[i] = Preheader(loop)
      /\ \A j \in Id \ {i} : home'[j] = home[j] /\ stamp'[j] = stamp[j]
      /\ stamp' \in [Id -> Nat]
      /\ stamp'[i] = Moves + 1
  BY <1>1, <1>2, MoveShape
<1>4. /\ cur' \in 0..N
      /\ seen' \in [{"load", "store", "call"} -> Nat]
      /\ CurInside'
  BY <1>3, VisitFacts
<1>5. stats' \in [Counter -> Nat] /\ Moves \in Nat /\ Moves' = Moves + 1
  BY <1>1 DEF TypeOK, Count, Moves, Counter
<1>6. TypeOK'
  BY <1>1, <1>3, <1>4, <1>5 DEF TypeOK
<1>7. StampsBounded'
  <2> SUFFICES ASSUME NEW j \in Id
               PROVE  stamp'[j] <= Moves'
    BY DEF StampsBounded
  <2>1. stamp[j] \in Nat /\ stamp[j] <= Moves
    BY <1>1 DEF TypeOK, Inv, StampsBounded
  <2> QED BY <1>3, <1>5, <2>1
<1>8. OperandsBeforeUses'
  BY <1>1, MoveKeepsOrder
<1> QED BY <1>1, <1>4, <1>6, <1>7, <1>8, SameLoop DEF Inv

LEMMA InvVisit ==
  ASSUME Inv, NEW i \in Id, CountStore(i) \/ Stay(i)
  PROVE  Inv'
<1>1. Visit(i) /\ UNCHANGED <<prog, home, stamp, done, loop, todo>>
  BY DEF CountStore, Stay, Visit
<1>2. /\ cur' \in 0..N
      /\ seen' \in [{"load", "store", "call"} -> Nat]
      /\ CurInside'
  BY <1>1, VisitFacts
<1>3. stats' \in [Counter -> Nat] /\ Moves' = Moves
  BY DEF CountStore, Stay, Count, Inv, TypeOK, Moves, Counter
<1>4. TypeOK'
  BY <1>1, <1>2, <1>3 DEF Inv, TypeOK
<1>5. StampsBounded'
  BY <1>1, <1>3 DEF Inv, StampsBounded
<1> QED BY <1>1, <1>2, <1>4, <1>5, NoMove, SameLoop DEF Inv

LEMMA InvEnter ==
  ASSUME Inv, NEW l \in Loops[prog.graph], Enter(l)
  PROVE  Inv'
<1>1. /\ UNCHANGED <<prog, home, stamp, done, cur>>
      /\ loop = {} /\ loop' = l /\ todo' = l /\ seen' = Nothing
      /\ HasPreheader(l)
  BY DEF Enter
<1>2. cur = 0
  BY <1>1 DEF Inv, CurInside
<1>3. stats' \in [Counter -> Nat] /\ Moves' = Moves
  BY DEF Enter, Count, Inv, TypeOK, Moves, Counter
<1>4. TypeOK'
  BY <1>1, <1>3 DEF Inv, TypeOK, Nothing
<1>5. LoopOpen'
  BY <1>1, SamePreheader DEF LoopOpen
<1>6. CurInside' /\ StampsBounded'
  BY <1>1, <1>2, <1>3 DEF CurInside, Inv, StampsBounded
<1> QED BY <1>1, <1>4, <1>5, <1>6, NoMove DEF Inv

LEMMA InvSkipLoop ==
  ASSUME Inv, NEW l \in Loops[prog.graph], SkipLoop(l)
  PROVE  Inv'
<1>1. /\ UNCHANGED <<prog, home, stamp, loop, todo, cur, seen>>
      /\ done' = done \cup {l}
  BY DEF SkipLoop
<1>2. stats' \in [Counter -> Nat] /\ Moves' = Moves
  BY DEF SkipLoop, Inv, TypeOK, Moves, Counter
<1>3. TypeOK'
  BY <1>1, <1>2 DEF Inv, TypeOK
<1>4. CurInside' /\ StampsBounded'
  BY <1>1, <1>2 DEF Inv, CurInside, InLoop, StampsBounded
<1> QED BY <1>1, <1>3, <1>4, NoMove, SameLoop DEF Inv

LEMMA InvEnterBlock ==
  ASSUME Inv, NEW b \in Block, EnterBlock(b)
  PROVE  Inv'
<1>1. /\ UNCHANGED <<prog, home, stamp, done, loop, seen, stats>>
      /\ b \in todo /\ todo' = todo \ {b} /\ cur' = First(In(b))
  BY DEF EnterBlock
<1>2. First(In(b)) \in 0..N /\ (First(In(b)) # 0 => First(In(b)) \in In(b))
  BY FirstIsMember DEF In, Inv, TypeOK
<1>3. TypeOK'
  BY <1>1, <1>2 DEF Inv, TypeOK
<1>4. b \in loop
  BY <1>1 DEF Inv, TypeOK
<1>5. CurInside'
  BY <1>1, <1>2, <1>4 DEF CurInside, InLoop, In
<1>6. StampsBounded'
  BY <1>1 DEF Inv, StampsBounded, Moves
<1> QED BY <1>1, <1>3, <1>5, <1>6, NoMove, SameLoop DEF Inv

LEMMA InvLeave ==
  ASSUME Inv, Leave
  PROVE  Inv'
<1>1. /\ UNCHANGED <<prog, home, stamp, todo, cur, seen>>
      /\ loop # {} /\ todo = {} /\ cur = 0
      /\ done' = done \cup {loop} /\ loop' = {}
  BY DEF Leave
<1>2. stats' \in [Counter -> Nat] /\ Moves' = Moves
  BY DEF Leave, Inv, TypeOK, Moves, Counter
<1>3. TypeOK'
  BY <1>1, <1>2 DEF Inv, TypeOK
<1>4. LoopOpen' /\ CurInside' /\ StampsBounded'
  BY <1>1, <1>2 DEF Inv, LoopOpen, CurInside, StampsBounded
<1> QED BY <1>1, <1>3, <1>4, NoMove DEF Inv

LEMMA InvStep == Inv /\ [Next]_vars => Inv'
<1> SUFFICES ASSUME Inv, [Next]_vars
             PROVE  Inv'
  OBVIOUS
<1>1. ASSUME NEW l \in Loops[prog.graph], Enter(l) \/ SkipLoop(l)
      PROVE  Inv'
  BY <1>1, InvEnter, InvSkipLoop
<1>2. ASSUME NEW b \in Block, EnterBlock(b)
      PROVE  Inv'
  BY <1>2, InvEnterBlock
<1>3. ASSUME NEW i \in Id, Hoist(i) \/ HoistLoad(i)
      PROVE  Inv'
  <2>1. Hoist(i) => Inv'
    BY InvMove DEF Hoist
  <2>2. HoistLoad(i) => Inv'
    BY InvMove DEF HoistLoad
  <2> QED BY <1>3, <2>1, <2>2
<1>4. ASSUME NEW i \in Id, CountStore(i) \/ Stay(i)
      PROVE  Inv'
  BY <1>4, InvVisit
<1>5. CASE UNCHANGED vars
  <2>1. TypeOK' /\ CurInside' /\ StampsBounded'
    BY <1>5 DEF vars, Inv, TypeOK, CurInside, InLoop, StampsBounded, Moves
  <2> QED BY <1>5, <2>1, NoMove, SameLoop DEF vars, Inv
<1> QED BY <1>1, <1>2, <1>3, <1>4, <1>5, InvLeave DEF Next, Stopped

LEMMA InvHolds == Spec => []Inv
BY InvInit, InvStep, PTL DEF Spec

-----------------------------------------------------------------------------

\* TYPE: the variables stay in their ranges, in functions of every size.
THEOREM LICMTypeOK == Spec => []TypeOK
<1>1. Inv => TypeOK
  BY DEF Inv
<1> QED BY <1>1, InvHolds, PTL

\* Whatever is hoisted, over whatever nest of loops, ends below its operands
\* and above its uses (moveLoopInvariants, p3.cpp).
THEOREM LICMOperandsBeforeUses == Spec => []OperandsBeforeUses
<1>1. Inv => OperandsBeforeUses
  BY DEF Inv
<1> QED BY <1>1, InvHolds, PTL

\* Only pure instructions and loads move, and only up the dominator tree.
THEOREM LICMOnlyUpwards == Spec => OnlyUpwards
<1> DEFINE Up == \A i \in Id : home'[i] # home[i] =>
                   /\ prog.kind[i] \in Speculatable \cup {"load"}
                   /\ Dominates(home'[i], home[i])
<1>1. ASSUME Inv, NEW i \in Id, Hoist(i) \/ HoistLoad(i)
      PROVE  Up
  <2>1. /\ Visit(i) /\ MoveToPreheader(i)
        /\ Hoistable(loop, i) \/ CanMoveLoad(loop, i)
    BY <1>1 DEF Hoist, HoistLoad
  <2>2. TypeOK /\ prog' = prog
    BY <1>1, <2>1 DEF Inv, Visit
  <2>3. loop # {} /\ HasPreheader(loop) /\ InLoop(loop, i)
    BY <1>1, <2>1, IdIsNat DEF Inv, CurInside, LoopOpen, Visit
  <2>4. /\ home'[i] = Preheader(loop)
        /\ Dominates(Preheader(loop), home[i])
        /\ \A j \in Id \ {i} : home'[j] = home[j]
    BY <2>1, <2>2, <2>3, MoveShape
  <2>5. prog.kind[i] \in Speculatable \cup {"load"}
    BY <2>1, <2>2, MovableOperands
  <2> QED BY <2>4, <2>5
<1>2. ASSUME home' = home
      PROVE  Up
  BY <1>2
<1>3. Inv /\ [Next]_vars => [Up]_vars
  BY <1>1, <1>2 DEF Next, vars, Enter, SkipLoop, EnterBlock, CountStore, Stay,
     Leave, Stopped
<1> QED BY <1>3, InvHolds, PTL DEF Spec, OnlyUpwards

-----------------------------------------------------------------------------
(* One visit per instruction is enough.  Blocks are entered after their    *)
(* dominators and instructions visited in order, so what moves cannot be   *)
(* an operand of what has been visited; and only operands that move make   *)
(* an instruction movable.                                                 *)

Movable(l, i) == Hoistable(l, i) \/ CanMoveLoad(l, i)

Entered == loop \ todo

Visited(i) ==
  /\ home[i] \in Entered
  /\ cur # 0 /\ home[i] = home[cur] => Precedes(i, cur)

\* No block that is still to be entered dominates one that has been.
EnteredFirst == \A b \in Entered, c \in todo : ~Dominates(c, b)

\* The block of the iterator is the last that has been entered.
CurLast ==
  cur # 0 => /\ home[cur] \in Entered
             /\ \A b \in Entered \ {home[cur]} : ~Dominates(home[cur], b)

VisitedStay == \A i \in Id : Visited(i) => ~Movable(loop, i)

Once == EnteredFirst /\ CurLast /\ VisitedStay

\* The instructions of a function stand in one order.
LEMMA PrecedesOrder ==
  ASSUME stamp \in [Id -> Nat], NEW i \in Id, NEW j \in Id
  PROVE  /\ ~(Precedes(i, j) /\ Precedes(j, i))
         /\ i # j => Precedes(i, j) \/ Precedes(j, i)
<1>1. /\ i \in Nat /\ j \in Nat
      /\ stamp[i] \in Nat /\ stamp[j] \in Nat
  BY IdIsNat
<1> QED BY <1>1 DEF Precedes

LEMMA PrecedesTransitive ==
  ASSUME stamp \in [Id -> Nat], NEW i \in Id, NEW j \in Id, NEW k \in Id,
         Precedes(i, j), Precedes(j, k)
  PROVE  Precedes(i, k)
<1>1. /\ i \in Nat /\ j \in Nat /\ k \in Nat
      /\ stamp[i] \in Nat /\ stamp[j] \in Nat /\ stamp[k] \in Nat
  BY IdIsNat
<1> QED BY <1>1 DEF Precedes

\* First skips nothing.
LEMMA FirstSkipsNothing ==
  ASSUME stamp \in [Id -> Nat], NEW S \in SUBSET Id, NEW j \in S
  PROVE  First(S) \in S /\ (j # First(S) => Precedes(First(S), j))
<1>1. First(S) = CHOOSE i \in S : \A k \in S \ {i} : Precedes(i, k)
  BY DEF First
<1>2. /\ First(S) \in S
      /\ \A k \in S \ {First(S)} : Precedes(First(S), k)
  BY <1>1, FirstExists
<1> QED BY <1>2

\* What stands before the next instruction of a block stands before this one
\* or is this one; at the end of the block, so does the whole block.
LEMMA FollowingSkipsNothing ==
  ASSUME stamp \in [Id -> Nat], home \in [Id -> Block],
         NEW i \in Id, NEW j \in Id \ {i}, home[j] = home[i],
         Following(i) # 0 => Precedes(j, Following(i))
  PROVE  Precedes(j, i)
<1> DEFINE S == {k \in In(home[i]) : Precedes(i, k)}
<1>1. S \in SUBSET Id /\ Following(i) = First(S)
  BY DEF In, Following
<1>2. SUFFICES ASSUME Precedes(i, j)
               PROVE  FALSE
  BY PrecedesOrder
<1>3. j \in S
  BY <1>2 DEF In
<1>4. First(S) \in S /\ (j # First(S) => Precedes(First(S), j))
  BY <1>1, <1>3, FirstSkipsNothing
<1>5. Following(i) \in Id
  BY <1>1, <1>4
<1>6. Precedes(j, Following(i))
  BY <1>5, IdIsNat
<1> QED BY <1>1, <1>4, <1>5, <1>6, PrecedesOrder

\* A turn of the inner loop adds only its own instruction to the visited.
LEMMA VisitAdvances ==
  ASSUME Inv, Once, NEW i \in Id, Visit(i),
         \A j \in Id \ {i} : home'[j] = home[j] /\ stamp'[j] = stamp[j]
  PROVE  /\ EnteredFirst' /\ CurLast'
         /\ \A j \in Id \ {i} : Visited(j)' => Visited(j)
<1>1. /\ stamp \in [Id -> Nat] /\ home \in [Id -> Block]
      /\ cur = i /\ cur # 0 /\ cur' = Following(i)
      /\ loop' = loop /\ todo' = todo /\ prog' = prog
  BY IdIsNat DEF Inv, TypeOK, Visit
<1>2. Following(i) # 0 => /\ Following(i) \in Id \ {i}
                          /\ home[Following(i)] = home[i]
  BY <1>1, FollowingFacts
<1>3. \A x, y : Dominates(x, y)' <=> Dominates(x, y)
  BY <1>1 DEF Dominates
<1>4. Entered' = Entered
  BY <1>1 DEF Entered
<1>5. EnteredFirst'
  BY <1>1, <1>3, <1>4 DEF Once, EnteredFirst
<1>6. CurLast'
  <2>1. cur' # 0 => home'[cur'] = home[i]
    BY <1>1, <1>2
  <2> QED BY <1>1, <1>3, <1>4, <2>1 DEF Once, CurLast
<1>7. ASSUME NEW j \in Id \ {i}, Visited(j)'
      PROVE  Visited(j)
  <2>1. home'[j] = home[j] /\ home[j] \in Entered
    BY <1>4, <1>7 DEF Visited
  <2>2. CASE home[j] = home[i]
    <3>1. ASSUME Following(i) # 0
          PROVE  Precedes(j, Following(i))
      <4>1. home'[Following(i)] = home[i]
        BY <1>2, <3>1
      <4>2. Precedes(j, cur)'
        BY <1>1, <1>7, <2>1, <2>2, <3>1, <4>1 DEF Visited
      <4>3. stamp'[j] = stamp[j] /\ stamp'[Following(i)] = stamp[Following(i)]
        BY <1>2, <3>1
      <4> QED BY <1>1, <4>2, <4>3 DEF Precedes
    <3>2. Precedes(j, i)
      BY <1>1, <2>2, <3>1, FollowingSkipsNothing
    <3> QED BY <1>1, <2>1, <3>2 DEF Visited
  <2>3. CASE home[j] # home[i]
    BY <1>1, <2>1, <2>3 DEF Visited
  <2> QED BY <2>2, <2>3
<1> QED BY <1>5, <1>6, <1>7

\* What is visited has no operand that is still to be visited.
LEMMA VisitedOperands ==
  ASSUME Inv, Once, NEW i \in Id, cur = i, NEW j \in Id, Visited(j),
         prog.kind[j] # "phi", NEW s \in Slot
  PROVE  prog.args[j][s] # i
<1> SUFFICES ASSUME prog.args[j][s] = i
             PROVE  FALSE
  OBVIOUS
<1>1. Reaches(i, j)
  BY DEF Inv, OperandsBeforeUses
<1>2. cur # 0 /\ stamp \in [Id -> Nat]
  BY IdIsNat DEF Inv, TypeOK
<1>3. CASE home[i] = home[j]
  BY <1>1, <1>2, <1>3, PrecedesOrder DEF Reaches, Visited
<1>4. CASE home[i] # home[j]
  BY <1>1, <1>2, <1>4 DEF Reaches, Visited, Once, CurLast
<1> QED BY <1>3, <1>4

\* A move out of the loop does not make anything movable that does not use
\* what has moved.
LEMMA MoveFreesOnlyUsers ==
  ASSUME TypeOK, prog' = prog, loop' = loop, NEW i \in Id, NEW j \in Id \ {i},
         Movable(loop, i),
         \A k \in Id \ {i} : home'[k] = home[k],
         \A s \in Slot : prog.args[j][s] # i,
         Movable(loop, j)'
  PROVE  Movable(loop, j)
<1>1. prog.kind[i] \in Speculatable \cup {"load"}
  BY MovableOperands DEF Movable
<1>2. \A s \in Slot : Invariant(loop, prog.args[j][s])'
                        => Invariant(loop, prog.args[j][s])
  BY DEF Invariant, InLoop
<1>3. CASE Hoistable(loop, j)'
  BY <1>2, <1>3 DEF Hoistable, Movable
<1>4. CASE CanMoveLoad(loop, j)'
  <2>1. prog.kind[j] = "load" /\ Address(j) = prog.args[j][1]
    BY <1>4 DEF CanMoveLoad, Address, Stores
  <2>2. 1 \in Slot
    BY DEF Slot
  <2>3. \A x : IsAlloca(x)' <=> IsAlloca(x)
    BY DEF IsAlloca
  <2>4. \A k : Address(k)' = Address(k)
    BY DEF Address
  <2>5. \A x, y : IsSameAddress(x, y)' <=> IsSameAddress(x, y)
    BY <2>3 DEF IsSameAddress
  <2>6. MayWrite(loop) \subseteq MayWrite(loop)'
    BY <1>1 DEF MayWrite, InLoop, Speculatable, Stores
  <2>7. MayWrite(loop)' \subseteq MayWrite(loop)
    BY <1>1 DEF MayWrite, InLoop, Speculatable, Stores
  <2>8. MayWrite(loop)' = MayWrite(loop)
    BY <2>6, <2>7
  <2>9. Fixed(loop, Address(j))' => Fixed(loop, Address(j))
    BY <2>1, <2>2, <2>3, <2>4 DEF Fixed, InLoop, IsAlloca
  <2>10. DominatesAllExits(loop, j)' => DominatesAllExits(loop, j)
    BY DEF DominatesAllExits, Exits, Succs, Dominates
  <2>11. Invariant(loop, Address(j))' => Invariant(loop, Address(j))
    BY <1>2, <2>1, <2>2, <2>4
  <2> QED BY <1>4, <2>4, <2>5, <2>8, <2>9, <2>10, <2>11 DEF CanMoveLoad, Movable
<1> QED BY <1>3, <1>4 DEF Movable

LEMMA OnceMove ==
  ASSUME Inv, Once, NEW i \in Id, Hoist(i) \/ HoistLoad(i)
  PROVE  Once'
<1>1. /\ Visit(i) /\ MoveToPreheader(i) /\ Movable(loop, i)
      /\ cur = i /\ prog' = prog /\ loop' = loop /\ todo' = todo
      /\ TypeOK
  BY DEF Hoist, HoistLoad, Visit, Movable, Inv
<1>2. loop # {} /\ HasPreheader(loop) /\ InLoop(loop, i)
  BY <1>1, IdIsNat DEF Inv, CurInside, LoopOpen
<1>3. /\ Preheader(loop) \in Block \ loop
      /\ home'[i] = Preheader(loop)
      /\ \A j \in Id \ {i} : home'[j] = home[j] /\ stamp'[j] = stamp[j]
  BY <1>1, <1>2, MoveShape
<1>4. /\ EnteredFirst' /\ CurLast'
      /\ \A j \in Id \ {i} : Visited(j)' => Visited(j)
  BY <1>1, <1>3, VisitAdvances
<1>5. ASSUME NEW j \in Id, Visited(j)', Movable(loop, j)'
      PROVE  FALSE
  <2>1. j # i
    BY <1>1, <1>3, <1>5 DEF Visited, Entered
  <2>2. Visited(j)
    BY <1>4, <1>5, <2>1
  <2>3. prog.kind[j] # "phi"
    BY <1>1, <1>5 DEF Movable, Hoistable, CanMoveLoad, Speculatable
  <2>4. \A s \in Slot : prog.args[j][s] # i
    BY <1>1, <2>2, <2>3, VisitedOperands
  <2>5. Movable(loop, j)
    BY <1>1, <1>3, <1>5, <2>1, <2>4, MoveFreesOnlyUsers
  <2> QED BY <2>2, <2>5 DEF Once, VisitedStay
<1> QED BY <1>4, <1>5 DEF Once, VisitedStay

\* Where nothing moves, what is movable stays.
LEMMA SameMovable ==
  ASSUME UNCHANGED <<prog, home, loop>>, NEW i
  PROVE  Movable(loop, i)' <=> Movable(loop, i)
BY DEF Movable, Hoistable, CanMoveLoad, Invariant, InLoop, Fixed, Address,
   IsAlloca, IsSameAddress, MayWrite, DominatesAllExits, Exits, Succs, Dominates

LEMMA OnceVisit ==
  ASSUME Inv, Once, NEW i \in Id, CountStore(i) \/ Stay(i)
  PROVE  Once'
<1>1. Visit(i) /\ UNCHANGED <<prog, home, stamp, loop>>
  BY DEF CountStore, Stay, Visit
<1>2. /\ EnteredFirst' /\ CurLast'
      /\ \A j \in Id \ {i} : Visited(j)' => Visited(j)
  BY <1>1, VisitAdvances
<1>3. ~Movable(loop, i)
  BY DEF CountStore, CanMoveStore, Stay, Movable, Hoistable, CanMoveLoad,
     Speculatable
<1>4. ASSUME NEW j \in Id, Visited(j)'
      PROVE  ~Movable(loop, j)'
  BY <1>1, <1>2, <1>3, <1>4, SameMovable DEF Once, VisitedStay
<1> QED BY <1>2, <1>4 DEF Once, VisitedStay

\* Entering a block adds nothing to the visited.
LEMMA EnterBlockAdvances ==
  ASSUME Inv, NEW b \in Block, EnterBlock(b)
  PROVE  /\ Entered' = Entered \cup {b}
         /\ cur' # 0 => home'[cur'] = b
         /\ \A i \in Id : Visited(i)' => Visited(i)
<1>1. /\ UNCHANGED <<prog, home, stamp, loop>>
      /\ cur = 0 /\ b \in todo /\ todo' = todo \ {b} /\ cur' = First(In(b))
  BY DEF EnterBlock
<1>2. b \in loop /\ stamp \in [Id -> Nat] /\ In(b) \in SUBSET Id
  BY <1>1 DEF Inv, TypeOK, In
<1>3. Entered' = Entered \cup {b}
  BY <1>1, <1>2 DEF Entered
<1>4. cur' # 0 => home'[cur'] = b
  BY <1>1, <1>2, FirstIsMember DEF In
<1>5. ASSUME NEW i \in Id, Visited(i)'
      PROVE  Visited(i)
  <2>1. home[i] # b
    <3> SUFFICES ASSUME home[i] = b
                 PROVE  FALSE
      OBVIOUS
    <3>1. i \in In(b)
      BY DEF In
    <3>2. cur' \in In(b) /\ (i # cur' => Precedes(cur', i))
      BY <1>1, <1>2, <3>1, FirstSkipsNothing
    <3>3. cur' \in Id /\ cur' # 0
      BY <1>2, <3>2, IdIsNat
    <3>4. Precedes(i, cur)'
      BY <1>1, <1>4, <1>5, <3>3 DEF Visited
    <3>5. Precedes(i, cur')
      BY <1>1, <3>4 DEF Precedes
    <3> QED BY <1>2, <3>2, <3>3, <3>5, PrecedesOrder
  <2> QED BY <1>1, <1>3, <1>5, <2>1 DEF Visited
<1> QED BY <1>3, <1>4, <1>5

LEMMA OnceEnterBlock ==
  ASSUME Inv, Once, NEW b \in Block, EnterBlock(b)
  PROVE  Once'
<1>1. /\ UNCHANGED <<prog, home, stamp, loop>>
      /\ cur = 0 /\ b \in todo /\ todo' = todo \ {b}
      /\ \A c \in todo \ {b} : ~Dominates(c, b)
  BY DEF EnterBlock
<1>2. /\ Entered' = Entered \cup {b}
      /\ cur' # 0 => home'[cur'] = b
      /\ \A i \in Id : Visited(i)' => Visited(i)
  BY EnterBlockAdvances
<1>3. \A x, y : Dominates(x, y)' <=> Dominates(x, y)
  BY <1>1 DEF Dominates
<1>4. EnteredFirst'
  BY <1>1, <1>2, <1>3 DEF Once, EnteredFirst
<1>5. CurLast'
  BY <1>1, <1>2, <1>3 DEF Once, EnteredFirst, CurLast
<1>6. VisitedStay'
  BY <1>1, <1>2, SameMovable DEF Once, VisitedStay
<1> QED BY <1>4, <1>5, <1>6 DEF Once

\* Between loops nothing has been entered.
LEMMA OnceOutside ==
  ASSUME cur' = 0, loop' \ todo' = {}
  PROVE  Once'
<1>1. Entered' = {}
  BY DEF Entered
<1> QED BY <1>1 DEF Once, EnteredFirst, CurLast, VisitedStay, Visited

LEMMA OnceStep == Inv /\ Once /\ [Next]_vars => Once'
<1> SUFFICES ASSUME Inv, Once, [Next]_vars
             PROVE  Once'
  OBVIOUS
<1>1. ASSUME NEW l \in Loops[prog.graph], Enter(l) \/ SkipLoop(l)
      PROVE  Once'
  <2>1. cur' = 0 /\ loop' \ todo' = {}
    BY <1>1 DEF Enter, SkipLoop, Inv, CurInside
  <2> QED BY <2>1, OnceOutside
<1>2. CASE Leave
  <2>1. cur' = 0 /\ loop' \ todo' = {}
    BY <1>2 DEF Leave
  <2> QED BY <2>1, OnceOutside
<1>3. CASE UNCHANGED vars
  <2>1. UNCHANGED <<prog, home, stamp, loop, todo, cur>>
    BY <1>3 DEF vars
  <2>2. EnteredFirst' /\ CurLast'
    BY <2>1 DEF Once, EnteredFirst, CurLast, Entered, Dominates
  <2>3. ASSUME NEW i \in Id, Visited(i)'
        PROVE  ~Movable(loop, i)'
    <3>1. Visited(i)
      BY <2>1, <2>3 DEF Visited, Entered, Precedes
    <3> QED BY <2>1, <3>1, SameMovable DEF Once, VisitedStay
  <2> QED BY <2>2, <2>3 DEF Once, VisitedStay
<1> QED BY <1>1, <1>2, <1>3, OnceMove, OnceVisit, OnceEnterBlock DEF Next, Stopped

\* When a loop is left, nothing in it could still be moved out of it: the
\* single turn over its blocks and instructions is enough
\* (moveLoopInvariants, p3.cpp).
THEOREM LICMNothingLeft == Spec => NothingLeft
<1> DEFINE Exhausted == loop # {} /\ loop' = {} =>
                     \A i \in Id : InLoop(loop, i) =>
                       ~Hoistable(loop, i) /\ ~CanMoveLoad(loop, i)
<1>1. Init => Once
  BY DEF Init, Once, EnteredFirst, CurLast, VisitedStay, Visited, Entered
<1>2. Spec => []Once
  BY <1>1, OnceStep, InvHolds, PTL DEF Spec
<1>3. ASSUME Once, Leave
      PROVE  Exhausted
  <2>1. Entered = loop /\ cur = 0
    BY <1>3 DEF Leave, Entered
  <2>2. \A i \in Id : InLoop(loop, i) => ~Movable(loop, i)
    BY <1>3, <2>1 DEF Once, VisitedStay, Visited, InLoop
  <2> QED BY <2>2 DEF Movable
<1>4. Inv /\ Once /\ [Next]_vars => [Exhausted]_vars
  <2>1. ASSUME NEW l \in Loops[prog.graph], Enter(l) \/ SkipLoop(l)
        PROVE  Exhausted
    BY <2>1 DEF Enter, SkipLoop
  <2>2. ASSUME loop' = loop
        PROVE  Exhausted
    BY <2>2
  <2>3. ASSUME NEW i \in Id, Visit(i)
        PROVE  Exhausted
    BY <2>2, <2>3 DEF Visit
  <2> QED BY <1>3, <2>1, <2>2, <2>3 DEF Next, Stopped, vars, EnterBlock, Hoist,
          HoistLoad, CountStore, Stay
<1> QED BY <1>2, <1>4, InvHolds, PTL DEF Spec, NothingLeft

-----------------------------------------------------------------------------
(* Every turn brings the end nearer, whatever it moves: there is a loop    *)
(* fewer to deal with, or a loop to deal with is open, or it has a block   *)
(* fewer to enter, or the block entered last an instruction fewer ahead.   *)

ToVisit ==
  {i \in Id : cur # 0 /\ home[i] = home[cur] /\ (i = cur \/ Precedes(cur, i))}

GoesOn ==
  \/ done \subseteq done' /\ done' # done
  \/ done' = done /\ loop = {} /\ loop' # {}
  \/ UNCHANGED <<done, loop>> /\ todo' \subseteq todo /\ todo' # todo
  \/ UNCHANGED <<done, loop, todo>> /\ ToVisit' \subseteq ToVisit /\ ToVisit' # ToVisit

\* No loop is dealt with twice.
LoopUndone == loop # {} => loop \notin done

LEMMA FollowingIsLater ==
  ASSUME stamp \in [Id -> Nat], NEW i \in Id, Following(i) # 0
  PROVE  Precedes(i, Following(i))
<1> DEFINE S == {j \in In(home[i]) : Precedes(i, j)}
<1>1. S \in SUBSET Id
  BY DEF In
<1>2. Following(i) \in S
  BY <1>1, FirstIsMember DEF Following
<1> QED BY <1>2

LEMMA VisitGoesOn ==
  ASSUME Inv, NEW i \in Id, Visit(i),
         \A j \in Id \ {i} : home'[j] = home[j] /\ stamp'[j] = stamp[j],
         home'[i] # home[i] \/ stamp'[i] = stamp[i]
  PROVE  ToVisit' \subseteq ToVisit \ {i} /\ i \in ToVisit
<1>1. /\ stamp \in [Id -> Nat] /\ home \in [Id -> Block]
      /\ cur = i /\ cur # 0 /\ cur' = Following(i) /\ prog' = prog
  BY IdIsNat DEF Inv, TypeOK, Visit
<1>2. i \in ToVisit
  BY <1>1 DEF ToVisit
<1>3. ASSUME NEW j \in ToVisit'
      PROVE  j \in ToVisit \ {i}
  <2>0. PICK f : f = Following(i)
    OBVIOUS
  <2>1. /\ f # 0 /\ j \in Id /\ home'[j] = home'[f]
        /\ j = f \/ Precedes(f, j)'
    BY <1>1, <1>3, <2>0 DEF ToVisit
  <2>2. /\ f \in Id \ {i} /\ home[f] = home[i] /\ Precedes(i, f)
    BY <1>1, <2>0, <2>1, FollowingFacts, FollowingIsLater
  <2>3. home'[f] = home[f] /\ stamp'[f] = stamp[f]
    BY <2>2
  <2>4. CASE j = f
    BY <1>1, <2>2, <2>4 DEF ToVisit
  <2>5. CASE j # f /\ j # i
    <3>1. home'[j] = home[j] /\ stamp'[j] = stamp[j]
      BY <2>1, <2>5
    <3>2. Precedes(f, j)
      BY <1>1, <2>1, <2>3, <2>5, <3>1 DEF Precedes
    <3>3. Precedes(i, j)
      BY <1>1, <2>1, <2>2, <3>2, PrecedesTransitive
    <3> QED BY <1>1, <2>0, <2>1, <2>2, <2>3, <2>5, <3>1, <3>3 DEF ToVisit
  <2>6. CASE j = i
    <3>1. home'[i] = home[i] /\ stamp'[i] = stamp[i] /\ Precedes(f, i)'
      BY <2>1, <2>2, <2>3, <2>6
    <3>2. Precedes(f, i)
      BY <1>1, <2>3, <3>1 DEF Precedes
    <3> QED BY <1>1, <2>2, <3>2, PrecedesOrder
  <2> QED BY <2>4, <2>5, <2>6
<1> QED BY <1>2, <1>3

LEMMA MoveGoesOn ==
  ASSUME Inv, NEW i \in Id, Hoist(i) \/ HoistLoad(i)
  PROVE  GoesOn
<1>1. Visit(i) /\ MoveToPreheader(i)
  BY DEF Hoist, HoistLoad
<1>2. /\ TypeOK /\ cur = i /\ UNCHANGED <<prog, done, loop, todo>>
  BY <1>1 DEF Inv, Visit
<1>3. loop # {} /\ HasPreheader(loop) /\ InLoop(loop, i)
  BY <1>2, IdIsNat DEF Inv, CurInside, LoopOpen
<1>4. /\ Preheader(loop) \in Block \ loop /\ home'[i] = Preheader(loop)
      /\ \A j \in Id \ {i} : home'[j] = home[j] /\ stamp'[j] = stamp[j]
  BY <1>1, <1>2, <1>3, MoveShape
<1>5. home'[i] # home[i]
  BY <1>3, <1>4 DEF InLoop
<1>6. ToVisit' \subseteq ToVisit \ {i} /\ i \in ToVisit
  BY <1>1, <1>4, <1>5, VisitGoesOn
<1> QED BY <1>2, <1>6 DEF GoesOn

LEMMA StayGoesOn ==
  ASSUME Inv, NEW i \in Id, CountStore(i) \/ Stay(i)
  PROVE  GoesOn
<1>1. Visit(i) /\ UNCHANGED <<home, stamp, done, loop, todo>>
  BY DEF CountStore, Stay, Visit
<1>2. ToVisit' \subseteq ToVisit \ {i} /\ i \in ToVisit
  BY <1>1, VisitGoesOn
<1> QED BY <1>1, <1>2 DEF GoesOn

LEMMA LoopNotEmpty ==
  ASSUME Inv, NEW l \in Loops[prog.graph]
  PROVE  l # {}
<1>1. prog.graph \in Graph
  BY DEF Inv, TypeOK, IsProgram
<1> QED BY <1>1, LoopAssumption

LEMMA UndoneStep == Inv /\ LoopUndone /\ [Next]_vars => LoopUndone'
<1> SUFFICES ASSUME Inv, LoopUndone, [Next]_vars
             PROVE  LoopUndone'
  OBVIOUS
<1>1. ASSUME NEW l \in Loops[prog.graph], Enter(l) \/ SkipLoop(l)
      PROVE  LoopUndone'
  BY <1>1 DEF Enter, SkipLoop, IsNext, LoopUndone
<1>2. CASE UNCHANGED <<done, loop>>
  BY <1>2 DEF LoopUndone
<1>3. CASE Leave
  BY <1>3 DEF Leave, LoopUndone
<1> QED BY <1>1, <1>2, <1>3 DEF Next, Stopped, vars, EnterBlock, Hoist, HoistLoad,
        CountStore, Stay, Visit

\* The recursion over the nest of loops and the turns over blocks and
\* instructions never go round in circles, although instructions move under
\* the iterator and join blocks that other loops are still to visit: in the
\* lexicographic order of loops, blocks and instructions left, each of them
\* finitely many, every turn lowers what there is still to do.
THEOREM LICMGoesOn == Spec => [][GoesOn]_vars
<1>1. Init => LoopUndone
  BY DEF Init, LoopUndone
<1>2. Spec => []LoopUndone
  BY <1>1, UndoneStep, InvHolds, PTL DEF Spec
<1>3. Inv /\ LoopUndone /\ [Next]_vars => [GoesOn]_vars
  <2> SUFFICES ASSUME Inv, LoopUndone, [Next]_vars
               PROVE  [GoesOn]_vars
    OBVIOUS
  <2>1. ASSUME NEW l \in Loops[prog.graph], Enter(l)
        PROVE  GoesOn
    BY <2>1, LoopNotEmpty DEF Enter, GoesOn
  <2>2. ASSUME NEW l \in Loops[prog.graph], SkipLoop(l)
        PROVE  GoesOn
    BY <2>2 DEF SkipLoop, IsNext, GoesOn
  <2>3. ASSUME NEW b \in Block, EnterBlock(b)
        PROVE  GoesOn
    BY <2>3 DEF EnterBlock, GoesOn
  <2>4. CASE Leave
    BY <2>4 DEF Leave, LoopUndone, GoesOn
  <2> QED BY <2>1, <2>2, <2>3, <2>4, MoveGoesOn, StayGoesOn DEF Next, Stopped
<1> QED BY <1>2, <1>3, InvHolds, PTL DEF Spec

-----------------------------------------------------------------------------
(* The statistics.  Loops that are still to come have the instructions     *)
(* they were parsed with, as what leaves a loop inside them stays with     *)
(* them; so an open loop has lost only what has been counted, and what is  *)
(* done can be counted in the source.                                      *)

Unready(D)    == {l \in D : ~HasPreheader(l)}
Without(D, K) == {l \in D : HasPreheader(l) /\ Had(l, K) = {}}
With(D, K)    == {l \in D : HasPreheader(l) /\ Had(l, K) # {}}
LoadsOnly(D)  == Without(D, Stores) \cap With(D, Loads)

\* The loops that are still to come have what they were parsed with.
StillWhole ==
  \A l \in Loops[prog.graph] \ done : l # loop =>
    \A i \in Id : home[i] \in l <=> prog.blk[i] \in l

\* The open loop has nothing new, and the loops inside it are done.
OpenLoop ==
  loop # {} =>
    /\ loop \notin done
    /\ \A i \in Id : InLoop(loop, i) => prog.blk[i] \in loop
    /\ \A m \in Loops[prog.graph] : m \subseteq loop /\ m # loop => m \in done

\* Number n tells of the kinds K in the open loop.
Tells(n, K) ==
  /\ n > 0 => Had(loop, K) # {}
  /\ n = 0 => \A i \in Had(loop, K) : InLoop(loop, i) /\ ~Visited(i)

SeenTells ==
  loop # {} => /\ Tells(seen.load, Loads)
               /\ Tells(seen.store, Stores)
               /\ Tells(seen.call, {"call"})

Tallied ==
  /\ IsFiniteSet(done)
  /\ stats["Loops"] = Cardinality(done) + (IF loop = {} THEN 0 ELSE 1)
  /\ stats["NoPreheader"] = Cardinality(Unready(done))
  /\ stats["NoLoad"] = Cardinality(Without(done, Loads))
  /\ stats["NoStore"] = Cardinality(Without(done, Stores))
  /\ stats["WithCall"] = Cardinality(With(done, {"call"}))
  /\ stats["NoStoreWithLoad"] = Cardinality(LoadsOnly(done))

Counted == StillWhole /\ OpenLoop /\ SeenTells /\ Tallied

\* No loop is empty.
LEMMA LoopsNotEmpty ==
  ASSUME prog.graph \in Graph, NEW l \in Loops[prog.graph]
  PROVE  l # {} /\ l \subseteq Block
BY LoopAssumption

LEMMA CountOneMore ==
  ASSUME NEW D, IsFiniteSet(D), NEW x, x \notin D, NEW T, T \subseteq D
  PROVE  /\ Cardinality(T) \in Nat
         /\ Cardinality(T \cup {x}) = Cardinality(T) + 1
<1>1. IsFiniteSet(T)
  BY FS_Subset
<1>2. x \notin T
  OBVIOUS
<1> QED BY <1>1, <1>2, FS_AddElement, FS_CardinalityType

\* A preheader is in the loops around its own and in no other.
LEMMA PreheaderInNest ==
  ASSUME prog.graph \in Graph, NEW l \in Loops[prog.graph], HasPreheader(l),
         NEW m \in Loops[prog.graph], l # m
  PROVE  Preheader(l) \in m <=> l \subseteq m
<1> DEFINE D == Dom[prog.graph]
           E == Edge[prog.graph]
           h == Header(l)
<1>1. /\ l \subseteq Block
      /\ \E b \in l : \A c \in l : <<b, c>> \in D
  BY LoopAssumption
<1>2. h \in l /\ \A c \in l : <<h, c>> \in D
  BY <1>1 DEF Header, Dominates
<1>3. PICK b \in Block : Entering(l) = {b} /\ Succs(b) = {h}
  BY DEF HasPreheader
<1>4. Preheader(l) = b
  BY <1>3 DEF Preheader
<1>5. {x \in Block \ l : <<x, h>> \in E} = {b}
  BY <1>1, <1>2, <1>3 DEF Entering, Succs
<1>6. {x \in Block : <<b, x>> \in E} = {h}
  BY <1>3 DEF Succs
<1>7. b \in Block \ l
  BY <1>5
<1>8. b \in m <=> l \subseteq m
  BY <1>2, <1>5, <1>6, <1>7, NestAssumption
<1> QED BY <1>4, <1>8

\* What moves leaves the open loop and no other that is still to come.
LEMMA MoveInNest ==
  ASSUME Inv, Counted, NEW i \in Id, Hoist(i) \/ HoistLoad(i)
  PROVE  StillWhole' /\ OpenLoop'
<1>1. /\ Visit(i) /\ MoveToPreheader(i)
      /\ cur = i /\ prog' = prog /\ loop' = loop /\ done' = done
      /\ TypeOK
  BY DEF Hoist, HoistLoad, Visit, Inv
<1>2. loop # {} /\ HasPreheader(loop) /\ InLoop(loop, i)
  BY <1>1, IdIsNat DEF Inv, CurInside, LoopOpen
<1>3. /\ Preheader(loop) \in Block \ loop
      /\ home'[i] = Preheader(loop)
      /\ \A j \in Id \ {i} : home'[j] = home[j]
  BY <1>1, <1>2, MoveShape
<1>4. prog.graph \in Graph /\ loop \in Loops[prog.graph] /\ home[i] \in loop
  BY <1>1, <1>2 DEF TypeOK, IsProgram, InLoop
<1>5. ASSUME NEW l \in Loops[prog.graph] \ done, l # loop, NEW j \in Id
      PROVE  home'[j] \in l <=> prog.blk[j] \in l
  <2>1. home[j] \in l <=> prog.blk[j] \in l
    BY <1>5 DEF Counted, StillWhole
  <2>2. home'[i] \in l <=> loop \subseteq l
    BY <1>2, <1>3, <1>4, <1>5, PreheaderInNest
  <2>3. ~(l \subseteq loop)
    BY <1>2, <1>5 DEF Counted, OpenLoop
  <2>4. loop \subseteq l \/ l \cap loop = {}
    BY <1>4, <1>5, <2>3, NestAssumption
  <2>5. home'[i] \in l <=> home[i] \in l
    BY <1>4, <2>2, <2>4
  <2> QED BY <1>3, <2>1, <2>5
<1>6. StillWhole'
  BY <1>1, <1>5 DEF StillWhole
<1>7. OpenLoop'
  BY <1>1, <1>3 DEF Counted, OpenLoop, InLoop
<1> QED BY <1>6, <1>7

\* Where nothing moves and no loop is entered or left, loops stay as they are.
LEMMA SameNest ==
  ASSUME Counted, UNCHANGED <<prog, home, done, loop>>
  PROVE  StillWhole' /\ OpenLoop'
BY DEF Counted, StillWhole, OpenLoop, InLoop

\* A turn of the inner loop counts its instruction.
LEMMA VisitTells ==
  ASSUME Inv, Counted, Once, NEW i \in Id, Visit(i),
         \A j \in Id \ {i} : home'[j] = home[j] /\ stamp'[j] = stamp[j],
         NEW n \in Nat, NEW K, Tells(n, K)
  PROVE  Tells(n + (IF prog.kind[i] \in K THEN 1 ELSE 0), K)'
<1>1. /\ cur = i /\ prog' = prog /\ loop' = loop
      /\ \A j \in Id \ {i} : Visited(j)' => Visited(j)
  BY VisitAdvances DEF Visit
<1>2. Had(loop, K)' = Had(loop, K)
  BY <1>1 DEF Had
<1>3. CASE prog.kind[i] \in K
  <2>1. loop # {} /\ InLoop(loop, i)
    BY <1>1, IdIsNat DEF Inv, CurInside
  <2>2. i \in Had(loop, K)
    BY <1>3, <2>1 DEF Counted, OpenLoop, Had
  <2> QED BY <1>1, <1>2, <1>3, <2>2 DEF Tells
<1>4. CASE prog.kind[i] \notin K
  <2>1. i \notin Had(loop, K)
    BY <1>4 DEF Had
  <2>2. ASSUME n = 0, NEW j \in Had(loop, K)
        PROVE  InLoop(loop, j)' /\ ~Visited(j)'
    <3>1. InLoop(loop, j) /\ ~Visited(j) /\ j \in Id \ {i}
      BY <2>1, <2>2 DEF Tells, Had
    <3> QED BY <1>1, <3>1 DEF InLoop
  <2>3. n > 0 => Had(loop, K) # {}
    BY DEF Tells
  <2> QED BY <1>1, <1>2, <1>4, <2>2, <2>3 DEF Tells
<1> QED BY <1>3, <1>4

LEMMA VisitSeen ==
  ASSUME Inv, Counted, Once, NEW i \in Id, Visit(i),
         \A j \in Id \ {i} : home'[j] = home[j] /\ stamp'[j] = stamp[j]
  PROVE  SeenTells'
<1>1. /\ seen.load \in Nat /\ seen.store \in Nat /\ seen.call \in Nat
      /\ cur = i /\ prog' = prog
  BY DEF Inv, TypeOK, Visit
<1>2. loop # {}
  BY <1>1, IdIsNat DEF Inv, CurInside
<1>3. PICK n1 \in Nat, n2 \in Nat, n3 \in Nat :
        n1 = seen.load /\ n2 = seen.store /\ n3 = seen.call
  BY <1>1
<1> DEFINE m1 == n1 + (IF prog.kind[i] \in Loads THEN 1 ELSE 0)
           m2 == n2 + (IF prog.kind[i] \in Stores THEN 1 ELSE 0)
           m3 == n3 + (IF prog.kind[i] \in {"call"} THEN 1 ELSE 0)
<1>4. Tells(n1, Loads) /\ Tells(n2, Stores) /\ Tells(n3, {"call"})
  BY <1>2, <1>3 DEF Counted, SeenTells
<1>5. Tells(m1, Loads)'
  BY <1>4, VisitTells
<1>6. Tells(m2, Stores)'
  BY <1>4, VisitTells
<1>7. Tells(m3, {"call"})'
  BY <1>4, VisitTells
<1>8. seen'.load = m1' /\ seen'.store = m2' /\ seen'.call = m3'
  BY <1>1, <1>3 DEF Visit, See
<1> HIDE DEF m1, m2, m3
<1> QED BY <1>5, <1>6, <1>7, <1>8 DEF SeenTells, Tells

\* Counters of other things leave the tally alone.
LEMMA SameTally ==
  ASSUME Counted, UNCHANGED <<prog, done, loop>>,
         \A c \in Counter \ {"Basic", "LoadHoist", "StoreSink"} :
           stats'[c] = stats[c]
  PROVE  Tallied'
<1>1. \A l : HasPreheader(l)' <=> HasPreheader(l)
  BY SamePreheader
<1>2. \A l, K : Had(l, K)' = Had(l, K)
  BY DEF Had
<1>3. /\ Unready(done)' = Unready(done)
      /\ \A K : Without(done, K)' = Without(done, K)
      /\ \A K : With(done, K)' = With(done, K)
  BY <1>1, <1>2 DEF Unready, Without, With
<1>4. LoadsOnly(done)' = LoadsOnly(done)
  BY <1>3 DEF LoadsOnly
<1> QED BY <1>3, <1>4 DEF Counted, Tallied, Counter

LEMMA CountedInit == Inv /\ Init => Counted
<1> SUFFICES ASSUME Inv, Init
             PROVE  Counted
  OBVIOUS
<1>1. /\ home = prog.blk /\ done = {} /\ loop = {}
      /\ stats = [c \in Counter |-> 0]
  BY DEF Init
<1>2. StillWhole /\ OpenLoop /\ SeenTells
  BY <1>1 DEF StillWhole, OpenLoop, SeenTells
<1>3. /\ Unready(done) = {} /\ LoadsOnly(done) = {}
      /\ \A K : Without(done, K) = {} /\ With(done, K) = {}
  BY <1>1 DEF Unready, LoadsOnly, Without, With
<1>4. Tallied
  BY <1>1, <1>3, FS_EmptySet DEF Tallied, Counter
<1> QED BY <1>2, <1>4 DEF Counted

\* An open loop is as it was parsed.
LEMMA CountedEnter ==
  ASSUME Inv, Counted, NEW l \in Loops[prog.graph], Enter(l)
  PROVE  Counted'
<1>1. /\ UNCHANGED <<prog, home, stamp, done, cur>>
      /\ loop = {} /\ loop' = l /\ todo' = l /\ seen' = Nothing
      /\ IsNext(l) /\ Count("Loops")
  BY DEF Enter
<1>2. prog.graph \in Graph /\ l # {} /\ l \in Loops[prog.graph] \ done
  BY <1>1, LoopsNotEmpty DEF Inv, TypeOK, IsProgram, IsNext
<1>3. \A i \in Id : home[i] \in l <=> prog.blk[i] \in l
  BY <1>1, <1>2 DEF Counted, StillWhole
<1>4. StillWhole'
  <2>1. \A m \in Loops[prog.graph] : m # loop
    BY <1>1, <1>2, LoopsNotEmpty
  <2> QED BY <1>1, <2>1 DEF Counted, StillWhole
<1>5. OpenLoop'
  BY <1>1, <1>2, <1>3 DEF OpenLoop, InLoop, IsNext
<1>6. \A K : Tells(0, K)'
  <2>1. ASSUME NEW K, NEW i \in Had(l, K)
        PROVE  InLoop(l, i)' /\ ~Visited(i)'
    <3>1. InLoop(l, i)'
      BY <1>1, <1>3, <2>1 DEF Had, InLoop
    <3>2. Entered' = {}
      BY <1>1 DEF Entered
    <3> QED BY <3>1, <3>2 DEF Visited
  <2> QED BY <1>1, <2>1 DEF Tells, Had, InLoop
<1>7. SeenTells'
  <2>1. seen'.load = 0 /\ seen'.store = 0 /\ seen'.call = 0
    BY <1>1 DEF Nothing
  <2> QED BY <1>6, <2>1 DEF SeenTells, Tells
<1>8. Tallied'
  <2>1. \A m : HasPreheader(m)' <=> HasPreheader(m)
    BY <1>1, SamePreheader
  <2>2. \A m, K : Had(m, K)' = Had(m, K)
    BY <1>1 DEF Had
  <2>3. /\ Unready(done)' = Unready(done)
        /\ \A K : Without(done, K)' = Without(done, K)
        /\ \A K : With(done, K)' = With(done, K)
    BY <1>1, <2>1, <2>2 DEF Unready, Without, With
  <2>4. LoadsOnly(done)' = LoadsOnly(done)
    BY <2>3 DEF LoadsOnly
  <2>5. /\ stats'["Loops"] = stats["Loops"] + 1
        /\ \A c \in Counter \ {"Loops"} : stats'[c] = stats[c]
    BY <1>1 DEF Count, Inv, TypeOK, Counter
  <2>6. stats["Loops"] = Cardinality(done) /\ Cardinality(done) \in Nat
    BY <1>1, FS_CardinalityType DEF Counted, Tallied
  <2> QED BY <1>1, <1>2, <2>3, <2>4, <2>5, <2>6 DEF Counted, Tallied, Counter
<1> QED BY <1>4, <1>5, <1>7, <1>8 DEF Counted

\* How the numbers grow when one more loop is done.
LEMMA OneMoreDone ==
  ASSUME Counted, NEW l \in Loops[prog.graph] \ done,
         prog' = prog, done' = done \cup {l}
  PROVE  /\ IsFiniteSet(done')
         /\ Cardinality(done)' = Cardinality(done) + 1
         /\ Cardinality(Unready(done))'
              = Cardinality(Unready(done)) + (IF HasPreheader(l) THEN 0 ELSE 1)
         /\ \A K : Cardinality(Without(done, K))'
              = Cardinality(Without(done, K))
                  + (IF HasPreheader(l) /\ Had(l, K) = {} THEN 1 ELSE 0)
         /\ \A K : Cardinality(With(done, K))'
              = Cardinality(With(done, K))
                  + (IF HasPreheader(l) /\ Had(l, K) # {} THEN 1 ELSE 0)
         /\ Cardinality(LoadsOnly(done))'
              = Cardinality(LoadsOnly(done))
                  + (IF HasPreheader(l) /\ Had(l, Stores) = {} /\ Had(l, Loads) # {}
                     THEN 1 ELSE 0)
<1>1. IsFiniteSet(done) /\ l \notin done
  BY DEF Counted, Tallied
<1>2. \A T : T \subseteq done => /\ Cardinality(T) \in Nat
                                 /\ Cardinality(T \cup {l}) = Cardinality(T) + 1
  BY <1>1, CountOneMore
<1>3. \A m : HasPreheader(m)' <=> HasPreheader(m)
  BY SamePreheader
<1>4. \A m, K : Had(m, K)' = Had(m, K)
  BY DEF Had
<1>5. IsFiniteSet(done')
  BY <1>1, FS_AddElement
<1>6. Cardinality(done)' = Cardinality(done) + 1
  BY <1>2
<1>7. /\ HasPreheader(l) => Unready(done)' = Unready(done)
      /\ ~HasPreheader(l) => Unready(done)' = Unready(done) \cup {l}
  BY <1>3 DEF Unready
<1>8. ASSUME NEW K
      PROVE  IF HasPreheader(l) /\ Had(l, K) = {}
             THEN Without(done, K)' = Without(done, K) \cup {l}
             ELSE Without(done, K)' = Without(done, K)
  BY <1>3, <1>4 DEF Without
<1>9. ASSUME NEW K
      PROVE  IF HasPreheader(l) /\ Had(l, K) # {}
             THEN With(done, K)' = With(done, K) \cup {l}
             ELSE With(done, K)' = With(done, K)
  BY <1>3, <1>4 DEF With
<1>10. /\ Unready(done) \subseteq done
       /\ \A K : Without(done, K) \subseteq done /\ With(done, K) \subseteq done
       /\ LoadsOnly(done) \subseteq done
  BY DEF Unready, Without, With, LoadsOnly
<1>11. IF HasPreheader(l) /\ Had(l, Stores) = {} /\ Had(l, Loads) # {}
       THEN LoadsOnly(done)' = LoadsOnly(done) \cup {l}
       ELSE LoadsOnly(done)' = LoadsOnly(done)
  <2>1. l \notin Without(done, Stores) /\ l \notin With(done, Loads)
    BY <1>1, <1>10
  <2>2. /\ l \in Without(done, Stores)' <=> HasPreheader(l) /\ Had(l, Stores) = {}
        /\ l \in With(done, Loads)' <=> HasPreheader(l) /\ Had(l, Loads) # {}
    BY <1>8, <1>9, <2>1
  <2>3. /\ \A m : m # l => (m \in Without(done, Stores)' <=> m \in Without(done, Stores))
        /\ \A m : m # l => (m \in With(done, Loads)' <=> m \in With(done, Loads))
    BY <1>8, <1>9
  <2> QED BY <2>1, <2>2, <2>3 DEF LoadsOnly
<1>12. /\ Cardinality(Unready(done)) \in Nat
       /\ \A K : /\ Cardinality(Without(done, K)) \in Nat
                 /\ Cardinality(With(done, K)) \in Nat
       /\ Cardinality(LoadsOnly(done)) \in Nat
  BY <1>2, <1>10
<1>13. Cardinality(Unready(done))'
         = Cardinality(Unready(done)) + (IF HasPreheader(l) THEN 0 ELSE 1)
  <2>1. CASE HasPreheader(l)
    BY <1>7, <1>12, <2>1
  <2>2. CASE ~HasPreheader(l)
    BY <1>2, <1>7, <1>10, <2>2
  <2> QED BY <2>1, <2>2
<1>14. ASSUME NEW K
       PROVE  Cardinality(Without(done, K))' = Cardinality(Without(done, K))
                + (IF HasPreheader(l) /\ Had(l, K) = {} THEN 1 ELSE 0)
  <2>1. CASE HasPreheader(l) /\ Had(l, K) = {}
    BY <1>2, <1>8, <1>10, <2>1
  <2>2. CASE ~(HasPreheader(l) /\ Had(l, K) = {})
    BY <1>8, <1>12, <2>2
  <2> QED BY <2>1, <2>2
<1>15. ASSUME NEW K
       PROVE  Cardinality(With(done, K))' = Cardinality(With(done, K))
                + (IF HasPreheader(l) /\ Had(l, K) # {} THEN 1 ELSE 0)
  <2>1. CASE HasPreheader(l) /\ Had(l, K) # {}
    BY <1>2, <1>9, <1>10, <2>1
  <2>2. CASE ~(HasPreheader(l) /\ Had(l, K) # {})
    BY <1>9, <1>12, <2>2
  <2> QED BY <2>1, <2>2
<1>16. Cardinality(LoadsOnly(done))' = Cardinality(LoadsOnly(done))
         + (IF HasPreheader(l) /\ Had(l, Stores) = {} /\ Had(l, Loads) # {}
            THEN 1 ELSE 0)
  <2> DEFINE B == HasPreheader(l) /\ Had(l, Stores) = {} /\ Had(l, Loads) # {}
  <2>1. CASE B
    BY <1>2, <1>10, <1>11, <2>1
  <2>2. CASE ~B
    BY <1>11, <1>12, <2>2
  <2> QED BY <2>1, <2>2
<1> QED BY <1>5, <1>6, <1>13, <1>14, <1>15, <1>16

LEMMA CountedSkipLoop ==
  ASSUME Inv, Counted, NEW l \in Loops[prog.graph], SkipLoop(l)
  PROVE  Counted'
<1>1. /\ UNCHANGED <<prog, home, stamp, loop, todo, cur, seen>>
      /\ loop = {} /\ done' = done \cup {l} /\ l \notin done /\ ~HasPreheader(l)
      /\ stats' = [stats EXCEPT !["Loops"] = @ + 1, !["NoPreheader"] = @ + 1]
  BY DEF SkipLoop, IsNext
<1>2. StillWhole' /\ OpenLoop' /\ SeenTells'
  BY <1>1 DEF Counted, StillWhole, OpenLoop, SeenTells
<1>3. Tallied'
  <2>1. /\ stats'["Loops"] = stats["Loops"] + 1
        /\ stats'["NoPreheader"] = stats["NoPreheader"] + 1
        /\ \A c \in Counter \ {"Loops", "NoPreheader"} : stats'[c] = stats[c]
    BY <1>1 DEF Inv, TypeOK, Counter
  <2>2. \A c \in Counter : stats[c] \in Nat
    BY DEF Inv, TypeOK
  <2>3. /\ stats["Loops"] = Cardinality(done)
        /\ stats["NoPreheader"] = Cardinality(Unready(done))
        /\ stats["NoLoad"] = Cardinality(Without(done, Loads))
        /\ stats["NoStore"] = Cardinality(Without(done, Stores))
        /\ stats["WithCall"] = Cardinality(With(done, {"call"}))
        /\ stats["NoStoreWithLoad"] = Cardinality(LoadsOnly(done))
    BY <1>1, FS_CardinalityType DEF Counted, Tallied
  <2>4. /\ IsFiniteSet(done')
        /\ Cardinality(done)' = Cardinality(done) + 1
        /\ Cardinality(Unready(done))' = Cardinality(Unready(done)) + 1
        /\ Cardinality(Without(done, Loads))' = Cardinality(Without(done, Loads)) + 0
        /\ Cardinality(Without(done, Stores))' = Cardinality(Without(done, Stores)) + 0
        /\ Cardinality(With(done, {"call"}))' = Cardinality(With(done, {"call"})) + 0
        /\ Cardinality(LoadsOnly(done))' = Cardinality(LoadsOnly(done)) + 0
    BY <1>1, OneMoreDone
  <2>5. stats'["Loops"] = Cardinality(done)'
    BY <2>1, <2>3, <2>4
  <2>6. stats'["NoPreheader"] = Cardinality(Unready(done))'
    BY <2>1, <2>3, <2>4
  <2>7. /\ stats'["NoLoad"] = Cardinality(Without(done, Loads))'
        /\ stats'["NoStore"] = Cardinality(Without(done, Stores))'
        /\ stats'["WithCall"] = Cardinality(With(done, {"call"}))'
        /\ stats'["NoStoreWithLoad"] = Cardinality(LoadsOnly(done))'
    BY <2>1, <2>2, <2>3, <2>4 DEF Counter
  <2>8. stats'["Loops"] = stats'["Loops"] + 0
    BY <2>1, <2>2 DEF Counter
  <2> QED BY <1>1, <2>4, <2>5, <2>6, <2>7, <2>8 DEF Tallied
<1> QED BY <1>2, <1>3 DEF Counted

LEMMA CountedEnterBlock ==
  ASSUME Inv, Counted, NEW b \in Block, EnterBlock(b)
  PROVE  Counted'
<1>1. /\ UNCHANGED <<prog, home, stamp, done, loop, seen, stats>>
      /\ \A i \in Id : Visited(i)' => Visited(i)
  BY EnterBlockAdvances DEF EnterBlock
<1>2. SeenTells'
  BY <1>1 DEF Counted, SeenTells, Tells, Had, InLoop
<1>3. Tallied'
  BY <1>1, SameTally
<1> QED BY <1>1, <1>2, <1>3, SameNest DEF Counted

LEMMA CountedMove ==
  ASSUME Inv, Counted, Once, NEW i \in Id, Hoist(i) \/ HoistLoad(i)
  PROVE  Counted'
<1>1. /\ Visit(i) /\ MoveToPreheader(i)
      /\ UNCHANGED <<prog, done, loop>>
      /\ Count("Basic") \/ Count("LoadHoist")
  BY DEF Hoist, HoistLoad, Visit
<1>2. \A j \in Id \ {i} : home'[j] = home[j] /\ stamp'[j] = stamp[j]
  BY <1>1 DEF MoveToPreheader, Inv, TypeOK
<1>3. \A c \in Counter \ {"Basic", "LoadHoist", "StoreSink"} : stats'[c] = stats[c]
  BY <1>1 DEF Count, Inv, TypeOK
<1> QED BY <1>1, <1>2, <1>3, MoveInNest, VisitSeen, SameTally DEF Counted

LEMMA CountedVisit ==
  ASSUME Inv, Counted, Once, NEW i \in Id, CountStore(i) \/ Stay(i)
  PROVE  Counted'
<1>1. Visit(i) /\ UNCHANGED <<prog, home, stamp, done, loop>>
  BY DEF CountStore, Stay, Visit
<1>2. \A c \in Counter \ {"Basic", "LoadHoist", "StoreSink"} : stats'[c] = stats[c]
  BY DEF CountStore, Stay, Count, Inv, TypeOK
<1> QED BY <1>1, <1>2, SameNest, VisitSeen, SameTally DEF Counted

\* A loop that is left has been seen to its end: what has not been counted is
\* not there.
LEMMA CountedLeave ==
  ASSUME Inv, Counted, Leave
  PROVE  Counted'
<1>1. /\ UNCHANGED <<prog, home, stamp, todo, cur, seen>>
      /\ loop # {} /\ todo = {} /\ cur = 0
      /\ done' = done \cup {loop} /\ loop' = {}
  BY DEF Leave
<1>2. /\ loop \in Loops[prog.graph] \ done
      /\ HasPreheader(loop)
  BY <1>1 DEF Inv, TypeOK, LoopOpen, Counted, OpenLoop
<1>3. \A i \in Id : InLoop(loop, i) => Visited(i)
  BY <1>1 DEF Visited, Entered, InLoop
<1>4. ASSUME NEW n \in Nat, NEW K, Tells(n, K)
      PROVE  n = 0 <=> Had(loop, K) = {}
  <2>1. n = 0 => Had(loop, K) = {}
    BY <1>3, <1>4 DEF Tells, Had
  <2>2. n > 0 => Had(loop, K) # {}
    BY <1>4 DEF Tells
  <2> QED BY <2>1, <2>2
<1>5. /\ seen.load \in Nat /\ seen.store \in Nat /\ seen.call \in Nat
      /\ seen.load = 0 <=> Had(loop, Loads) = {}
      /\ seen.store = 0 <=> Had(loop, Stores) = {}
      /\ seen.call = 0 <=> Had(loop, {"call"}) = {}
  <2>1. seen.load \in Nat /\ seen.store \in Nat /\ seen.call \in Nat
    BY DEF Inv, TypeOK
  <2> QED BY <1>1, <1>4, <2>1 DEF Counted, SeenTells
<1>6. StillWhole' /\ OpenLoop' /\ SeenTells'
  BY <1>1 DEF Counted, StillWhole, OpenLoop, SeenTells
<1>7. Tallied'
  <2>1. \A c \in Counter : stats[c] \in Nat
    BY DEF Inv, TypeOK
  <2>2. /\ stats'["WithCall"]
             = stats["WithCall"] + (IF Had(loop, {"call"}) # {} THEN 1 ELSE 0)
        /\ stats'["NoStore"]
             = stats["NoStore"] + (IF Had(loop, Stores) = {} THEN 1 ELSE 0)
        /\ stats'["NoLoad"]
             = stats["NoLoad"] + (IF Had(loop, Loads) = {} THEN 1 ELSE 0)
        /\ stats'["NoStoreWithLoad"]
             = stats["NoStoreWithLoad"]
                 + (IF Had(loop, Stores) = {} /\ Had(loop, Loads) # {}
                    THEN 1 ELSE 0)
    BY <1>5 DEF Leave, Inv, TypeOK, Counter
  <2>3. /\ stats'["Loops"] = stats["Loops"]
        /\ stats'["NoPreheader"] = stats["NoPreheader"]
    BY DEF Leave, Inv, TypeOK, Counter
  <2>4. /\ stats["Loops"] = Cardinality(done) + 1
        /\ stats["NoPreheader"] = Cardinality(Unready(done))
        /\ stats["NoLoad"] = Cardinality(Without(done, Loads))
        /\ stats["NoStore"] = Cardinality(Without(done, Stores))
        /\ stats["WithCall"] = Cardinality(With(done, {"call"}))
        /\ stats["NoStoreWithLoad"] = Cardinality(LoadsOnly(done))
    BY <1>1 DEF Counted, Tallied
  <2>5. /\ IsFiniteSet(done')
        /\ Cardinality(done)' = Cardinality(done) + 1
        /\ Cardinality(Unready(done))' = Cardinality(Unready(done)) + 0
        /\ Cardinality(LoadsOnly(done))'
             = Cardinality(LoadsOnly(done))
                 + (IF Had(loop, Stores) = {} /\ Had(loop, Loads) # {} THEN 1 ELSE 0)
    BY <1>1, <1>2, OneMoreDone
  <2>6. \A K : Cardinality(Without(done, K))' = Cardinality(Without(done, K))
                 + (IF Had(loop, K) = {} THEN 1 ELSE 0)
    BY <1>1, <1>2, OneMoreDone
  <2>7. \A K : Cardinality(With(done, K))' = Cardinality(With(done, K))
                 + (IF Had(loop, K) # {} THEN 1 ELSE 0)
    BY <1>1, <1>2, OneMoreDone
  <2>8. /\ stats'["Loops"] = Cardinality(done)'
        /\ stats'["NoPreheader"] = Cardinality(Unready(done))'
        /\ stats'["NoStoreWithLoad"] = Cardinality(LoadsOnly(done))'
    BY <2>1, <2>2, <2>3, <2>4, <2>5 DEF Counter
  <2>9. /\ stats'["NoLoad"] = Cardinality(Without(done, Loads))'
        /\ stats'["NoStore"] = Cardinality(Without(done, Stores))'
        /\ stats'["WithCall"] = Cardinality(With(done, {"call"}))'
    BY <2>2, <2>4, <2>6, <2>7
  <2>10. stats'["Loops"] = stats'["Loops"] + 0
    BY <2>1, <2>3 DEF Counter
  <2> QED BY <1>1, <2>5, <2>8, <2>9, <2>10 DEF Tallied
<1> QED BY <1>6, <1>7 DEF Counted

LEMMA CountedStep == Inv /\ Once /\ Counted /\ [Next]_vars => Counted'
<1> SUFFICES ASSUME Inv, Once, Counted, [Next]_vars
             PROVE  Counted'
  OBVIOUS
<1>1. CASE UNCHANGED vars
  <2>1. UNCHANGED <<prog, home, stamp, done, loop, todo, cur, seen, stats>>
    BY <1>1 DEF vars
  <2>2. \A i : Visited(i)' <=> Visited(i)
    BY <2>1 DEF Visited, Entered, Precedes
  <2>3. SeenTells'
    BY <2>1, <2>2 DEF Counted, SeenTells, Tells, Had, InLoop
  <2> QED BY <2>1, <2>3, SameNest, SameTally DEF Counted
<1> QED BY <1>1, CountedEnter, CountedSkipLoop, CountedEnterBlock, CountedMove,
        CountedVisit, CountedLeave DEF Next, Stopped

\* When the pass has ended, its statistics are those of the parsed loops
\* (printStats and LICMNoPreheader, p3.cpp), however loops are nested.
THEOREM LICMStatsOfSource == Spec => []StatsOfSource
<1>1. Spec => []Once
  <2>1. Init => Once
    BY DEF Init, Once, EnteredFirst, CurLast, VisitedStay, Visited, Entered
  <2> QED BY <2>1, OnceStep, InvHolds, PTL DEF Spec
<1>2. Spec => []Counted
  BY <1>1, InvInit, CountedInit, CountedStep, InvHolds, PTL DEF Spec
<1>3. Inv /\ Counted => StatsOfSource
  <2> SUFFICES ASSUME Inv, Counted, Done
               PROVE  StatsOfSource
    BY DEF StatsOfSource
  <2> DEFINE all == Loops[prog.graph]
  <2>1. done = all
    BY DEF Done
  <2>2. loop = {}
    BY <2>1 DEF Inv, TypeOK, Counted, OpenLoop
  <2> DEFINE ready == {l \in all : HasPreheader(l)}
  <2>3. /\ Unready(done) = all \ ready
        /\ \A K : Without(done, K) = {l \in ready : Had(l, K) = {}}
        /\ \A K : With(done, K) = {l \in ready : Had(l, K) # {}}
    BY <2>1 DEF Unready, Without, With
  <2>4. LoadsOnly(done) = {l \in ready : Had(l, Stores) = {} /\ Had(l, Loads) # {}}
    BY <2>3 DEF LoadsOnly
  <2>5. Cardinality(done) \in Nat
    BY FS_CardinalityType DEF Counted, Tallied
  <2>6. stats["Loops"] = Cardinality(all)
    BY <2>1, <2>2, <2>5 DEF Counted, Tallied
  <2>7. stats["NoPreheader"] = Cardinality(all \ ready)
    <3>1. stats["NoPreheader"] = Cardinality(Unready(done))
      BY DEF Counted, Tallied
    <3> QED BY <2>3, <3>1, Zenon
  <2>8. /\ stats["NoLoad"] = Cardinality({l \in ready : Had(l, Loads) = {}})
        /\ stats["NoStore"] = Cardinality({l \in ready : Had(l, Stores) = {}})
        /\ stats["WithCall"] = Cardinality({l \in ready : Had(l, {"call"}) # {}})
    <3>1. /\ stats["NoLoad"] = Cardinality(Without(done, Loads))
          /\ stats["NoStore"] = Cardinality(Without(done, Stores))
          /\ stats["WithCall"] = Cardinality(With(done, {"call"}))
      BY DEF Counted, Tallied
    <3> QED BY <2>3, <3>1, Zenon
  <2>9. stats["NoStoreWithLoad"] = Cardinality({l \in ready :
                                     Had(l, Stores) = {} /\ Had(l, Loads) # {}})
    BY <2>4 DEF Counted, Tallied
  <2> QED BY <2>6, <2>7, <2>8, <2>9, Zenon DEF StatsOfSource
<1> QED BY <1>2, <1>3, InvHolds, PTL

-----------------------------------------------------------------------------
(* What the moves of the pass are.                                         *)

\* The place of each instruction in the order the pass leaves.
Rank == [i \in Id |-> Cardinality({j \in Id : Precedes(j, i)}) + 1]

LEMMA OrderRanks ==
  TypeOK => /\ Enumerates(Order, Rank)
            /\ \A x, y \in Id : Rank[x] < Rank[y] <=> Precedes(x, y)
<1> SUFFICES ASSUME TypeOK
             PROVE  /\ Enumerates(Order, Rank)
                    /\ \A x, y \in Id : Rank[x] < Rank[y] <=> Precedes(x, y)
  OBVIOUS
<1> DEFINE T == {t \in Id \X Id : Precedes(t[1], t[2])}
           R == [x \in Id |-> Cardinality({y \in Id : <<y, x>> \in T}) + 1]
           O == [n \in Id |-> CHOOSE x \in Id : R[x] = n]
<1>1. stamp \in [Id -> Nat]
  BY DEF TypeOK
<1>2. \A x, y \in Id : <<x, y>> \in T <=> Precedes(x, y)
  OBVIOUS
<1>3. \A x \in Id : {y \in Id : <<y, x>> \in T} = {y \in Id : Precedes(y, x)}
  BY <1>2
<1> HIDE DEF T
<1>4. R = Rank
  BY <1>3 DEF Rank
<1>5. O = Order
  <2>1. Order = [n \in Id |-> CHOOSE x \in Id : Rank[x] = n]
    BY DEF Order, Rank
  <2> HIDE DEF R
  <2> QED BY <1>4, <2>1
<1>6. \A x \in Id : <<x, x>> \notin T
  BY <1>1, <1>2, PrecedesOrder
<1>7. \A x, y \in Id : x # y => <<x, y>> \in T \/ <<y, x>> \in T
  BY <1>1, <1>2, PrecedesOrder
<1>8. \A x, y, z \in Id : <<x, y>> \in T /\ <<y, z>> \in T => <<x, z>> \in T
  BY <1>1, <1>2, PrecedesTransitive
<1>9. /\ Enumerates(O, R)
      /\ \A x, y \in Id : R[x] < R[y] <=> <<x, y>> \in T
  BY <1>6, <1>7, <1>8, Ranking
<1> HIDE DEF R, O
<1> QED BY <1>2, <1>4, <1>5, <1>9

\* The two tests move an instruction as IsMove says.
LEMMA LeftMoves ==
  ASSUME Inv, TypeOK', \A x \in Id : prog.kind[x] # "rmw",
         NEW i \in Id, cur = i, MoveToPreheader(i), prog' = prog,
         Hoistable(loop, i) \/ CanMoveLoad(loop, i)
  PROVE  IsMove(prog, Left, Rank, Left', Rank', i, loop, Preheader(loop))
<1> DEFINE p == Preheader(loop)
<1>1. TypeOK /\ loop # {} /\ HasPreheader(loop) /\ InLoop(loop, i)
  BY IdIsNat DEF Inv, CurInside, LoopOpen
<1>2. /\ p \in Block \ loop
      /\ home' \in [Id -> Block]
      /\ home'[i] = p
      /\ \A j \in Id \ {i} : home'[j] = home[j] /\ stamp'[j] = stamp[j]
      /\ stamp' \in [Id -> Nat]
      /\ stamp'[i] = Moves + 1
  BY <1>1, MoveShape
<1>3. /\ prog.graph \in Graph /\ loop \in Loops[prog.graph] /\ home \in [Id -> Block]
      /\ stamp \in [Id -> Nat] /\ home[i] \in loop /\ loop \subseteq Block
  <2>1. prog.graph \in Graph /\ loop \in Loops[prog.graph]
    BY <1>1 DEF TypeOK, IsProgram
  <2> QED BY <1>1, <2>1, LoopAssumption DEF TypeOK, InLoop
<1>4. /\ prog.kind[i] \in Speculatable \cup {"load"}
      /\ \A s \in Slot : Invariant(loop, prog.args[i][s])
  BY <1>1, MovableOperands
<1>5. prog.kind[i] # "phi" /\ prog.kind[i] # "term"
  BY <1>4 DEF Speculatable
<1>6. /\ Enumerates(Order, Rank)
      /\ \A x, y \in Id : Rank[x] < Rank[y] <=> Precedes(x, y)
  BY <1>1, OrderRanks
<1>7. /\ Enumerates(Order', Rank')
      /\ \A x, y \in Id : Rank'[x] < Rank'[y] <=> Precedes(x, y)'
  <2>1. TypeOK' => (/\ Enumerates(Order, Rank)
                    /\ \A x, y \in Id : Rank[x] < Rank[y] <=> Precedes(x, y))'
    BY OrderRanks, PTL
  <2> QED BY <2>1
<1>8. \A x, y \in Id \ {i} : Rank[x] < Rank[y] <=> Rank'[x] < Rank'[y]
  <2>1. \A x, y \in Id \ {i} : Precedes(x, y)' <=> Precedes(x, y)
    BY <1>2 DEF Precedes
  <2> QED BY <1>6, <1>7, <2>1
<1>9. \A x \in Id \ {i} : prog.kind[x] = "term" <=> Rank'[i] < Rank'[x]
  <2>1. \A x \in Id \ {i} : stamp[x] <= Moves /\ stamp[x] \in Nat
    BY <1>3 DEF Inv, StampsBounded
  <2>2. Moves \in Nat
    BY <1>1 DEF TypeOK, Moves, Counter
  <2>3. \A x \in Id \ {i} : ~(stamp'[i] < stamp'[x]) /\ stamp'[i] # stamp'[x]
    BY <1>2, <2>1, <2>2
  <2>4. \A x \in Id \ {i} : Precedes(i, x)' <=> prog.kind[x] = "term"
    BY <1>5, <2>3 DEF Precedes
  <2> QED BY <1>7, <2>4
<1>10. \A b \in loop : /\ <<p, b>> \in Dom[prog.graph]
                       /\ \A x \in Block \ loop :
                            <<x, b>> \in Dom[prog.graph] => <<x, p>> \in Dom[prog.graph]
  BY <1>1, <1>3, PreheaderFacts DEF Dominates
<1>11. /\ Left.live = Id /\ Left.args = prog.args /\ Left.home = home /\ Left.order = Order
       /\ Left'.live = Id /\ Left'.args = prog.args /\ Left'.home = home'
       /\ Left'.order = Order'
  BY DEF Left, Body
<1>12. UsesDominated(prog, Left, Rank)
  <2> SUFFICES ASSUME NEW x \in Id, NEW s \in Slot, prog.args[x][s] \in Id
               PROVE  LET r == prog.args[x][s] IN
                      IF prog.kind[x] = "phi"
                      THEN <<Left.home[r], prog.from[x][s]>> \in Dom[prog.graph]
                      ELSE IF Left.home[r] = Left.home[x] THEN Rank[r] < Rank[x]
                      ELSE <<Left.home[r], Left.home[x]>> \in Dom[prog.graph]
    BY DEF UsesDominated
  <2> DEFINE r == prog.args[x][s]
  <2>1. IF prog.kind[x] = "phi" THEN Dominates(home[r], prog.from[x][s]) ELSE Reaches(r, x)
    BY DEF Inv, OperandsBeforeUses
  <2> QED BY <1>6, <1>11, <2>1 DEF Reaches, Dominates
<1>13. ASSUME NEW s \in Slot, prog.args[i][s] \in Id
       PROVE  /\ home[prog.args[i][s]] \notin loop
              /\ <<home[prog.args[i][s]], p>> \in Dom[prog.graph]
  <2> DEFINE r == prog.args[i][s]
  <2>1. home[r] \notin loop /\ home[r] \in Block
    BY <1>3, <1>4, <1>13 DEF Invariant, InLoop
  <2>2. Reaches(r, i)
    BY <1>5, <1>13 DEF Inv, OperandsBeforeUses
  <2>3. <<home[r], home[i]>> \in Dom[prog.graph]
    BY <1>3, <2>1, <2>2 DEF Reaches, Dominates
  <2> QED BY <1>3, <1>10, <2>1, <2>3
<1>14. prog.kind[i] \in Pure \cup {"load"}
  BY <1>4 DEF Speculatable, Pure
<1> QED BY <1>2, <1>3, <1>6, <1>7, <1>8, <1>9, <1>10, <1>11, <1>12, <1>13, <1>14 DEF IsMove

\* A path enters an open loop through its preheader.
LEMMA RouteOfLoop ==
  ASSUME prog.graph \in Graph, NEW l \in Loops[prog.graph], HasPreheader(l),
         NEW path \in Path[prog.graph], Len(path) \in Nat, Len(path) # 0,
         \A k \in 1..Len(path) : path[k] \in Block
  PROVE  IsRoute(path, l, Preheader(l))
<1> DEFINE D == Dom[prog.graph]
           E == Edge[prog.graph]
           h == Header(l)
           p == Preheader(l)
           L == Len(path)
<1>1. /\ l \subseteq Block
      /\ \E b \in l : \A c \in l : <<b, c>> \in D
  BY LoopAssumption
<1>2. h \in l /\ \A c \in l : <<h, c>> \in D
  BY <1>1 DEF Header, Dominates
<1>3. p \in Block \ l /\ \A c \in l : <<p, c>> \in D
  BY PreheaderFacts DEF Dominates
<1>4. PICK b \in Block : Entering(l) = {b} /\ Succs(b) = {h}
  BY DEF HasPreheader
<1>5. p = b
  BY <1>4 DEF Preheader
<1>6. /\ \A x \in Block \ l : <<x, h>> \in E => x = p
      /\ \A x \in Block : <<p, x>> \in E <=> x = h
  BY <1>4, <1>5 DEF Entering, Succs
<1>7. /\ \A k \in 1..L - 1 : <<path[k], path[k + 1]>> \in E
      /\ \A x \in Block : <<path[L], x>> \notin E
  BY WalkAssumption
<1>8. /\ \A x \in l : \E c \in Block : <<x, c>> \in E
      /\ \A x \in Block \ l, y \in l : <<x, y>> \in E => \A c \in l : <<y, c>> \in D
  BY NaturalAssumption
<1>9. 1 \in 1..L /\ L \in 1..L /\ \A k \in 1..L - 1 : k \in 1..L /\ k + 1 \in 1..L
  BY ONLY L \in Nat, L # 0
<1> HIDE DEF D, E, h, p, L
<1>10. path[1] \notin l
  <2> SUFFICES ASSUME path[1] \in l PROVE FALSE
    OBVIOUS
  <2>1. <<p, path[1]>> \in D /\ p # path[1]
    BY <1>3
  <2> QED BY <1>3, <2>1, PathAssumption DEF D
<1>11. ASSUME NEW k \in 1..L - 1
       PROVE  /\ path[k + 1] \in l => path[k] \in l \cup {p}
              /\ path[k] = p => path[k + 1] \in l
  <2>1. path[k] \in Block /\ path[k + 1] \in Block
    BY <1>9 DEF L
  <2>2. <<path[k], path[k + 1]>> \in E
    BY <1>7
  <2>3. ASSUME path[k + 1] \in l, path[k] \notin l
        PROVE  path[k] = p
    <3>1. \A c \in l : <<path[k + 1], c>> \in D
      BY <1>8, <2>1, <2>2, <2>3
    <3>2. path[k + 1] = h
      <4>1. <<h, path[k + 1]>> \in D /\ <<path[k + 1], h>> \in D /\ h \in Block
        BY <1>1, <1>2, <2>3, <3>1
      <4> QED BY <2>1, <4>1, DomAssumption DEF D
    <3> QED BY <1>6, <2>1, <2>2, <2>3, <3>2
  <2>4. path[k] = p => path[k + 1] \in l
    BY <1>2, <1>6, <2>1, <2>2
  <2> QED BY <2>3, <2>4
<1>12. path[L] \notin l \cup {p}
  BY <1>1, <1>2, <1>6, <1>7, <1>8
<1> QED BY <1>10, <1>11, <1>12 DEF IsRoute, p, L

\* A load that moves reads what the loop does not write, or reads what
\* nothing in the loop writes and is bound to.
LEMMA MovedLoads ==
  ASSUME TypeOK, prog \in Programs, loop # {}, NEW i \in Id, CanMoveLoad(loop, i),
         NEW env \in Env, NEW path \in Path[prog.graph], Len(path) \in Nat,
         \A k \in 1..Len(path) : path[k] \in Block
  PROVE  OfUnwritten(prog, Left, env, i, loop) \/ BoundToRun(prog, Left, i, loop, path)
<1>1. Left.home = home
  BY DEF Left, Body
<1>2. WritersIn(prog, Left, loop) = MayWrite(loop)
  BY <1>1 DEF WritersIn, MayWrite, InLoop
<1>3. Address(i) = prog.args[i][1]
  BY DEF CanMoveLoad, Address, Stores
<1>4. CASE /\ Fixed(loop, Address(i))
           /\ \A j \in MayWrite(loop) : /\ prog.kind[j] \in Stores
                                        /\ ~IsSameAddress(Address(j), Address(i))
  <2>1. prog.args[i][1] \in Objects(prog)
    BY <1>3, <1>4 DEF Fixed, IsAlloca, Objects
  <2>2. \A x \in Objects(prog) : HasPlace(prog, x)
    BY GlobalAssumption, LeafAssumption DEF Objects, HasPlace
  <2>3. ASSUME NEW j \in MayWrite(loop)
        PROVE  /\ prog.kind[j] \in Stores
               /\ prog.args[j][2] \in Objects(prog) \ {prog.args[i][1]}
    <3>1. prog.kind[j] \in Stores /\ Address(j) = prog.args[j][2]
      BY <1>4 DEF Address
    <3>2. (IsAlloca(Address(j)) \/ Address(j) \in Global) /\ Address(j) # Address(i)
      BY <1>4 DEF IsSameAddress
    <3> QED BY <1>3, <3>1, <3>2 DEF IsAlloca, Objects
  <2>4. /\ PlaceOf(env, prog.args[i][1]) \in Cell
        /\ \A y \in Objects(prog) \ {prog.args[i][1]} :
             PlaceOf(env, y) # PlaceOf(env, prog.args[i][1])
    BY <2>1, ObjectsAssumption
  <2> QED BY <1>2, <2>1, <2>2, <2>3, <2>4 DEF OfUnwritten
<1>5. CASE MayWrite(loop) = {} /\ DominatesAllExits(loop, i)
  <2>1. ASSUME NEW k \in 1..Len(path) - 1, path[k] \in loop, path[k + 1] \notin loop
        PROVE  <<home[i], path[k + 1]>> \in Dom[prog.graph]
    <3>1. k + 1 \in 1..Len(path)
      BY ONLY Len(path) \in Nat, k \in 1..Len(path) - 1
    <3>2. <<path[k], path[k + 1]>> \in Edge[prog.graph]
      <4>1. prog.graph \in Graph
        BY DEF TypeOK, IsProgram
      <4> QED BY <4>1, WalkAssumption
    <3>3. path[k + 1] \in Exits(loop)
      <4>1. path[k + 1] \in Succs(path[k])
        BY <3>1, <3>2 DEF Succs
      <4>2. Succs(path[k]) \in {Succs(b) : b \in loop}
        BY <2>1
      <4>3. path[k + 1] \in UNION {Succs(b) : b \in loop}
        BY <4>1, <4>2
      <4> QED BY <2>1, <4>3 DEF Exits
    <3> QED BY <1>5, <3>3 DEF DominatesAllExits, Dominates
  <2> QED BY <1>1, <1>2, <1>5, <2>1 DEF BoundToRun
<1> QED BY <1>4, <1>5 DEF CanMoveLoad

-----------------------------------------------------------------------------
(* The invariant.                                                          *)

PhisStay == \A i \in Id : prog.kind[i] = "phi" => home[i] = prog.blk[i]

\* Whatever has moved until now, no path shows it.
SameSoFar ==
  \A env \in Env, path \in Path[prog.graph] :
    Agree({}, Run(prog, Parsed(prog), env, path), Run(prog, Left, env, path))

Kept ==
  /\ prog \in Programs
  /\ PhisStay
  /\ (\A i \in Id : prog.kind[i] # "rmw") => SameSoFar

LEMMA LeftRuns ==
  TypeOK /\ prog \in Programs /\ PhisStay =>
    \A env \in Env, path \in Path[prog.graph] : IsRun(prog, Left, env, path)
<1> SUFFICES ASSUME TypeOK, prog \in Programs, PhisStay,
                    NEW env \in Env, NEW path \in Path[prog.graph]
             PROVE  IsRun(prog, Left, env, path)
  OBVIOUS
<1>1. /\ Left.live = Id /\ Left.args = prog.args /\ Left.home = home /\ Left.order = Order
  BY DEF Left, Body
<1>2. Order \in [1..N -> Id]
  BY OrderRanks DEF Enumerates
<1>3. IsProgram(prog)
  BY DEF TypeOK
<1>4. IsBody(Left)
  BY <1>1, <1>2, <1>3 DEF IsBody, TypeOK, IsProgram
<1>5. path \in Seq(Block) /\ path # <<>>
  BY <1>3, PathAssumption DEF IsProgram
<1>6. Len(path) \in Nat \ {0}
  BY <1>5
<1> QED BY <1>1, <1>3, <1>4, <1>5, <1>6, EnvAssumption DEF IsRun, PhisStay

LEMMA ParsedRanks ==
  ASSUME NEW P, IsProgram(P)
  PROVE  Enumerates(Parsed(P).order, [x \in Id |-> x])
<1>1. Id = 1..N
  BY DEF Id
<1>2. Parsed(P).order = [x \in Id |-> x]
  BY DEF Parsed, Body
<1> QED BY <1>1, <1>2 DEF Enumerates

LEMMA ParsedRuns ==
  ASSUME NEW P \in Programs, IsProgram(P), NEW env \in Env, NEW path \in Path[P.graph]
  PROVE  IsRun(P, Parsed(P), env, path)
<1>1. path \in Seq(Block) /\ path # <<>>
  BY PathAssumption DEF IsProgram
<1>2. Len(path) \in Nat \ {0}
  BY <1>1
<1>3. IsBody(Parsed(P)) /\ Parsed(P).home = P.blk
  BY ParsedIsBody DEF Parsed, Body
<1> QED BY <1>1, <1>2, <1>3, EnvAssumption DEF IsRun

\* The order the pass starts with is that of the function, the terminators
\* apart, which are the last of their blocks.
LEMMA KeptInit == Init => Kept
<1> SUFFICES ASSUME Init
             PROVE  Kept
  OBVIOUS
<1>1. TypeOK /\ prog \in Programs /\ IsProgram(prog)
  BY InvInit, ProgramsAssumption DEF Inv, Init
<1>2. PhisStay /\ home = prog.blk /\ \A x \in Id : stamp[x] = 0
  BY DEF PhisStay, Init
<1>3. SameSoFar
  <2> SUFFICES ASSUME NEW env \in Env, NEW path \in Path[prog.graph]
               PROVE  Agree({}, Run(prog, Parsed(prog), env, path), Run(prog, Left, env, path))
    BY DEF SameSoFar
  <2> DEFINE R == [x \in Id |-> x]
  <2>1. IsRun(prog, Parsed(prog), env, path) /\ IsRun(prog, Left, env, path)
    BY <1>1, <1>2, LeftRuns, ParsedRuns
  <2>2. /\ Left.live = Id /\ Left.args = prog.args /\ Left.home = prog.blk
        /\ Left.order = Order
        /\ Parsed(prog).live = Id /\ Parsed(prog).args = prog.args
        /\ Parsed(prog).home = prog.blk
    BY <1>2 DEF Left, Parsed, Body
  <2>3. Enumerates(Parsed(prog).order, R)
    BY <1>1, ParsedRanks
  <2>4. /\ Enumerates(Left.order, Rank)
        /\ \A x, y \in Id : Rank[x] < Rank[y] <=> Precedes(x, y)
    BY <1>1, <2>2, OrderRanks
  <2>5. ASSUME NEW x \in Id, NEW y \in Id, prog.blk[x] = prog.blk[y]
        PROVE  R[x] < R[y] <=> Rank[x] < Rank[y]
    <3>1. x \in Nat /\ y \in Nat /\ R[x] = x /\ R[y] = y
      BY IdIsNat
    <3>2. /\ prog.kind[x] = "term" => y <= x
          /\ prog.kind[y] = "term" => x <= y
      BY <1>1, <2>5, TerminatorAssumption
    <3>3. stamp[x] = 0 /\ stamp[y] = 0
      BY <1>2
    <3>4. Precedes(x, y) <=> x < y
      <4>1. Precedes(x, y) <=>
              IF prog.kind[x] = "term" \/ prog.kind[y] = "term"
              THEN prog.kind[y] = "term" /\ (prog.kind[x] = "term" => x < y)
              ELSE x < y
        BY <3>3 DEF Precedes
      <4>2. CASE x = y
        BY <3>1, <4>1, <4>2, PrecedesOrder, <1>1 DEF TypeOK
      <4>3. CASE x # y
        BY <3>1, <3>2, <4>1, <4>3
      <4> QED BY <4>2, <4>3
    <3> QED BY <2>4, <3>1, <3>4
  <2> HIDE DEF R
  <2>6. Run(prog, Left, env, path) = Run(prog, Parsed(prog), env, path)
    BY <2>1, <2>2, <2>3, <2>4, <2>5, Reordered
  <2> QED BY <2>6 DEF Agree
<1> QED BY <1>1, <1>2, <1>3 DEF Kept

\* Each move keeps it.
LEMMA KeptMove ==
  ASSUME Inv, Inv', Kept, NEW i \in Id, Visit(i), MoveToPreheader(i),
         Hoistable(loop, i) \/ CanMoveLoad(loop, i)
  PROVE  Kept'
<1>1. /\ TypeOK /\ TypeOK' /\ prog \in Programs /\ PhisStay /\ prog' = prog /\ cur = i
      /\ loop # {} /\ HasPreheader(loop) /\ InLoop(loop, i)
  BY IdIsNat DEF Inv, Kept, Visit, CurInside, LoopOpen
<1>2. prog.graph \in Graph /\ loop \in Loops[prog.graph]
  BY <1>1 DEF TypeOK, IsProgram
<1>3. prog.kind[i] \in Speculatable \cup {"load"}
  BY <1>1, MovableOperands
<1>4. PhisStay'
  <2>1. \A j \in Id \ {i} : home'[j] = home[j]
    BY <1>1, MoveShape
  <2>2. prog.kind[i] # "phi"
    BY <1>3 DEF Speculatable
  <2> QED BY <1>1, <2>1, <2>2 DEF PhisStay
<1>5. (TypeOK /\ prog \in Programs /\ PhisStay =>
         \A env \in Env, path \in Path[prog.graph] : IsRun(prog, Left, env, path))'
  BY LeftRuns, PTL
<1>6. ASSUME \A x \in Id : prog.kind[x] # "rmw",
             NEW env \in Env, NEW path \in Path[prog.graph]
      PROVE  Agree({}, Run(prog, Parsed(prog), env, path), Run(prog, Left', env, path))
  <2> DEFINE p == Preheader(loop)
  <2>1. IsRun(prog, Left, env, path)
    BY <1>1, LeftRuns
  <2>2. IsRun(prog, Left', env, path)
    BY <1>1, <1>4, <1>5
  <2>3. /\ Len(path) \in Nat /\ Len(path) # 0
        /\ \A k \in 1..Len(path) : path[k] \in Block
    BY <2>1, RunFacts
  <2>4. IsMove(prog, Left, Rank, Left', Rank', i, loop, p)
    BY <1>1, <1>6, LeftMoves
  <2>5. IsRoute(path, loop, p)
    BY <1>1, <1>2, <2>3, RouteOfLoop
  <2>6. prog.kind[i] = "load" =>
          OfUnwritten(prog, Left, env, i, loop) \/ BoundToRun(prog, Left, i, loop, path)
    <3> SUFFICES ASSUME prog.kind[i] = "load"
                 PROVE  OfUnwritten(prog, Left, env, i, loop) \/ BoundToRun(prog, Left, i, loop, path)
      OBVIOUS
    <3>1. CanMoveLoad(loop, i)
      BY DEF Hoistable, Speculatable
    <3> QED BY <1>1, <2>3, <3>1, MovedLoads
  <2>7. Agree({}, Run(prog, Left, env, path), Run(prog, Left', env, path))
    <3>1. IsMoveScene(prog, Left, Rank, Left', Rank', env, path, i, loop, p)
      BY <2>1, <2>2, <2>4, <2>5, <2>6 DEF IsMoveScene
    <3> HIDE DEF p
    <3> QED BY <3>1, MoveKeeps
  <2>8. Agree({}, Run(prog, Parsed(prog), env, path), Run(prog, Left, env, path))
    BY <1>6 DEF Kept, SameSoFar
  <2> QED BY <2>7, <2>8 DEF Agree
<1>7. (\A x \in Id : prog.kind[x] # "rmw") => SameSoFar'
  BY <1>1, <1>6 DEF SameSoFar
<1> QED BY <1>1, <1>4, <1>7 DEF Kept

\* Where nothing moves, the function stays.
LEMMA KeptStays ==
  ASSUME Kept, UNCHANGED <<prog, home, stamp>>
  PROVE  Kept'
<1>1. prog' = prog /\ home' = home /\ stamp' = stamp
  OBVIOUS
<1>2. Left' = Left
  BY <1>1 DEF Left, Order, Precedes
<1> QED BY <1>1, <1>2 DEF Kept, PhisStay, SameSoFar

LEMMA KeptStep == Inv /\ Kept /\ [Next]_vars => Kept'
<1> SUFFICES ASSUME Inv, Kept, [Next]_vars
             PROVE  Kept'
  OBVIOUS
<1>1. Inv'
  BY InvStep
<1>2. ASSUME NEW i \in Id, Hoist(i) \/ HoistLoad(i)
      PROVE  Kept'
  <2>1. /\ Visit(i) /\ MoveToPreheader(i)
        /\ Hoistable(loop, i) \/ CanMoveLoad(loop, i)
    BY <1>2 DEF Hoist, HoistLoad
  <2> QED BY <1>1, <2>1, KeptMove
<1>3. CASE ~(\E i \in Id : Hoist(i) \/ HoistLoad(i))
  <2>1. UNCHANGED <<prog, home, stamp>>
    BY <1>3 DEF Next, vars, Enter, SkipLoop, EnterBlock, CountStore, Stay, Visit,
       Leave, Stopped
  <2> QED BY <2>1, KeptStays
<1> QED BY <1>2, <1>3

\* Without atomics, the function that the pass leaves behaves as the one that
\* was parsed, on every path that comes to its end: whatever a load's pointer
\* aliases, moving it does not change what it reads, and it traps in front of
\* the loop only where the loop would have run into the trap.
THEOREM LICMBehaviourKept == Spec => []BehaviourKept
<1>1. Kept => BehaviourKept
  <2> SUFFICES ASSUME Kept, \A i \in Id : prog.kind[i] # "rmw"
               PROVE  SameBehaviour(prog, Left, Env)
    BY DEF BehaviourKept
  <2>1. SameSoFar
    BY DEF Kept
  <2> QED BY <2>1, AgreeBehaviour DEF SameSoFar
<1>2. Init => Inv /\ Kept
  BY InvInit, KeptInit
<1>3. (Inv /\ Kept) /\ [Next]_vars => (Inv /\ Kept)'
  BY InvStep, KeptStep
<1> QED BY <1>1, <1>2, <1>3, PTL DEF Spec

-----------------------------------------------------------------------------
(* The two passes and the program.  What LICM leaves is laid out as a      *)
(* function of its own: the order of the instructions is total             *)
(* (LaidBeforeOrder), so that numbering them by it loses none (Numbering), *)
(* and LICM's own invariant makes the function well formed                 *)
(* (LaidOutWellFormed).  CSE's invariant, that of module CSE_proofs on the *)
(* copy, takes over from there.                                            *)

\* The copy, with what is proved of project 2's pass.
\* Every block that holds an instruction held one when it was parsed: a
\* preheader has its terminator.
HomesFilled == \A i \in Id : \E n \in Id : prog.blk[n] = home[i]

-----------------------------------------------------------------------------
(* The order of the instructions.                                          *)

LEMMA PlaceTells ==
  ASSUME HomesFilled, NEW i \in Id
  PROVE  /\ Place(home[i]) \in Id
         /\ prog.blk[Place(home[i])] = home[i]
BY DEF HomesFilled, Place

\* No two instructions share a place, and there is no cycle among them.
LEMMA LaidBeforeOrder ==
  ASSUME stamp \in [Id -> Nat], HomesFilled,
         NEW i \in Id, NEW j \in Id, NEW k \in Id
  PROVE  /\ ~LaidBefore(i, i)
         /\ i # j => LaidBefore(i, j) \/ LaidBefore(j, i)
         /\ LaidBefore(i, j) /\ LaidBefore(j, k) => LaidBefore(i, k)
<1>1. /\ Place(home[i]) \in Nat /\ Place(home[j]) \in Nat
      /\ Place(home[k]) \in Nat
  BY PlaceTells, IdIsNat
<1>2. ASSUME NEW x \in Id, NEW y \in Id, Place(home[x]) = Place(home[y])
      PROVE  home[x] = home[y]
  BY <1>2, PlaceTells
<1>3. ~LaidBefore(i, i)
  BY PrecedesOrder DEF LaidBefore
<1>4. ASSUME i # j PROVE LaidBefore(i, j) \/ LaidBefore(j, i)
  <2>1. CASE home[i] = home[j]
    BY <1>4, <2>1, PrecedesOrder DEF LaidBefore
  <2>2. CASE home[i] # home[j]
    <3>1. Place(home[i]) # Place(home[j])
      BY <1>2, <2>2
    <3>2. Place(home[i]) < Place(home[j]) \/ Place(home[j]) < Place(home[i])
      BY <1>1, <3>1
    <3> QED BY <2>2, <3>2 DEF LaidBefore
  <2> QED BY <2>1, <2>2
<1>5. ASSUME LaidBefore(i, j), LaidBefore(j, k) PROVE LaidBefore(i, k)
  <2>1. CASE home[i] = home[j] /\ home[j] = home[k]
    BY <1>5, <2>1, PrecedesTransitive DEF LaidBefore
  <2>2. CASE home[i] = home[j] /\ home[j] # home[k]
    BY <1>5, <2>2 DEF LaidBefore
  <2>3. CASE home[i] # home[j] /\ home[j] = home[k]
    BY <1>5, <2>3 DEF LaidBefore
  <2>4. CASE home[i] # home[j] /\ home[j] # home[k]
    <3>1. Place(home[i]) < Place(home[j]) /\ Place(home[j]) < Place(home[k])
      BY <1>5, <2>4 DEF LaidBefore
    <3>2. Place(home[i]) < Place(home[k])
      BY <1>1, <3>1
    <3>3. home[i] # home[k]
      BY <1>1, <3>2
    <3> QED BY <3>2, <3>3 DEF LaidBefore
  <2> QED BY <2>1, <2>2, <2>3, <2>4
<1> QED BY <1>3, <1>4, <1>5

\* Those before i.
Ahead(i) == {j \in Id : LaidBefore(j, i)}

\* What stands before i has a smaller number.
LEMMA NumbersAscend ==
  ASSUME stamp \in [Id -> Nat], HomesFilled
  PROVE  /\ NewNumber \in [Id -> Id]
         /\ \A i, j \in Id : LaidBefore(i, j) => NewNumber[i] < NewNumber[j]
<1>1. IsFiniteSet(Id) /\ Cardinality(Id) = N
  <2>1. 1 \in Int /\ N \in Int
    BY SizeAssumption
  <2>2. IsFiniteSet(1..N) /\ Cardinality(1..N) = IF 1 > N THEN 0 ELSE N - 1 + 1
    BY <2>1, FS_Interval
  <2> QED BY <2>2, SizeAssumption DEF Id
<1>2. ASSUME NEW i \in Id
      PROVE  /\ IsFiniteSet(Ahead(i))
             /\ Cardinality(Ahead(i)) \in Nat
             /\ Cardinality(Ahead(i)) < N
             /\ NewNumber[i] = Cardinality(Ahead(i)) + 1
  <2>1. Ahead(i) \in SUBSET Id /\ i \in Id \ Ahead(i)
    BY LaidBeforeOrder DEF Ahead
  <2>2. /\ IsFiniteSet(Ahead(i)) /\ Cardinality(Ahead(i)) <= N
        /\ Cardinality(Ahead(i)) # N
    BY <1>1, <2>1, FS_Subset
  <2>3. Cardinality(Ahead(i)) \in Nat
    BY <2>2, FS_CardinalityType
  <2>4. NewNumber[i] = Cardinality(Ahead(i)) + 1
    BY DEF NewNumber, Ahead
  <2> QED BY <2>2, <2>3, <2>4, SizeAssumption
<1>3. NewNumber \in [Id -> Id]
  <2>1. ASSUME NEW i \in Id PROVE NewNumber[i] \in Id
    <3> DEFINE c == Cardinality(Ahead(i))
    <3>1. c \in Nat /\ c < N /\ NewNumber[i] = c + 1
      BY <1>2
    <3> HIDE DEF c
    <3> QED BY <3>1, SizeAssumption DEF Id
  <2>2. NewNumber = [i \in Id |-> NewNumber[i]]
    BY DEF NewNumber
  <2> QED BY <2>1, <2>2
<1>4. ASSUME NEW i \in Id, NEW j \in Id, LaidBefore(i, j)
      PROVE  NewNumber[i] < NewNumber[j]
  <2>1. Ahead(i) \in SUBSET Ahead(j)
    BY <1>4, LaidBeforeOrder DEF Ahead
  <2>2. i \in Ahead(j) \ Ahead(i)
    BY <1>4, LaidBeforeOrder DEF Ahead
  <2>3. /\ Cardinality(Ahead(i)) <= Cardinality(Ahead(j))
        /\ Cardinality(Ahead(i)) # Cardinality(Ahead(j))
    BY <1>2, <2>1, <2>2, FS_Subset
  <2> QED BY <1>2, <2>3
<1> QED BY <1>3, <1>4

\* Each instruction has a number of its own, and none is left over.
LEMMA Numbering ==
  ASSUME stamp \in [Id -> Nat], HomesFilled
  PROVE  /\ NewNumber \in [Id -> Id]
         /\ OldNumber \in [Id -> Id]
         /\ \A n \in Id : NewNumber[OldNumber[n]] = n
         /\ \A i \in Id : OldNumber[NewNumber[i]] = i
<1>1. NewNumber \in [Id -> Id]
  BY NumbersAscend
<1>2. \A i, j \in Id : NewNumber[i] = NewNumber[j] => i = j
  <2> SUFFICES ASSUME NEW i \in Id, NEW j \in Id, i # j
               PROVE  NewNumber[i] # NewNumber[j]
    OBVIOUS
  <2>1. NewNumber[i] < NewNumber[j] \/ NewNumber[j] < NewNumber[i]
    BY LaidBeforeOrder, NumbersAscend
  <2>2. NewNumber[i] \in Nat /\ NewNumber[j] \in Nat
    BY <1>1, IdIsNat
  <2> QED BY <2>1, <2>2
<1>3. \A n \in Id : \E i \in Id : NewNumber[i] = n
  <2>1. IsFiniteSet(Id)
    BY FS_Interval, SizeAssumption DEF Id
  <2>2. NewNumber \in Injection(Id, Id)
    BY <1>1, <1>2 DEF Injection, IsInjective
  <2>3. NewNumber \in Surjection(Id, Id)
    BY <2>1, <2>2, FS_Injection
  <2> QED BY <2>3 DEF Surjection
<1>4. \A n \in Id : OldNumber[n] = CHOOSE i \in Id : NewNumber[i] = n
  BY DEF OldNumber
<1>5. \A n \in Id : OldNumber[n] \in Id /\ NewNumber[OldNumber[n]] = n
  BY <1>3, <1>4
<1>6. OldNumber = [n \in Id |-> OldNumber[n]]
  BY DEF OldNumber
<1>7. OldNumber \in [Id -> Id]
  BY <1>5, <1>6
<1> QED BY <1>1, <1>2, <1>5, <1>7

-----------------------------------------------------------------------------
(* The function laid out.                                                  *)

\* What LICM leaves passes the verifier: numbered in its new order, it is a
\* function whose definitions dominate their uses.
LEMMA LaidOutWellFormed ==
  ASSUME TypeOK, OperandsBeforeUses, HomesFilled
  PROVE  /\ LaidOut.args \in [Id -> [Slot -> Value]]
         /\ IsProgram(LaidOut)
         /\ UsesWellPlaced(LaidOut, LaidOut.args)
<1> DEFINE old == OldNumber
           new == NewNumber
           anew(v) == IF v \in Id THEN new[v] ELSE v
<1>1. /\ new \in [Id -> Id] /\ old \in [Id -> Id]
      /\ \A n \in Id : new[old[n]] = n
      /\ \A i \in Id : old[new[i]] = i
  BY Numbering DEF TypeOK
<1>2. /\ LaidOut.kind = [n \in Id |-> prog.kind[old[n]]]
      /\ LaidOut.blk = [n \in Id |-> home[old[n]]]
      /\ LaidOut.from = [n \in Id |-> prog.from[old[n]]]
      /\ LaidOut.args =
           [n \in Id |-> [s \in Slot |-> anew(prog.args[old[n]][s])]]
      /\ LaidOut.graph = prog.graph
  BY DEF LaidOut
<1> HIDE DEF old, new
<1>3. /\ prog.kind \in [Id -> Kind] /\ home \in [Id -> Block]
      /\ prog.from \in [Id -> [Slot -> Block]]
      /\ prog.args \in [Id -> [Slot -> Value]]
      /\ prog.graph \in Graph
  BY DEF TypeOK, IsProgram
<1>4. \A v \in Value : anew(v) \in Value /\ (anew(v) \in Id <=> v \in Id)
  BY <1>1, LeafAssumption DEF Value
<1>5. \A v \in Value : anew(v) = Nil <=> v = Nil
  BY <1>1, LeafAssumption DEF Value
<1>6. ASSUME NEW n \in Id, NEW s \in Slot
      PROVE  /\ LaidOut.args[n][s] = anew(prog.args[old[n]][s])
             /\ prog.args[old[n]][s] \in Value
  BY <1>1, <1>2, <1>3
<1>7. LaidOut.args \in [Id -> [Slot -> Value]]
  BY <1>2, <1>4, <1>6
<1>8. IsProgram(LaidOut)
  <2>1. /\ LaidOut.kind \in [Id -> Kind] /\ LaidOut.blk \in [Id -> Block]
        /\ LaidOut.from \in [Id -> [Slot -> Block]]
    BY <1>1, <1>2, <1>3
  <2>2. ASSUME NEW n \in Id
        PROVE  /\ LaidOut.kind[n] \in Passing => LaidOut.args[n][1] # Nil
               /\ LaidOut.kind[n] \in Loads => LaidOut.args[n][2] = Nil
    <3>1. /\ prog.kind[old[n]] \in Passing => prog.args[old[n]][1] # Nil
          /\ prog.kind[old[n]] \in Loads => prog.args[old[n]][2] = Nil
      BY <1>1 DEF TypeOK, IsProgram
    <3>2. LaidOut.kind[n] = prog.kind[old[n]]
      BY <1>2
    <3>3. 1 \in Slot /\ 2 \in Slot
      BY DEF Slot
    <3> QED BY <1>5, <1>6, <3>1, <3>2, <3>3
  <2>3. LaidOut.graph \in Graph
    BY <1>2, <1>3
  <2> QED BY <1>7, <2>1, <2>2, <2>3 DEF IsProgram
<1>9. ASSUME NEW n \in Id, NEW s \in Slot, LaidOut.args[n][s] \in Id
      PROVE  MayUse(LaidOut, LaidOut.args[n][s], n, s)
  <2> DEFINE i == old[n]
             r == prog.args[i][s]
  <2>1. i \in Id /\ new[i] = n
    BY <1>1
  <2>2. r \in Id /\ LaidOut.args[n][s] = new[r]
    BY <1>4, <1>6, <1>9
  <2>3. new[r] \in Id /\ old[new[r]] = r
    BY <1>1, <2>2
  <2>4. /\ LaidOut.kind[new[r]] = prog.kind[r] /\ LaidOut.kind[n] = prog.kind[i]
        /\ LaidOut.blk[new[r]] = home[r] /\ LaidOut.blk[n] = home[i]
        /\ LaidOut.from[n][s] = prog.from[i][s]
    <3>1. LaidOut.kind[n] = prog.kind[i] /\ LaidOut.blk[n] = home[i]
      BY <1>2
    <3>2. LaidOut.from[n][s] = prog.from[i][s]
      BY <1>2
    <3> HIDE DEF i, r
    <3>3. LaidOut.kind[new[r]] = prog.kind[r] /\ LaidOut.blk[new[r]] = home[r]
      BY <1>2, <2>3
    <3> QED BY <3>1, <3>2, <3>3
  <2>5. /\ prog.kind[r] \notin Void
        /\ IF prog.kind[i] = "phi" THEN Dominates(home[r], prog.from[i][s])
                                   ELSE Reaches(r, i)
    BY <2>1, <2>2 DEF OperandsBeforeUses
  <2> HIDE DEF i, r
  <2>6. CASE prog.kind[i] = "phi"
    BY <1>2, <2>2, <2>4, <2>5, <2>6 DEF MayUse, Dominates
  <2>7. CASE prog.kind[i] # "phi"
    <3>1. Reaches(r, i)
      BY <2>5, <2>7
    <3>2. home[r] = home[i] => new[r] < n
      <4> SUFFICES ASSUME home[r] = home[i] PROVE new[r] < n
        OBVIOUS
      <4>1. LaidBefore(r, i)
        BY <3>1 DEF Reaches, LaidBefore
      <4>2. \A x, y \in Id : LaidBefore(x, y) => new[x] < new[y]
        BY NumbersAscend DEF TypeOK, new
      <4> QED BY <2>1, <2>2, <4>1, <4>2
    <3>3. home[r] # home[i] => <<home[r], home[i]>> \in Dom[prog.graph]
      BY <3>1 DEF Reaches, Dominates
    <3>4. Before(LaidOut, new[r], n)
      BY <1>2, <2>4, <3>2, <3>3 DEF Before
    <3> QED BY <2>2, <2>4, <2>5, <2>7, <3>4 DEF MayUse
  <2> QED BY <2>6, <2>7
<1> QED BY <1>7, <1>8, <1>9 DEF UsesWellPlaced

-----------------------------------------------------------------------------
(* The invariant of CSE_proofs, on the copy.                               *)

Texts == [kind : [Id -> Kind], blk : [Id -> Block], from : [Id -> [Slot -> Block]],
          args : [Id -> [Slot -> Value]], graph : Graph]

\* Every environment, also those whose allocas have other numbers.
Environments ==
  {env \in [leaf : [Leaf -> Word], frame : [Id -> Word], mem : Memory, clobbers : BOOLEAN] :
     env.leaf[Zero] = 0}

\* A phi has a value for each block that leads to its own.
PhisFed(P) ==
  \A path \in Path[P.graph] : \A i \in Id, k \in 1..Len(path) :
    P.kind[i] = "phi" /\ P.blk[i] = path[k] =>
      k > 1 /\ \E s \in Slot : P.from[i][s] = path[k - 1]

\* What the copy may be given, whatever LICM makes of the functions of Programs.
Functions == {P \in Texts : IsProgram(P) /\ UsesWellPlaced(P, P.args) /\ PhisFed(P)}

Sw == INSTANCE CSE_proofs WITH prog <- text, cur <- at, stats <- counted,
                               Programs <- Functions, Env <- Environments

LEMMA SameAssumptions ==
  /\ Sw!SizeAssumption /\ Sw!LeafAssumption
  /\ Sw!DomAssumption /\ Sw!ProgramsAssumption
  /\ Sw!WordAssumption /\ Sw!EnvAssumption
  /\ Sw!PathAssumption /\ Sw!PhiAssumption
<1>1. Sw!SizeAssumption /\ Sw!DomAssumption
  BY SizeAssumption, DomAssumption DEF Sw!SizeAssumption, Sw!DomAssumption
<1>2. Sw!LeafAssumption
  BY LeafAssumption DEF Sw!LeafAssumption, Sw!Id, Id
<1>3. Sw!ProgramsAssumption
  <2>1. \A P \in Functions : IsProgram(P) /\ UsesWellPlaced(P, P.args)
    BY DEF Functions
  <2> QED
    BY <2>1
     DEF Sw!ProgramsAssumption, Sw!IsProgram, IsProgram, Sw!UsesWellPlaced,
         UsesWellPlaced, Sw!MayUse, MayUse, Sw!Before, Before, Sw!Id, Id,
         Sw!Slot, Slot, Sw!Value, Value, Sw!Kind, Kind, Sw!Passing, Passing,
         Sw!Loads, Loads, Sw!Void, Void
<1>4. Sw!WordAssumption /\ Sw!EnvAssumption
  <2>1. \A env \in Environments : IsEnv(env)
    BY DEF Environments, IsEnv
  <2> QED
    BY <2>1, WordAssumption
     DEF Sw!WordAssumption, Sw!Computed, Computed, Sw!Memory, Memory,
         Sw!EnvAssumption, Sw!IsEnv, IsEnv, Sw!Id, Id
<1>5. Sw!PathAssumption /\ Sw!PhiAssumption
  BY PathAssumption
     DEF Sw!PathAssumption, Sw!PhiAssumption, Functions, PhisFed, Sw!Id, Id, Sw!Slot, Slot
<1> QED BY <1>1, <1>2, <1>3, <1>4, <1>5

LEMMA SameTurn ==
  ASSUME NEW i
  PROVE  /\ Copy!At(i) <=> Sw!At(i)
         /\ Copy!Dead(i) <=> Sw!Dead(i)
         /\ Copy!Examine(i) <=> Sw!Examine(i)
         /\ Copy!CSEable(i) <=> Sw!CSEable(i)
BY DEF Copy!Examine, Sw!Examine, Copy!At, Sw!At, Copy!Dead, Sw!Dead,
       Copy!DeadKinds, Sw!DeadKinds, Copy!HasUse, Sw!HasUse,
       Copy!Simplifications, Sw!Simplifications, Copy!Before, Sw!Before,
       Copy!SameBlock, Sw!SameBlock, Copy!CSEable, Sw!CSEable, Copy!Id, Sw!Id, Copy!Slot, Sw!Slot

LEMMA SameErase ==
  ASSUME NEW gone, NEW v, Copy!Erase(gone, v)
  PROVE  Sw!Erase(gone, v)
BY DEF Copy!Erase, Sw!Erase, Copy!Rewritten, Sw!Rewritten, Copy!NoArgs,
       Sw!NoArgs, Copy!Id, Sw!Id, Copy!Slot, Sw!Slot

LEMMA SameChoices ==
  ASSUME NEW i
  PROVE  /\ Copy!Twins(i) = Sw!Twins(i)
         /\ Copy!TwinsInBlock(i) = Sw!TwinsInBlock(i)
         /\ Copy!LoadsErased(i) = Sw!LoadsErased(i)
         /\ Copy!Forwarded(i) = Sw!Forwarded(i)
         /\ Copy!Overwritten(i) <=> Sw!Overwritten(i)
BY DEF Copy!Twins, Sw!Twins, Copy!TwinsInBlock, Sw!TwinsInBlock,
       Copy!Identical, Sw!Identical, Copy!SameBlock, Sw!SameBlock,
       Copy!SameBlockLater, Sw!SameBlockLater, Copy!InChildBlock,
       Sw!InChildBlock, Copy!Kids, Sw!Kids, Copy!LoadsErased,
       Sw!LoadsErased, Copy!SameLoads, Sw!SameLoads, Copy!Loads,
       Sw!Loads, Copy!Stores, Sw!Stores, Copy!Forwarded, Sw!Forwarded,
       Copy!Forwardable, Sw!Forwardable, Copy!StoreStops, Sw!StoreStops,
       Copy!Overwritten, Sw!Overwritten

LEMMA SameCount ==
  ASSUME NEW S
  PROVE  /\ Copy!Cardinality(S) = Cardinality(S)
         /\ Sw!Cardinality(S) = Cardinality(S)
BY DEF Cardinality, Copy!Cardinality, Sw!Cardinality

\* A turn of the copy is a turn of project 2's pass.
LEMMA SameSweep ==
  ASSUME \/ CSEDead \/ CSESimplify \/ CSEElim \/ CSELdElim \/ CSEStore
         \/ CSEPass \/ Copy!Finish
  PROVE  Sw!Next
<1>1. ASSUME NEW i \in Id, Copy!EraseDead(i)
      PROVE  Sw!EraseDead(i)
  BY <1>1, SameTurn, SameErase
     DEF Copy!EraseDead, Sw!EraseDead, Copy!NextIn, Sw!NextIn,
         Copy!Count, Sw!Count
<1>2. ASSUME NEW i \in Id, Copy!Simplify(i)
      PROVE  Sw!Simplify(i)
  <2>1. Copy!Simplifications(i) = Sw!Simplifications(i)
    BY DEF Copy!Simplifications, Sw!Simplifications, Copy!Before,
           Sw!Before, Copy!SameBlock, Sw!SameBlock
  <2> QED
    BY <1>2, <2>1, SameTurn, SameErase
       DEF Copy!Simplify, Sw!Simplify, Copy!NextIn, Sw!NextIn,
           Copy!Count, Sw!Count
<1>3. ASSUME NEW i \in Id, Copy!EraseTwins(i)
      PROVE  Sw!EraseTwins(i)
  BY <1>3, SameTurn, SameErase, SameChoices, SameCount
     DEF Copy!EraseTwins, Sw!EraseTwins, Copy!NextIn, Sw!NextIn,
         Copy!Count, Sw!Count
<1>4. ASSUME NEW i \in Id, Copy!CrashOnUnreachable(i)
      PROVE  Sw!CrashOnUnreachable(i)
  BY <1>4, SameTurn, SameErase, SameChoices, SameCount
     DEF Copy!CrashOnUnreachable, Sw!CrashOnUnreachable, Copy!Count,
         Sw!Count
<1>5. ASSUME NEW i \in Id, Copy!EraseLoads(i)
      PROVE  Sw!EraseLoads(i)
  BY <1>5, SameTurn, SameErase, SameChoices, SameCount
     DEF Copy!EraseLoads, Sw!EraseLoads, Copy!NextIn, Sw!NextIn,
         Copy!Count, Sw!Count, Copy!Loads, Sw!Loads
<1>6. ASSUME NEW i \in Id, Copy!EraseAroundStore(i)
      PROVE  Sw!EraseAroundStore(i)
  BY <1>6, SameTurn, SameErase, SameChoices, SameCount
     DEF Copy!EraseAroundStore, Sw!EraseAroundStore, Copy!NextIn,
         Sw!NextIn, Copy!CountStore, Sw!CountStore, Copy!Stores,
         Sw!Stores
<1>7. ASSUME NEW i \in Id, Copy!Pass(i)
      PROVE  Sw!Pass(i)
  BY <1>7, SameTurn DEF Copy!Pass, Sw!Pass, Copy!NextIn, Sw!NextIn, Copy!Loads,
         Sw!Loads, Copy!Stores, Sw!Stores
<1>8. Copy!Finish => Sw!Finish
  BY DEF Copy!Finish, Sw!Finish
<1> QED BY <1>1, <1>2, <1>3, <1>4, <1>5, <1>6, <1>7, <1>8
        DEF CSEDead, CSESimplify, CSEElim, CSELdElim, CSEStore, CSEPass,
            Sw!Next, Sw!Id, Id

\* What is laid out is where the pass begins.
LEMMA SweepStarts ==
  ASSUME IsProgram(text'), UsesWellPlaced(text', args'), args' = text'.args,
         args' \in [Id -> [Slot -> Value]], live' = Id, at' = 1,
         status' = "running", counted' = [c \in Sw!Counter |-> 0]
  PROVE  Sw!Inv'
<1>1. 1 \in Id \cup {N + 1} /\ 1 \in 1..N+1
  BY SizeAssumption DEF Id
<1>2. Sw!TypeOK'
  BY <1>1 DEF Sw!TypeOK, IsProgram, Sw!IsProgram, Sw!Id, Id, Sw!Slot, Slot,
         Sw!Value, Value, Sw!Kind, Kind, Sw!Passing, Passing, Sw!Loads, Loads
<1>3. Sw!DefsDominateUses'
  BY DEF Sw!DefsDominateUses, Sw!UsesWellPlaced, UsesWellPlaced, Sw!MayUse,
         MayUse, Sw!Before, Before, Sw!Id, Id, Sw!Slot, Slot, Sw!Void, Void
<1>4. Sw!NoDanglingUse'
  BY DEF Sw!NoDanglingUse, Sw!UsesAlive, Sw!OperandsFilled, Sw!Id, Id,
         Sw!Slot, Slot
<1>5. Sw!IteratorValid' /\ Sw!EffectsKept'
  BY <1>1 DEF Sw!IteratorValid, Sw!EffectsKept, Sw!Id, Id
<1>6. Sw!StatsBalance'
  <2>1. Cardinality(Id) = N
    <3>1. 1 \in Int /\ N \in Int
      BY SizeAssumption
    <3>2. Cardinality(1..N) = IF 1 > N THEN 0 ELSE N - 1 + 1
      BY <3>1, FS_Interval
    <3> QED BY <3>2, SizeAssumption DEF Id
  <2>2. Sw!Total' = 0
    BY DEF Sw!Total, Sw!Counter
  <2> QED BY <2>1, <2>2, SameCount, SizeAssumption DEF Sw!StatsBalance
<1> QED BY <1>2, <1>3, <1>4, <1>5, <1>6 DEF Sw!Inv, Sw!Shape

-----------------------------------------------------------------------------
(* LICM keeps every block it moves to from being new.                      *)

LEMMA HomesStep ==
  ASSUME Inv, prog \in Programs, HomesFilled, [Next]_vars
  PROVE  HomesFilled'
<1>1. prog' = prog
  BY DEF Next, vars, Enter, SkipLoop, EnterBlock, Hoist, HoistLoad, CountStore,
         Stay, Visit, Leave, Stopped
<1>2. CASE home' = home
  BY <1>1, <1>2 DEF HomesFilled
<1>3. ASSUME NEW i \in Id, cur = i, MoveToPreheader(i)
      PROVE  HomesFilled'
  <2>1. cur # 0 /\ loop # {} /\ HasPreheader(loop)
    BY <1>3, IdIsNat DEF Inv, CurInside, LoopOpen
  <2>2. PICK b \in Block : Entering(loop) = {b} /\ Succs(b) = {Header(loop)}
    BY <2>1 DEF HasPreheader
  <2>3. Preheader(loop) = b
    BY <2>2 DEF Preheader
  <2>4. <<b, Header(loop)>> \in Edge[prog.graph]
    BY <2>2 DEF Succs
  <2>5. \E n \in Id : prog.blk[n] = b
    BY <2>4, LayoutAssumption
  <2>6. ASSUME NEW j \in Id
        PROVE  home'[j] = home[j] \/ home'[j] = b
    BY <1>3, <2>3 DEF MoveToPreheader, Inv, TypeOK
  <2> QED BY <1>1, <2>5, <2>6 DEF HomesFilled
<1>4. \/ home' = home
      \/ \E i \in Id : cur = i /\ MoveToPreheader(i)
  BY DEF Next, vars, Enter, SkipLoop, EnterBlock, Hoist, HoistLoad, CountStore,
         Stay, Visit, Leave, Stopped
<1> QED BY <1>2, <1>3, <1>4

-----------------------------------------------------------------------------
(* The invariant of the program.                                           *)

\* CSE has not begun.
NotBegun ==
  live = Id /\ at = 1 /\ counted = [c \in Sw!Counter |-> 0]

Moved == Inv /\ Kept /\ HomesFilled

Swept ==
  /\ status \in {"waiting", "running", "done", "crashed"}
  /\ status = "waiting" => NotBegun
  /\ status # "waiting" => Sw!Inv /\ text \in Texts

P3Inv == Moved /\ Swept

LEMMA SameWellFormed ==
  /\ Sw!UsesWellPlaced(text, args) <=> UsesWellPlaced(text, args)
  /\ Sw!TypeOK => /\ live \in SUBSET Id
                  /\ args \in [Id -> [Slot -> Value]]
<1>1. Sw!UsesWellPlaced(text, args) <=> UsesWellPlaced(text, args)
  BY DEF Sw!UsesWellPlaced, UsesWellPlaced, Sw!MayUse, MayUse, Sw!Before,
         Before, Sw!Id, Id, Sw!Slot, Slot, Sw!Void, Void
<1>2. Sw!TypeOK => /\ live \in SUBSET Id
                   /\ args \in [Id -> [Slot -> Value]]
  BY DEF Sw!TypeOK, Sw!Id, Id, Sw!Slot, Slot, Sw!Value, Value
<1> QED BY <1>1, <1>2

LEMMA LaidOutShape ==
  ASSUME Moved
  PROVE  /\ LaidOut \in Texts
         /\ LaidOut.args \in [Id -> [Slot -> Value]]
         /\ IsProgram(LaidOut)
         /\ UsesWellPlaced(LaidOut, LaidOut.args)
<1>1. /\ LaidOut.args \in [Id -> [Slot -> Value]]
      /\ IsProgram(LaidOut)
      /\ UsesWellPlaced(LaidOut, LaidOut.args)
  BY LaidOutWellFormed DEF Moved, Inv
<1>2. LaidOut = [kind |-> LaidOut.kind, blk |-> LaidOut.blk,
                 from |-> LaidOut.from, args |-> LaidOut.args,
                 graph |-> LaidOut.graph]
  BY DEF LaidOut
<1> QED BY <1>1, <1>2 DEF IsProgram, Texts

\* The module in memory is one the verifier accepts.
LEMMA MemoryAccepted ==
  ASSUME Moved, Swept
  PROVE  /\ InMemory \in Modules \cup {NoModule}
         /\ pc \in 3..9 => /\ InMemory \in Modules
                           /\ UsesWellPlaced(InMemory.text, InMemory.args)
<1>1. Modules = [text : Texts, live : SUBSET Id, args : [Id -> [Slot -> Value]]]
  BY DEF Modules, Texts
<1>2. CASE pc \notin 3..9
  BY <1>2 DEF InMemory
<1>3. CASE pc \in 3..9 /\ status = "waiting"
  <2>1. InMemory = [text |-> LaidOut, live |-> Id, args |-> LaidOut.args]
    BY <1>3 DEF InMemory
  <2> QED BY <1>1, <2>1, LaidOutShape
<1>4. CASE pc \in 3..9 /\ status # "waiting"
  <2>1. InMemory = [text |-> text, live |-> live, args |-> args]
    BY <1>4 DEF InMemory
  <2>2. Sw!TypeOK /\ Sw!UsesWellPlaced(text, args) /\ text \in Texts
    BY <1>4 DEF Swept, Sw!Inv, Sw!Shape, Sw!DefsDominateUses
  <2> QED BY <1>1, <2>1, <2>2, SameWellFormed
<1> QED BY <1>2, <1>3, <1>4

LEMMA MemoryIsModule == Moved /\ Swept /\ pc \in 3..9 => InMemory \in Modules
BY MemoryAccepted

\* ... after a step as before it.
LEMMA MemoryAfterwards ==
  Moved' /\ Swept' /\ pc' \in 3..9 => InMemory' \in Modules
<1>1. (Moved /\ Swept /\ pc \in 3..9 => InMemory \in Modules)'
  BY MemoryIsModule, PTL
<1>2. Modules' = Modules
  BY DEF Modules
<1> QED BY <1>1, <1>2

LEMMA P3InvInit == P3Init => P3Inv
<1> SUFFICES ASSUME P3Init PROVE P3Inv
  OBVIOUS
<1>1. Init /\ status = "waiting" /\ NotBegun
  BY DEF P3Init, NotBegun, Copy!Counter, Sw!Counter
<1>2. Moved
  <2>1. HomesFilled
    BY <1>1 DEF HomesFilled, Init
  <2> QED BY <1>1, <2>1, InvInit, KeptInit DEF Moved
<1> QED BY <1>1, <1>2 DEF P3Inv, Swept

LEMMA MovedStep ==
  ASSUME Moved, [Next]_vars
  PROVE  Moved'
<1>1. prog' = prog
  BY DEF Next, vars, Enter, SkipLoop, EnterBlock, Hoist, HoistLoad, CountStore,
         Stay, Visit, Leave, Stopped
<1>2. Inv /\ Kept /\ HomesFilled /\ prog \in Programs
  BY DEF Moved, Kept
<1> QED BY <1>2, InvStep, KeptStep, HomesStep DEF Moved

\* project 2's proof, for a copy that has begun.
LEMMA CopyStep ==
  ASSUME Sw!Inv, [Sw!Next]_(Sw!vars)
  PROVE  Sw!Inv'
BY Sw!InvStep, SameAssumptions

LEMMA SweptStays ==
  ASSUME Swept, UNCHANGED <<text, live, args, at, status, counted>>
  PROVE  Swept'
<1>1. status # "waiting" => Sw!Inv'
  BY CopyStep DEF Swept, Sw!vars
<1> QED BY <1>1 DEF Swept, NotBegun, Texts, Sw!Counter

LEMMA MotionStep ==
  ASSUME P3Inv, Motion
  PROVE  P3Inv'
<1>1. Next /\ UNCHANGED <<text, live, args, at, status, counted>>
  BY DEF Motion
<1> QED BY <1>1, MovedStep, SweptStays DEF P3Inv

LEMMA StartStep ==
  ASSUME P3Inv, StartCSE
  PROVE  P3Inv'
<1>1. /\ status = "waiting" /\ status' = "running"
      /\ text' = LaidOut /\ args' = text'.args
      /\ UNCHANGED <<vars, live, at, counted>>
  BY DEF StartCSE
<1>2. /\ text' \in Texts /\ IsProgram(text') /\ UsesWellPlaced(text', args')
      /\ args' \in [Id -> [Slot -> Value]]
  BY <1>1, LaidOutShape DEF P3Inv
<1>3. live' = Id /\ at' = 1 /\ counted' = [c \in Sw!Counter |-> 0]
  BY <1>1 DEF P3Inv, Swept, NotBegun
<1>4. Sw!Inv'
  BY <1>1, <1>2, <1>3, SweepStarts
<1>5. Moved'
  BY <1>1, MovedStep DEF P3Inv
<1> QED BY <1>1, <1>2, <1>4, <1>5 DEF P3Inv, Swept, Texts

LEMMA SweepStep ==
  ASSUME P3Inv, Sweep
  PROVE  P3Inv'
<1>1. Sw!Next /\ UNCHANGED vars
  BY SameSweep DEF Sweep
<1>2. status = "running" /\ text' = text /\ status' \in {"running", "done", "crashed"}
  BY DEF Sweep, CSEDead, CSESimplify, CSEElim, CSELdElim, CSEStore, CSEPass,
         Copy!EraseDead, Copy!Simplify, Copy!EraseTwins, Copy!CrashOnUnreachable,
         Copy!EraseLoads, Copy!EraseAroundStore, Copy!Pass, Copy!Finish,
         Copy!Examine, Copy!At
<1>3. Sw!Inv' /\ text' \in Texts
  BY <1>1, <1>2, CopyStep DEF P3Inv, Swept
<1>4. Moved'
  BY <1>1, MovedStep DEF P3Inv
<1> QED BY <1>1, <1>2, <1>3, <1>4 DEF P3Inv, Swept, Texts

\* The statements of main outside the two passes.
LEMMA MainStep ==
  ASSUME P3Inv, Begin \/ Read \/ EndOfWork \/ Statement \/ Signal \/ Ended
  PROVE  P3Inv'
<1>1. UNCHANGED pass
  BY DEF Begin, Read, EndOfWork, Statement, Signal, Ended, p3
<1>2. Moved' /\ Swept'
  BY <1>1, MovedStep, SweptStays DEF pass, P3Inv
<1> QED BY <1>2 DEF P3Inv

LEMMA P3InvStep == P3Inv /\ [P3Next]_p3 => P3Inv'
<1> SUFFICES ASSUME P3Inv, [P3Next]_p3 PROVE P3Inv'
  OBVIOUS
<1>1. CASE UNCHANGED p3
  <2>1. Moved' /\ Swept'
    BY <1>1, MovedStep, SweptStays DEF p3, pass, P3Inv
  <2> QED BY <2>1 DEF P3Inv
<1> QED BY <1>1, MotionStep, StartStep, SweepStep, MainStep DEF P3Next

LEMMA P3InvHolds == P3Spec => []P3Inv
BY P3InvInit, P3InvStep, PTL DEF P3Spec

\* Whatever function, loops and constants: LICM and then CSE leave a module
\* that the verifier run of p3.cpp's main accepts, at whatever point the
\* program verifies it.
THEOREM P3NeverRefused == P3Spec => []NeverRefused
<1>1. P3Inv => NeverRefused
  <2> SUFFICES ASSUME P3Inv, Main!At("verify") PROVE InMemory \notin Broken
    BY DEF NeverRefused
  <2>1. pc \in 3..9
    BY DEF Main!At, Main!Mains, Main!P3Main
  <2> QED BY <2>1, MemoryAccepted DEF P3Inv, Broken
<1> QED BY P3InvHolds, <1>1, PTL

-----------------------------------------------------------------------------
(* The file behaves as the one that was read.                              *)

\* What LICM leaves is a function that the pass may be given.
LEMMA LaidOutFunction ==
  ASSUME Moved
  PROVE  LaidOut \in Functions
<1>1. /\ LaidOut \in Texts /\ IsProgram(LaidOut)
      /\ UsesWellPlaced(LaidOut, LaidOut.args)
  BY LaidOutShape
<1>2. /\ OldNumber \in [Id -> Id] /\ prog \in Programs /\ PhisStay
  BY Numbering DEF Moved, Inv, TypeOK, Kept
<1>3. /\ LaidOut.kind = [n \in Id |-> prog.kind[OldNumber[n]]]
      /\ LaidOut.blk = [n \in Id |-> home[OldNumber[n]]]
      /\ LaidOut.from = [n \in Id |-> prog.from[OldNumber[n]]]
      /\ LaidOut.graph = prog.graph
  BY DEF LaidOut
<1>4. PhisFed(LaidOut)
  <2> SUFFICES ASSUME NEW path \in Path[LaidOut.graph], NEW n \in Id,
                      NEW k \in 1..Len(path),
                      LaidOut.kind[n] = "phi", LaidOut.blk[n] = path[k]
               PROVE  k > 1 /\ \E s \in Slot : LaidOut.from[n][s] = path[k - 1]
    BY DEF PhisFed
  <2> DEFINE i == OldNumber[n]
  <2>1. /\ i \in Id /\ LaidOut.kind[n] = prog.kind[i] /\ LaidOut.blk[n] = home[i]
        /\ LaidOut.from[n] = prog.from[i] /\ path \in Path[prog.graph]
    BY <1>2, <1>3
  <2> HIDE DEF i
  <2>2. prog.kind[i] = "phi" /\ prog.blk[i] = path[k]
    BY <1>2, <2>1 DEF PhisStay
  <2> QED BY <1>2, <2>1, <2>2, PhiAssumption
<1> QED BY <1>1, <1>4 DEF Functions

\* Where the copy begins it has changed nothing.
LEMMA CopyStarts ==
  text \in Functions /\ live = Id /\ args = text.args => Sw!SoundSoFar
<1> SUFFICES ASSUME text \in Functions, live = Id, args = text.args
             PROVE  Sw!SoundSoFar
  OBVIOUS
<1>1. Sw!Left = Sw!Parsed(text)
  BY DEF Sw!Left, Sw!Parsed, Sw!Id, Id
<1> QED BY <1>1 DEF Sw!SoundSoFar, Sw!Done, Sw!Agree

LEMMA CopySound ==
  ASSUME Sw!Inv, Sw!SoundSoFar, [Sw!Next]_(Sw!vars)
  PROVE  Sw!SoundSoFar'
BY Sw!SoundStep, SameAssumptions

\* The copy works on what LICM has left, and changes none of its behaviour.
Begun ==
  status # "waiting" => Done /\ text = LaidOut /\ Sw!SoundSoFar

\* The module that is in memory until main returns.
Outcome ==
  IF status = "waiting" THEN [text |-> LaidOut, live |-> Id, args |-> LaidOut.args]
                        ELSE [text |-> text, live |-> live, args |-> args]

\* It is what a program that ends well leaves.
Filed ==
  /\ pc = 9 => out = "kept"
  /\ exit = "0" => pc = 0 /\ target = Outcome

Faithful == Begun /\ Filed

LEMMA FaithfulInit == P3Init => Faithful
BY DEF P3Init, Faithful, Begun, Filed

\* The place of each statement.
LEMMA Places ==
  /\ Main!At("open") => pc = 1
  /\ Main!At("parse") => pc = 2
  /\ Main!At("work") => pc = 3
  /\ Main!At("stats") => pc = 4
  /\ Main!At("print") => pc = 5
  /\ Main!At("verify") => pc = 6
  /\ Main!At("write") => pc = 7
  /\ Main!At("keep") => pc = 8
  /\ Main!End => pc = 9
BY DEF Main!At, Main!End, Main!Mains, Main!P3Main

LEMMA MotionFaithful ==
  ASSUME P3Inv, Faithful, Motion
  PROVE  Faithful'
<1>1. /\ ~Done /\ status' = status /\ pc = 3 /\ pc' = pc /\ exit' = exit
  BY Places DEF Motion, Working
<1>2. status = "waiting" /\ exit # "0"
  BY <1>1 DEF Faithful, Begun, Filed
<1> QED BY <1>1, <1>2 DEF Faithful, Begun, Filed

LEMMA StartFaithful ==
  ASSUME P3Inv, Faithful, StartCSE
  PROVE  Faithful'
<1>1. /\ Done /\ text' = LaidOut /\ args' = text'.args /\ pc = 3 /\ pc' = pc
      /\ exit' = exit /\ UNCHANGED vars /\ live' = live /\ status = "waiting"
  BY Places DEF StartCSE, Working
<1>2. Done' /\ LaidOut' = LaidOut
  <2>1. UNCHANGED vars
    BY <1>1
  <2>2. (Done' <=> Done) /\ LaidOut' = LaidOut
    BY ONLY <2>1
       DEF vars, Done, LaidOut, OldNumber, NewNumber, LaidBefore, Precedes, Place
  <2> QED BY <1>1, <2>2
<1>3. text' \in Functions
  BY <1>1, LaidOutFunction DEF P3Inv
<1>4. live' = Id
  BY <1>1 DEF P3Inv, Swept, NotBegun
<1>5. (text \in Functions /\ live = Id /\ args = text.args => Sw!SoundSoFar)'
  BY CopyStarts, PTL
<1>6. Sw!SoundSoFar'
  BY <1>1, <1>3, <1>4, <1>5
<1>7. exit # "0"
  BY <1>1 DEF Faithful, Filed
<1> QED BY <1>1, <1>2, <1>6, <1>7 DEF Faithful, Begun, Filed

LEMMA BegunStays ==
  ASSUME P3Inv, Begun, UNCHANGED vars, text' = text,
         \/ UNCHANGED <<live, args, at, status, counted>>
         \/ status # "waiting" /\ Sw!Next
  PROVE  Begun'
<1>1. (Done' <=> Done) /\ LaidOut' = LaidOut
  BY DEF vars, Done, LaidOut, OldNumber, NewNumber, LaidBefore, Precedes, Place
<1>2. CASE status = "waiting"
  BY <1>2 DEF Begun
<1>3. CASE status # "waiting"
  <2>1. Sw!Inv /\ Sw!SoundSoFar
    BY <1>3 DEF P3Inv, Swept, Begun
  <2>2. [Sw!Next]_(Sw!vars)
    BY DEF Sw!vars
  <2>3. Sw!SoundSoFar'
    BY <2>1, <2>2, CopySound
  <2> QED BY <1>1, <1>3, <2>3 DEF Begun
<1> QED BY <1>2, <1>3

LEMMA SweepFaithful ==
  ASSUME P3Inv, Faithful, Sweep
  PROVE  Faithful'
<1>1. /\ Sw!Next /\ UNCHANGED vars /\ pc = 3 /\ pc' = pc /\ exit' = exit
  BY SameSweep, Places DEF Sweep, Working
<1>2. status = "running" /\ text' = text
  BY DEF Sweep, CSEDead, CSESimplify, CSEElim, CSELdElim, CSEStore, CSEPass,
         Copy!EraseDead, Copy!Simplify, Copy!EraseTwins, Copy!CrashOnUnreachable,
         Copy!EraseLoads, Copy!EraseAroundStore, Copy!Pass, Copy!Finish,
         Copy!Examine, Copy!At
<1>3. Begun'
  BY <1>1, <1>2, BegunStays DEF Faithful
<1> QED BY <1>1, <1>3 DEF Faithful, Filed

LEMMA MainFaithful ==
  ASSUME P3Inv, Faithful,
         Begin \/ Read \/ EndOfWork \/ Statement \/ Signal \/ Ended \/ UNCHANGED p3
  PROVE  Faithful'
<1>1. UNCHANGED pass
  BY DEF Begin, Read, EndOfWork, Statement, Signal, Ended, p3
<1>2. Begun'
  BY <1>1, BegunStays DEF pass, Faithful
<1>3. Outcome' = Outcome
  BY <1>1 DEF pass, vars, Outcome, LaidOut, OldNumber, NewNumber, LaidBefore,
              Precedes, Place
<1>4. Filed'
  <2>1. CASE Begin
    BY <2>1 DEF Begin, Main!Start, Filed
  <2>2. CASE Read \/ EndOfWork
    BY <2>2, Places DEF Read, EndOfWork, Faithful, Filed
  <2>3. CASE Signal
    BY <2>3 DEF Signal, Main!Interrupt, Main!Kill, Main!Gone, Filed
  <2>4. CASE Ended \/ UNCHANGED p3
    BY <1>3, <2>4 DEF Ended, p3, Faithful, Filed
  <2>5. ASSUME Statement, Main!End
        PROVE  Filed'
    <3>1. pc = 9 /\ out = "kept"
      BY <2>5, Places DEF Faithful, Filed
    <3>2. target' = InMemory /\ pc' = 0
      BY <2>5, <3>1 DEF Main!End, Main!Return, Main!Close, Main!Gone
    <3>3. InMemory = Outcome
      BY <3>1 DEF InMemory, Outcome
    <3> QED BY <1>3, <3>2, <3>3 DEF Filed
  <2>6. ASSUME Statement, Main!Keep
        PROVE  Filed'
    BY <2>6, Places DEF Main!Keep, Main!Advance, Faithful, Filed
  <2>7. ASSUME Statement, \/ Main!Open \/ Main!Stats \/ Main!PrintStats \/ Main!Verify
                          \/ Main!Write
        PROVE  Filed'
    <3>1. /\ pc \in {1, 4, 5, 6, 7} /\ pc' = pc + 1 /\ exit' = exit
      BY <2>7, Places DEF Main!Open, Main!Stats, Main!PrintStats, Main!Verify,
                          Main!Write, Main!Advance
    <3> QED BY <3>1 DEF Faithful, Filed
  <2>8. ASSUME Statement, Main!ParseFails \/ Main!VerifyFails
        PROVE  Filed'
    BY <2>8 DEF Main!ParseFails, Main!VerifyFails, Main!Return, Main!Gone, Filed
  <2> QED BY <2>1, <2>2, <2>3, <2>4, <2>5, <2>6, <2>7, <2>8 DEF Statement
<1> QED BY <1>2, <1>4 DEF Faithful

LEMMA FaithfulStep == P3Inv /\ Faithful /\ [P3Next]_p3 => Faithful'
BY MotionFaithful, StartFaithful, SweepFaithful, MainFaithful DEF P3Next

-----------------------------------------------------------------------------
(* The runs of the function under its old and its new numbers.             *)

\* What LICM left, in the order of the new numbers.
Relaid == Body(Id, prog.args, home, OldNumber)

\* The module of the file, of the function under its new numbers.
Filled == Body(target.live, target.args, LaidOut.blk, [n \in Id |-> n])

LEMMA CopyRun ==
  ASSUME NEW P, NEW body, NEW env, NEW path
  PROVE  Sw!Run(P, body, env, path) = Run(P, body, env, path)
BY DEF Sw!Run, Run, Sw!ThroughPath, ThroughPath, Sw!ThroughBlock, ThroughBlock,
       Sw!Turns, Turns, Sw!Turn, Turn, Sw!Phis, Phis, Sw!Incoming, Incoming,
       Sw!Machine, Machine, Sw!Effect, Effect, Sw!ValueOf, ValueOf, Sw!Traps, Traps,
       Sw!Result, Result, Sw!MemoryAfter, MemoryAfter, Sw!SeenAfter, SeenAfter,
       Sw!Observed, Observed, Sw!Reads, Reads, Sw!Loads, Loads, Sw!Stores, Stores,
       Sw!Computed, Computed, Sw!Id, Id, Sw!Slot, Slot

LEMMA RelaidRuns ==
  ASSUME Moved, NEW env \in Env, NEW path \in Path[prog.graph]
  PROVE  /\ IsRun(prog, Left, env, path) /\ IsRun(prog, Relaid, env, path)
         /\ Run(prog, Relaid, env, path) = Run(prog, Left, env, path)
<1>1. /\ TypeOK /\ prog \in Programs /\ PhisStay /\ HomesFilled
      /\ stamp \in [Id -> Nat]
  BY DEF Moved, Inv, Kept, TypeOK
<1>2. IsRun(prog, Left, env, path)
  BY <1>1, LeftRuns
<1>3. /\ Left.live = Id /\ Left.args = prog.args /\ Left.home = home /\ Left.order = Order
      /\ Relaid.live = Id /\ Relaid.args = prog.args /\ Relaid.home = home
      /\ Relaid.order = OldNumber
  BY DEF Left, Relaid, Body
<1>4. /\ NewNumber \in [Id -> Id] /\ OldNumber \in [Id -> Id]
      /\ \A n \in Id : NewNumber[OldNumber[n]] = n
      /\ \A i \in Id : OldNumber[NewNumber[i]] = i
  BY <1>1, Numbering
<1>5. Enumerates(OldNumber, NewNumber)
  BY <1>4 DEF Enumerates, Id
<1>6. Enumerates(Order, Rank) /\ \A x, y \in Id : Rank[x] < Rank[y] <=> Precedes(x, y)
  BY <1>1, OrderRanks
<1>7. ASSUME NEW x \in Id, NEW y \in Id, home[x] = home[y]
      PROVE  Precedes(x, y) <=> NewNumber[x] < NewNumber[y]
  <2>1. /\ Precedes(x, y) <=> LaidBefore(x, y)
        /\ Precedes(y, x) <=> LaidBefore(y, x)
    BY <1>7 DEF LaidBefore
  <2>2. /\ LaidBefore(x, y) => NewNumber[x] < NewNumber[y]
        /\ LaidBefore(y, x) => NewNumber[y] < NewNumber[x]
    BY <1>1, NumbersAscend
  <2>3. x # y => LaidBefore(x, y) \/ LaidBefore(y, x)
    BY <1>1, LaidBeforeOrder
  <2>4. NewNumber[x] \in Int /\ NewNumber[y] \in Int
    BY <1>4 DEF Id
  <2> QED BY <2>1, <2>2, <2>3, <2>4
<1>8. IsRun(prog, Relaid, env, path)
  <2>1. OldNumber \in [1..N -> Id]
    BY <1>4 DEF Id
  <2>2. IsBody(Relaid)
    BY <1>2, <1>3, <2>1 DEF IsRun, IsBody
  <2> QED BY <1>2, <1>3, <2>2 DEF IsRun
<1> QED BY <1>2, <1>3, <1>5, <1>6, <1>7, <1>8, Reordered

LEMMA LaidOutRenumbers ==
  ASSUME Moved
  PROVE  /\ Renumbers(NewNumber, OldNumber)
         /\ LaidOut.graph = prog.graph
         /\ \A i \in Id : /\ LaidOut.kind[NewNumber[i]] = prog.kind[i]
                          /\ LaidOut.from[NewNumber[i]] = prog.from[i]
                          /\ LaidOut.blk[NewNumber[i]] = home[i]
                          /\ \A s \in Slot : LaidOut.args[NewNumber[i]][s] =
                                               Anew(NewNumber, prog.args[i][s])
<1>1. /\ NewNumber \in [Id -> Id] /\ OldNumber \in [Id -> Id]
      /\ \A n \in Id : NewNumber[OldNumber[n]] = n
      /\ \A i \in Id : OldNumber[NewNumber[i]] = i
  BY Numbering DEF Moved, Inv, TypeOK
<1>2. /\ LaidOut.kind = [n \in Id |-> prog.kind[OldNumber[n]]]
      /\ LaidOut.blk = [n \in Id |-> home[OldNumber[n]]]
      /\ LaidOut.from = [n \in Id |-> prog.from[OldNumber[n]]]
      /\ LaidOut.args = [n \in Id |-> [s \in Slot |->
                                         Anew(NewNumber, prog.args[OldNumber[n]][s])]]
      /\ LaidOut.graph = prog.graph
  BY DEF LaidOut, Anew
<1> QED BY <1>1, <1>2 DEF Renumbers

\* The two ends of a path through CSE.
LEMMA FiledAgree ==
  ASSUME P3Inv, Faithful, exit = "0", NEW env \in Env, PlainMemory(prog, env),
         NEW path \in Path[prog.graph]
  PROVE  Agree({}, Run(LaidOut, Parsed(LaidOut), EnvAnew(env, OldNumber), path),
                   Run(LaidOut, Filled, EnvAnew(env, OldNumber), path))
<1> DEFINE E == EnvAnew(env, OldNumber)
<1>1. target = Outcome
  BY DEF Faithful, Filed
<1>2. CASE status = "waiting"
  <2>1. Filled = Parsed(LaidOut)
    BY <1>1, <1>2 DEF Filled, Outcome, Parsed
  <2> QED BY <2>1 DEF Agree
<1>3. CASE status # "waiting"
  <2>1. text = LaidOut /\ Sw!SoundSoFar
    BY <1>3 DEF Faithful, Begun
  <2>2. text \in Functions /\ Moved /\ IsEnv(env)
    BY <2>1, LaidOutFunction, EnvAssumption DEF P3Inv
  <2>3. E \in Environments
    <3>1. IsEnv(E)
      BY <2>2, LaidOutRenumbers, EnvAnewIsEnv
    <3>2. E = [leaf |-> E.leaf, frame |-> E.frame, mem |-> E.mem, clobbers |-> E.clobbers]
      BY DEF EnvAnew
    <3> HIDE DEF E
    <3> QED BY <3>1, <3>2 DEF IsEnv, Environments
  <2>4. Sw!PlainMemory(text, E)
    <3>1. \A n \in Id : OldNumber[n] \in Id /\ LaidOut.kind[n] = prog.kind[OldNumber[n]]
      BY <2>2, LaidOutRenumbers DEF Renumbers
    <3>2. E.clobbers = env.clobbers
      BY DEF EnvAnew
    <3> QED BY <2>1, <3>1, <3>2 DEF PlainMemory, Sw!PlainMemory, Sw!Id, Id
  <2>5. path \in Path[text.graph]
    BY <2>1, <2>2, LaidOutRenumbers
  <2>6. Sw!IsQuietRun(E, path)
    BY <2>2, <2>3, <2>4, <2>5 DEF Sw!IsQuietRun
  <2>7. Sw!Agree({}, Sw!Run(text, Sw!Parsed(text), E, path), Sw!Run(text, Sw!Left, E, path))
    BY <2>1, <2>6 DEF Sw!SoundSoFar, Sw!Done
  <2>8. Sw!Parsed(text) = Parsed(LaidOut) /\ Sw!Left = Filled
    BY <1>1, <1>3, <2>1 DEF Sw!Parsed, Parsed, Sw!Left, Filled, Outcome, Sw!Body, Body, Sw!Id, Id
  <2> HIDE DEF E
  <2>9. Agree({}, Run(LaidOut, Parsed(LaidOut), E, path), Run(LaidOut, Filled, E, path))
    BY <2>1, <2>7, <2>8, CopyRun DEF Sw!Agree, Agree
  <2> QED BY <2>9 DEF E
<1> QED BY <1>2, <1>3

LEMMA FileIsModule ==
  ASSUME P3Inv, Faithful, exit = "0"
  PROVE  target.live \in SUBSET Id /\ target.args \in [Id -> [Slot -> Value]]
<1>1. target = Outcome
  BY DEF Faithful, Filed
<1>2. CASE status = "waiting"
  BY <1>1, <1>2, LaidOutShape DEF Outcome, P3Inv
<1>3. CASE status # "waiting"
  <2>1. Sw!TypeOK
    BY <1>3 DEF P3Inv, Swept, Sw!Inv, Sw!Shape
  <2> QED BY <1>1, <1>3, <2>1, SameWellFormed DEF Outcome
<1> QED BY <1>2, <1>3

LEMMA WrittenRenumbered ==
  ASSUME P3Inv, Faithful, exit = "0", NEW env \in Env, NEW path \in Path[prog.graph]
  PROVE  /\ IsRun(prog, Written, env, path)
         /\ IsProgram(LaidOut) /\ IsBody(Parsed(LaidOut)) /\ IsBody(Filled)
         /\ IsRenumbered(prog, Relaid, LaidOut, Parsed(LaidOut), NewNumber, OldNumber)
         /\ IsRenumbered(prog, Written, LaidOut, Filled, NewNumber, OldNumber)
<1> DEFINE new == NewNumber
           old == OldNumber
<1>1. Moved
  BY DEF P3Inv
<1>2. /\ new \in [Id -> Id] /\ old \in [Id -> Id]
      /\ \A n \in Id : new[old[n]] = n
      /\ \A i \in Id : old[new[i]] = i
      /\ Renumbers(new, old)
  BY <1>1, LaidOutRenumbers DEF Renumbers
<1>3. target.live \in SUBSET Id /\ target.args \in [Id -> [Slot -> Value]]
  BY FileIsModule
<1>4. /\ Filled.live = target.live /\ Filled.args = target.args
      /\ Filled.home = LaidOut.blk /\ Filled.order = [n \in Id |-> n]
      /\ Parsed(LaidOut).live = Id /\ Parsed(LaidOut).args = LaidOut.args
      /\ Parsed(LaidOut).home = LaidOut.blk /\ Parsed(LaidOut).order = [n \in Id |-> n]
      /\ Relaid.live = Id /\ Relaid.args = prog.args /\ Relaid.home = home
      /\ Relaid.order = old
  BY DEF Filled, Parsed, Relaid, Body
<1>5. /\ Written.live = {old[n] : n \in target.live}
      /\ Written.args = [i \in Id |-> [s \in Slot |-> Anew(old, target.args[new[i]][s])]]
      /\ Written.home = home /\ Written.order = old
  BY DEF Written, Body, Anew
<1>6. IsProgram(LaidOut) /\ IsBody(Parsed(LaidOut))
  BY <1>1, LaidOutShape, ParsedIsBody
<1>7. IsBody(Filled)
  BY <1>3, <1>4, <1>6 DEF IsBody
<1>8. IsRun(prog, Relaid, env, path)
  BY <1>1, RelaidRuns
<1> HIDE DEF new, old
<1>9. ASSUME NEW v \in Value
      PROVE  Anew(old, v) \in Value /\ Anew(new, Anew(old, v)) = v
  BY <1>2, LeafAssumption DEF Anew, Value
<1>10. IsRun(prog, Written, env, path)
  <2>1. Written.args \in [Id -> [Slot -> Value]]
    BY <1>2, <1>3, <1>5, <1>9
  <2>2. Written.live \subseteq Id
    BY <1>2, <1>3, <1>5
  <2>3. IsBody(Written)
    BY <1>4, <1>5, <1>8, <2>1, <2>2 DEF IsRun, IsBody
  <2> QED BY <1>4, <1>5, <1>8, <2>3 DEF IsRun
<1>11. IsRenumbered(prog, Relaid, LaidOut, Parsed(LaidOut), new, old)
  <2>1. \A n \in 1..N : Parsed(LaidOut).order[n] = new[Relaid.order[n]]
    BY <1>2, <1>4 DEF Id
  <2> QED BY <1>1, <1>2, <1>4, <2>1, LaidOutRenumbers DEF IsRenumbered, new
<1>12. IsRenumbered(prog, Written, LaidOut, Filled, new, old)
  <2>1. \A n \in 1..N : Filled.order[n] = new[Written.order[n]]
    BY <1>2, <1>4, <1>5 DEF Id
  <2>2. ASSUME NEW i \in Id
        PROVE  i \in Written.live <=> new[i] \in Filled.live
    BY <1>2, <1>3, <1>4, <1>5
  <2>3. ASSUME NEW i \in Id, NEW s \in Slot
        PROVE  Filled.args[new[i]][s] = Anew(new, Written.args[i][s])
    <3>1. new[i] \in Id /\ target.args[new[i]][s] \in Value
      BY <1>2, <1>3
    <3>2. Written.args[i][s] = Anew(old, target.args[new[i]][s])
      BY <1>5
    <3> QED BY <1>4, <1>9, <3>1, <3>2
  <2>4. ASSUME NEW i \in Id
        PROVE  /\ LaidOut.kind[new[i]] = prog.kind[i]
               /\ LaidOut.from[new[i]] = prog.from[i]
               /\ Filled.home[new[i]] = Written.home[i]
    BY <1>1, <1>4, <1>5, LaidOutRenumbers DEF new
  <2> QED BY <1>2, <2>1, <2>2, <2>3, <2>4 DEF IsRenumbered
<1> QED BY <1>6, <1>7, <1>10, <1>11, <1>12 DEF new, old

\* Without atomics and calls that write memory: what p3 writes behaves as
\* what it read, on every path that leaves the loops, whatever its pointers
\* alias and whether the passes were asked for or not.
THEOREM P3EndToEnd == P3Spec => []EndToEnd
<1>1. P3Inv /\ Faithful => EndToEnd
  <2> SUFFICES ASSUME P3Inv, Faithful, exit = "0"
               PROVE  SameBehaviour(prog, Written, {env \in Env : PlainMemory(prog, env)})
    BY DEF EndToEnd
  <2>1. ASSUME NEW env \in Env, PlainMemory(prog, env), NEW path \in Path[prog.graph]
        PROVE  Agree({}, Run(prog, Parsed(prog), env, path), Run(prog, Written, env, path))
    <3> DEFINE a == Run(prog, Parsed(prog), env, path)
               b == Run(prog, Relaid, env, path)
               c == Run(LaidOut, Parsed(LaidOut), EnvAnew(env, OldNumber), path)
               d == Run(LaidOut, Filled, EnvAnew(env, OldNumber), path)
               e == Run(prog, Written, env, path)
    <3>1. Moved
      BY DEF P3Inv
    <3>2. SameSoFar
      BY <2>1, <3>1 DEF Moved, Kept, PlainMemory
    <3>3. Agree({}, a, b)
      <4>1. Run(prog, Left, env, path) = b
        BY <3>1, RelaidRuns
      <4>2. Agree({}, a, Run(prog, Left, env, path))
        BY <3>2 DEF SameSoFar
      <4> HIDE DEF a, b
      <4> QED BY <4>1, <4>2
    <3>4. /\ IsRun(prog, Relaid, env, path) /\ IsRun(prog, Written, env, path)
          /\ IsProgram(LaidOut) /\ IsBody(Parsed(LaidOut)) /\ IsBody(Filled)
          /\ IsRenumbered(prog, Relaid, LaidOut, Parsed(LaidOut), NewNumber, OldNumber)
          /\ IsRenumbered(prog, Written, LaidOut, Filled, NewNumber, OldNumber)
      BY <3>1, RelaidRuns, WrittenRenumbered
    <3>5. SameMachine(b, c, NewNumber)
      BY <3>4, Renumbered
    <3>6. SameMachine(e, d, NewNumber)
      BY <3>4, Renumbered
    <3>7. Agree({}, c, d)
      BY <2>1, FiledAgree
    <3>8. Renumbers(NewNumber, OldNumber)
      BY <3>1, LaidOutRenumbers
    <3> HIDE DEF a, b, c, d, e
    <3>9. Agree({}, a, e)
      <4>1. CASE a.trap
        BY <4>1 DEF Agree
      <4>2. CASE ~a.trap
        <5>1. ~b.trap /\ b.mem = a.mem /\ b.seen = a.seen
          BY <3>3, <4>2 DEF Agree
        <5>2. ~c.trap /\ ~d.trap /\ d.mem = c.mem /\ d.seen = c.seen
          BY <3>5, <3>7, <5>1 DEF Agree, SameMachine
        <5>3. ~e.trap /\ e.mem = a.mem
          BY <3>5, <3>6, <5>1, <5>2 DEF SameMachine
        <5>4. e.seen = b.seen
          <6>1. b.seen \in Seq(Event) /\ e.seen \in Seq(Event)
            BY <3>5, <3>6 DEF SameMachine, Machines
          <6>2. SameSeen(b.seen, c.seen, NewNumber) /\ SameSeen(e.seen, c.seen, NewNumber)
            BY <3>5, <3>6, <5>2 DEF SameMachine
          <6> QED BY <3>8, <6>1, <6>2, SameSeenTwice
        <5> QED BY <5>1, <5>3, <5>4 DEF Agree
      <4> QED BY <4>1, <4>2
    <3> QED BY <3>9 DEF a, e
  <2>2. \A env \in {x \in Env : PlainMemory(prog, x)}, path \in Path[prog.graph] :
          Agree({}, Run(prog, Parsed(prog), env, path), Run(prog, Written, env, path))
    BY <2>1
  <2> QED BY <2>2, AgreeBehaviour
<1> QED BY P3InvInit, P3InvStep, FaithfulInit, FaithfulStep, <1>1, PTL DEF P3Spec

-----------------------------------------------------------------------------
(* The refinement.                                                         *)

\* Where the statements of the program stand.
LEMMA InitRefines == P3Init => Main!DriverInit
BY DEF P3Init, Main!DriverInit, Main!Mains, InMemory

\* Parsing, and each turn of the two passes, leaves a module in memory.
LEMMA WorkRefines ==
  ASSUME P3Inv, P3Inv', Read \/ Motion \/ StartCSE \/ Sweep \/ EndOfWork
  PROVE  Main!DriverNext
<1>1. pc' \in 3..9 => InMemory' \in Modules
  BY MemoryAfterwards DEF P3Inv
<1>2. CASE Read
  <2>1. pc' = 3
    BY <1>2, Places DEF Read
  <2>2. Main!Parse
    BY <1>1, <1>2, <2>1 DEF Read, Main!Parse, Main!Advance
  <2> QED BY <2>2 DEF Main!DriverNext, Main!Statement
<1>3. CASE Motion \/ StartCSE \/ Sweep
  <2>1. Working
    BY <1>3 DEF Motion, StartCSE, Sweep
  <2>2. pc' = 3
    BY <2>1, Places DEF Working
  <2>3. Main!Work
    BY <1>1, <2>1, <2>2 DEF Working, Main!Work
  <2> QED BY <2>3 DEF Main!DriverNext, Main!Statement
<1>4. CASE EndOfWork
  <2>1. pc' = 4
    BY <1>4, Places DEF EndOfWork
  <2>2. Main!Work
    BY <1>1, <1>4, <2>1 DEF EndOfWork, Main!Work, Main!Advance
  <2> QED BY <2>2 DEF Main!DriverNext, Main!Statement
<1> QED BY <1>2, <1>3, <1>4

\* The other statements are the driver's own.
LEMMA StepRefines ==
  ASSUME P3Inv, P3Inv', [P3Next]_p3
  PROVE  [Main!DriverNext]_(Main!driver)
<1>1. CASE UNCHANGED p3
  BY <1>1 DEF p3, pass, vars, Main!driver, InMemory, LaidOut, OldNumber,
              NewNumber, LaidBefore, Precedes, Place
<1>2. CASE Begin
  BY <1>2 DEF Begin, Main!DriverNext
<1>3. CASE Statement
  BY <1>3 DEF Statement, Main!DriverNext, Main!Statement
<1>4. CASE Signal
  BY <1>4 DEF Signal, Main!DriverNext
<1>5. CASE Ended
  BY <1>1, <1>5 DEF Ended
<1> QED BY <1>1, <1>2, <1>3, <1>4, <1>5, WorkRefines DEF P3Next

\* The program of project 3, both passes included, does what the driver may
\* do: it touches nothing but the module in memory while it works, and counts,
\* verifies and writes that very module, in that order.
THEOREM P3RefinesDriver == P3Spec => RefinesDriver
BY P3InvHolds, InitRefines, StepRefines, PTL
   DEF P3Spec, RefinesDriver, Main!DriverSpec
=============================================================================
