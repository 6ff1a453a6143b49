--------------------------- MODULE BitList_proofs ---------------------------
(***************************************************************************)
(* The compiler of p1.y: first the masks, for every width, and the two     *)
(* dictionaries, for every program without lists (module BitSlice); then,  *)
(* with lists around them, that reads and assignments keep their meaning   *)
(* and that a list is its items side by side (module BitList).  The        *)
(* argument of the second part is ItemGlobals: whenever a bitslice has     *)
(* been reduced, the two globals describe it, whoever wrote them last.     *)
(***************************************************************************)
EXTENDS BitList, TLAPS, WellFoundedInduction, SequenceTheorems

\* The two shifts of createMask leave the bits of the slice and no others,
\* for every slice of one bit or more that starts inside the word.
THEOREM MaskIsSlice ==
  ASSUME NEW start \in 0 .. W - 1, NEW range \in 1 .. W
  PROVE  CreateMask(start, range) = {b \in Bit : start <= b /\ b < start + range}
<1>1. W \in Nat \ {0} /\ Span \in Nat /\ 2 * W < Span
  BY WidthAssumption
<1>2. Wrap(W - range) = W - range /\ W - range \in 0 .. W - 1
  BY <1>1 DEF Wrap
<1>3. Bit \in Word /\ Bit # Poison
  BY PoisonAssumption DEF Word
<1>4. LShr(Bit, W - range) = {b \in Bit : b < range}
  BY <1>1, <1>2, <1>3 DEF LShr, Bit
<1>5. {b \in Bit : b < range} # Poison
  BY PoisonAssumption DEF Word
<1>6. Shl({b \in Bit : b < range}, start) =
        {b \in Bit : b - start \in {c \in Bit : c < range}}
  BY <1>1, <1>5 DEF Shl
<1>7. {b \in Bit : b - start \in {c \in Bit : c < range}} =
        {b \in Bit : start <= b /\ b < start + range}
  BY <1>1 DEF Bit
<1> QED BY <1>2, <1>4, <1>6, <1>7 DEF CreateMask

\* getMaskedValue moves the bits of the slice to the bottom and clears the
\* rest, as test_18.c and test_19.c expect of fields.
THEOREM MaskedValueIsSlice ==
  ASSUME NEW start \in 0 .. W - 1, NEW range \in 1 .. W, NEW value \in Word
  PROVE  GetMaskedValue(value, [start |-> start, range |-> range]) =
           {b \in Bit : b < range /\ b + start \in value}
<1> DEFINE mask == {b \in Bit : start <= b /\ b < start + range}
<1>1. W \in Nat \ {0}
  BY WidthAssumption
<1>2. CreateMask(start, range) = mask
  BY MaskIsSlice
<1>3. mask # Poison /\ value # Poison /\ mask \cap value # Poison
  <2>1. mask \in Word /\ mask \cap value \in Word
    BY DEF Word
  <2> QED BY <2>1, PoisonAssumption
<1>4. And(mask, value) = mask \cap value
  BY <1>3 DEF And
<1>5. LShr(mask \cap value, start) = {b \in Bit : b + start \in mask \cap value}
  BY <1>1, <1>3 DEF LShr
<1>6. {b \in Bit : b + start \in mask \cap value} =
        {b \in Bit : b < range /\ b + start \in value}
  BY <1>1 DEF Bit, Word
<1> QED BY <1>2, <1>4, <1>5, <1>6 DEF GetMaskedValue

-----------------------------------------------------------------------------
(* The operators stay inside the values.                                   *)

LEMMA OperatorsClosed ==
  /\ \A x, y \in Value : And(x, y) \in Value /\ Or(x, y) \in Value
  /\ \A x \in Value : Not(x) \in Value
  /\ \A x \in Value, n \in Int : Shl(x, n) \in Value /\ LShr(x, n) \in Value
<1>1. \A x, y \in Value : And(x, y) \in Value /\ Or(x, y) \in Value
  BY DEF And, Or, Value, Word
<1>2. \A x \in Value : Not(x) \in Value
  BY DEF Not, Value, Word
<1>3. \A x \in Value, n \in Int : Shl(x, n) \in Value /\ LShr(x, n) \in Value
  BY DEF Shl, LShr, Value, Word
<1> QED BY <1>1, <1>2, <1>3

LEMMA WrapClosed ==
  ASSUME NEW n \in Int, -Span <= n, n < 2 * Span
  PROVE  Wrap(n) \in Amount
BY WidthAssumption DEF Wrap, Amount

LEMMA MasksClosed ==
  /\ \A n \in Amount, r \in Amount : CreateMask(n, r) \in Value
  /\ \A v \in Value, s \in Slice : GetMaskedValue(v, s) \in Value
  /\ \A v \in Value, i \in Amount : GetBit(v, i) \in Value
<1>1. ASSUME NEW n \in Amount, NEW r \in Amount
      PROVE  CreateMask(n, r) \in Value
  <2>1. Wrap(W - r) \in Int /\ n \in Int
    BY WidthAssumption DEF Wrap, Amount
  <2>2. Bit \in Value
    BY DEF Value, Word
  <2> QED BY <2>1, <2>2, OperatorsClosed DEF CreateMask
<1>2. ASSUME NEW v \in Value, NEW s \in Slice
      PROVE  GetMaskedValue(v, s) \in Value
  <2>1. s.start \in Amount /\ s.range \in Amount /\ s.start \in Int
    BY WidthAssumption DEF Slice, Amount
  <2> QED BY <1>1, <2>1, OperatorsClosed DEF GetMaskedValue
<1>3. ASSUME NEW v \in Value, NEW i \in Amount
      PROVE  GetBit(v, i) \in Value
  <2>1. {0} \in Value /\ i \in Int
    BY WidthAssumption DEF Value, Word, Bit, Amount
  <2> QED BY <2>1, OperatorsClosed DEF GetBit
<1> QED BY <1>1, <1>2, <1>3

LEMMA MergedClosed ==
  ASSUME NEW old \in Value, NEW s \in Slice, NEW e \in Value
  PROVE  Merged(old, s, e) \in Value
<1>1. s.start \in Amount /\ s.range \in Amount /\ s.start \in Int
  BY WidthAssumption DEF Slice, Amount
<1> QED BY <1>1, OperatorsClosed, MasksClosed DEF Merged

\* The assignment of a slice: its bits from e, the others from before.
LEMMA MergedIsAssignment ==
  ASSUME NEW lo \in 0 .. W - 1, NEW len \in 1 .. W, NEW s,
         s.start = lo, s.range = len,
         NEW old \in Word, NEW e \in Word
  PROVE  Merged(old, s, e) =
           {b \in Bit : IF b \in lo .. lo + len - 1 THEN b - lo \in e
                                                  ELSE b \in old}
<1> DEFINE mask == {b \in Bit : lo <= b /\ b < lo + len}
           up   == {b \in Bit : b - lo \in e}
<1>1. W \in Nat \ {0}
  BY WidthAssumption
<1>2. CreateMask(s.start, s.range) = mask
  BY MaskIsSlice
<1>3. /\ mask # Poison /\ up # Poison /\ old # Poison /\ e # Poison
      /\ Bit \ mask # Poison /\ mask \cap up # Poison
      /\ old \cap (Bit \ mask) # Poison
  <2>1. /\ mask \in Word /\ up \in Word /\ Bit \ mask \in Word
        /\ mask \cap up \in Word /\ old \cap (Bit \ mask) \in Word
    BY DEF Word
  <2> QED BY <2>1, PoisonAssumption
<1>4. Shl(e, s.start) = up
  BY <1>1, <1>3 DEF Shl
<1>5. Merged(old, s, e) = (mask \cap up) \cup (old \cap (Bit \ mask))
  <2> HIDE DEF mask, up
  <2> QED BY <1>2, <1>3, <1>4 DEF Merged, And, Or, Not
<1>6. (mask \cap up) \cup (old \cap (Bit \ mask)) =
        {b \in Bit : IF b \in lo .. lo + len - 1 THEN b - lo \in e
                                               ELSE b \in old}
  BY <1>1 DEF Bit, Word
<1> QED BY <1>5, <1>6

-----------------------------------------------------------------------------
(* The list of fields without bounds.                                      *)

LEMMA LeastNatural ==
  ASSUME NEW T, T \subseteq Nat, T # {}
  PROVE  \E x \in T : \A y \in T : x <= y
<1> DEFINE R == {ss \in Nat \X Nat : ss[1] < ss[2]}
<1>1. IsWellFoundedOn(R, Nat)
  BY NatLessThanWellFounded DEF OpToRel
<1>2. PICK x \in T : \A y \in T : <<y, x>> \notin R
  <2> HIDE DEF R
  <2> QED BY <1>1, WFMin
<1>3. ASSUME NEW y \in T PROVE x <= y
  <2>1. ~(y < x)
    BY <1>2
  <2>2. x \in Nat /\ y \in Nat
    OBVIOUS
  <2> QED BY <2>1, <2>2
<1> QED BY <1>3

\* A listed field has a last position.
LEMMA PositionInList ==
  ASSUME bitsliceFieldIds \in Seq(Field), NEW f \in Listed
  PROVE  PositionOf(f) \in 1 .. Len(bitsliceFieldIds)
<1> DEFINE n == Len(bitsliceFieldIds)
           T == {m \in 0 .. n : n - m \in 1 .. n /\ bitsliceFieldIds[n - m] = f}
<1>1. n \in Nat
  OBVIOUS
<1>2. PICK k \in 1 .. n : bitsliceFieldIds[k] = f
  BY DEF Listed
<1>3. n - k \in T /\ T \subseteq Nat
  <2>1. n - (n - k) = k /\ n - k \in 0 .. n
    BY <1>1
  <2> QED BY <1>1, <1>2, <2>1
<1>4. PICK m \in T : \A y \in T : m <= y
  <2> HIDE DEF T
  <2> QED BY <1>3, LeastNatural
<1>5. /\ n - m \in 1 .. n
      /\ bitsliceFieldIds[n - m] = f
      /\ \A j \in (n - m) + 1 .. n : bitsliceFieldIds[j] # f
  <2>1. SUFFICES ASSUME NEW j \in (n - m) + 1 .. n, bitsliceFieldIds[j] = f
                 PROVE  FALSE
    BY <1>4
  <2>2. n - j \in 0 .. n /\ n - (n - j) = j /\ j \in 1 .. n /\ n - j < m
    BY <1>1, <1>4, <2>1
  <2>3. n - j \in T
    BY <2>1, <2>2
  <2> QED BY <1>1, <1>4, <2>2, <2>3
<1> QED BY <1>5 DEF PositionOf

-----------------------------------------------------------------------------
(* The dictionaries.                                                       *)

\* What is read may be something else than a variable (module BitList).
TargetSet ==
  /\ mode \in {"lhs", "assign"} => target \in Var
  /\ mode \in {"expr", "accepted"} /\ named # None => target \in Var /\ Known(target)

ListBounded == Len(bitsliceFieldIds) <= MaxIds

NamedInside == named # None => named.lo + named.len <= W

\* The slice kept for the target is what the steps mean.
SliceIsNamed ==
  mode \in {"lhs", "assign"} /\ named # None =>
    IF Known(target)
    THEN /\ valueSliceDict[target].slice.start = named.lo
         /\ valueSliceDict[target].slice.range = named.len
    ELSE named = WholeWord

Shape == TypeOK /\ TargetSet /\ ListBounded /\ NamedInside

Inv == Shape /\ WholeOutsideLhs /\ SliceIsNamed /\ ReadsNamedBits

\* A step inside what is meant lies inside the word.
LEMMA InsideClosed ==
  ASSUME NEW r \in {None} \cup [lo : Bit, len : 1..W, ranges : BOOLEAN],
         r # None => r.lo + r.len <= W,
         NEW s \in Slice, Inside(r, s) # None
  PROVE  /\ r # None
         /\ s.start \in 0 .. W - 1 /\ s.range \in 1 .. W
         /\ s.start + s.range <= r.len
         /\ Inside(r, s) = [lo |-> r.lo + s.start, len |-> s.range,
                            ranges |-> r.ranges]
         /\ Inside(r, s) \in [lo : Bit, len : 1..W, ranges : BOOLEAN]
         /\ r.lo + s.start + s.range <= W
<1>1. /\ r # None /\ s.range > 0 /\ s.start + s.range <= r.len
      /\ Inside(r, s) = [r EXCEPT !.lo = @ + s.start, !.len = s.range]
  BY DEF Inside
<1>2. /\ r \in [lo : Bit, len : 1..W, ranges : BOOLEAN]
      /\ s.start \in Nat /\ s.range \in Nat /\ W \in Nat \ {0}
      /\ r.lo \in 0 .. W - 1 /\ r.len \in 1 .. W
  BY <1>1, WidthAssumption DEF Slice, Amount, Bit
<1>3. s.start \in 0 .. W - 1 /\ s.range \in 1 .. W /\ r.lo + s.start \in 0 .. W - 1
      /\ r.lo + s.start + s.range <= W
  BY <1>1, <1>2
<1>4. Inside(r, s) = [lo |-> r.lo + s.start, len |-> s.range, ranges |-> r.ranges]
  BY <1>1, <1>2
<1> QED BY <1>1, <1>2, <1>3, <1>4 DEF Bit

LEMMA RangeSliceClosed ==
  ASSUME NEW hi \in Amount, NEW lo \in Amount
  PROVE  RangeSlice(hi, lo) \in Slice
<1>1. /\ Span \in Nat \ {0} /\ hi \in Int /\ lo \in Int
      /\ -Span <= hi - lo /\ hi - lo < 2 * Span
  BY WidthAssumption DEF Amount
<1>2. Wrap(hi - lo) \in Amount
  BY <1>1, WrapClosed
<1>3. /\ Wrap(hi - lo) + 1 \in Int /\ -Span <= Wrap(hi - lo) + 1
      /\ Wrap(hi - lo) + 1 < 2 * Span
  BY <1>1, <1>2 DEF Amount
<1>4. Wrap(Wrap(hi - lo) + 1) \in Amount
  BY <1>3, WrapClosed
<1> QED BY <1>4 DEF RangeSlice, Slice

LEMMA FixedSlices ==
  /\ DefaultSlice \in Slice
  /\ \A i \in Index : Single(i) \in Slice
  /\ WholeWord \in [lo : Bit, len : 1..W, ranges : BOOLEAN]
  /\ \A f \in Field : slicesDict \in [Field -> {None} \cup Slice]
                       /\ slicesDict[f] # None => slicesDict[f] \in Slice
BY WidthAssumption, NumbersAssumption
DEF DefaultSlice, Single, WholeWord, Slice, Amount, Bit

LEMMA InitHolds == Init => Inv
<1> SUFFICES ASSUME Init PROVE Inv
  OBVIOUS
<1>1. \A v \in Word : NewValue(v) \in [value : Value, slice : Slice]
  BY FixedSlices DEF NewValue, Value
<1>2. TypeOK
  <2>1. {} \in Value /\ <<>> \in Seq(Field) /\ "statement" \in Mode
    BY DEF Value, Word, Mode
  <2>2. valueSliceDict \in [Var -> {None} \cup [value : Value, slice : Slice]]
    BY <1>1 DEF Init
  <2> QED BY <2>1, <2>2 DEF Init, TypeOK
<1>3. TargetSet /\ ListBounded /\ NamedInside
  BY NumbersAssumption DEF Init, TargetSet, ListBounded, NamedInside
<1>4. WholeOutsideLhs
  <2> SUFFICES ASSUME NEW x \in Var, Known(x)
               PROVE  valueSliceDict[x].slice = DefaultSlice
    BY DEF WholeOutsideLhs
  <2>1. PICK v \in Word : valueSliceDict[x] = NewValue(v)
    BY DEF Init, Known
  <2> QED BY <2>1 DEF NewValue
<1>5. SliceIsNamed /\ ReadsNamedBits
  BY DEF Init, SliceIsNamed, ReadsNamedBits
<1> QED BY <1>2, <1>3, <1>4, <1>5 DEF Inv, Shape

-----------------------------------------------------------------------------
(* slice statements.                                                       *)

LEMMA DeclaringKeepsInv ==
  ASSUME Inv, mode \in {"statement", "slice"}, mode' \in {"statement", "slice"},
         UNCHANGED <<valueSliceDict, target, result, named>>,
         slicesDict' \in [Field -> {None} \cup Slice],
         bitsliceFieldIds' \in Seq(Field), Len(bitsliceFieldIds') <= MaxIds
  PROVE  Inv'
<1>1. TypeOK'
  BY DEF Inv, Shape, TypeOK, Mode
<1>2. TargetSet' /\ ListBounded' /\ NamedInside'
  BY DEF Inv, Shape, TargetSet, ListBounded, NamedInside
<1>3. WholeOutsideLhs'
  BY DEF Inv, WholeOutsideLhs, Known
<1>4. SliceIsNamed' /\ ReadsNamedBits'
  BY DEF SliceIsNamed, ReadsNamedBits
<1> QED BY <1>1, <1>2, <1>3, <1>4 DEF Inv, Shape

LEMMA SliceStatements ==
  ASSUME Inv
  PROVE  /\ \A f \in Field : \A s \in Bounds : AddSlice(f, s) => Inv'
         /\ \A f \in Field : ListField(f) => Inv'
         /\ EndSlice => Inv'
<1>1. /\ slicesDict \in [Field -> {None} \cup Slice]
      /\ bitsliceFieldIds \in Seq(Field) /\ Len(bitsliceFieldIds) <= MaxIds
      /\ MaxIds \in Nat /\ MaxIds <= Span
  BY NumbersAssumption DEF Inv, Shape, TypeOK, ListBounded
<1>2. ASSUME NEW f \in Field, NEW s \in Bounds, AddSlice(f, s) PROVE Inv'
  <2>1. s \in Slice
    BY NumbersAssumption DEF Slice
  <2>2. slicesDict' \in [Field -> {None} \cup Slice]
    BY <1>1, <1>2, <2>1 DEF AddSlice
  <2> QED BY <1>1, <1>2, <2>2, DeclaringKeepsInv DEF AddSlice, Declaring
<1>3. ASSUME NEW f \in Field, ListField(f) PROVE Inv'
  <2>1. /\ bitsliceFieldIds' = <<f>> \o bitsliceFieldIds
        /\ Len(bitsliceFieldIds) < MaxIds
    BY <1>3 DEF ListField
  <2>2. <<f>> \in Seq(Field) /\ Len(<<f>>) = 1
    OBVIOUS
  <2>3. bitsliceFieldIds' \in Seq(Field)
        /\ Len(bitsliceFieldIds') = 1 + Len(bitsliceFieldIds)
    BY <1>1, <2>1, <2>2
  <2>4. Len(bitsliceFieldIds') <= MaxIds
    BY <1>1, <2>1, <2>3
  <2> QED BY <1>1, <1>3, <2>3, <2>4, DeclaringKeepsInv DEF ListField, Declaring
<1>4. ASSUME EndSlice PROVE Inv'
  <2>1. ASSUME NEW f \in Listed PROVE PositionOf(f) - 1 \in Amount
    <3>1. PositionOf(f) \in 1 .. Len(bitsliceFieldIds)
      BY <1>1, <2>1, PositionInList
    <3>2. Len(bitsliceFieldIds) \in Nat /\ Span \in Nat
      BY <1>1, WidthAssumption
    <3> QED BY <1>1, <3>1, <3>2 DEF Amount
  <2>2. W \in Amount
    BY WidthAssumption DEF Amount
  <2>3. slicesDict' \in [Field -> {None} \cup Slice]
    BY <1>1, <1>4, <2>1, <2>2 DEF EndSlice, Slice
  <2>4. bitsliceFieldIds' = <<>> /\ <<>> \in Seq(Field) /\ Len(<<>>) = 0
    BY <1>4 DEF EndSlice
  <2>5. Len(bitsliceFieldIds') <= MaxIds
    BY <1>1, <2>4
  <2> QED BY <1>4, <2>3, <2>4, <2>5, DeclaringKeepsInv DEF EndSlice
<1> QED BY <1>2, <1>3, <1>4

-----------------------------------------------------------------------------
(* Left-hand sides.                                                        *)

Meaning == [lo : Bit, len : 1..W, ranges : BOOLEAN]

Entry == [value : Value, slice : Slice]

\* What a reduction on the left owes: the slice it leaves is what it means.
LEMMA LhsKeepsInv ==
  ASSUME Inv, mode = "lhs", mode' = mode,
         UNCHANGED <<slicesDict, bitsliceFieldIds, target, result>>,
         NEW e \in {None} \cup Entry,
         valueSliceDict' = [valueSliceDict EXCEPT ![target] = e],
         named' \in {None} \cup Meaning,
         named' # None => named'.lo + named'.len <= W,
         named' # None => IF e # None
                          THEN /\ e.slice.start = named'.lo
                               /\ e.slice.range = named'.len
                          ELSE named' = WholeWord
  PROVE  Inv'
<1>1. /\ target \in Var
      /\ valueSliceDict \in [Var -> {None} \cup Entry]
  BY DEF Inv, Shape, TypeOK, TargetSet, Entry
<1>2. /\ valueSliceDict' \in [Var -> {None} \cup Entry]
      /\ valueSliceDict'[target] = e
      /\ \A x \in Var : x # target => valueSliceDict'[x] = valueSliceDict[x]
  BY <1>1
<1>3. TypeOK'
  BY <1>2 DEF Inv, Shape, TypeOK, Meaning, Entry
<1>4. TargetSet' /\ ListBounded' /\ NamedInside'
  BY DEF Inv, Shape, TargetSet, ListBounded, NamedInside
<1>5. WholeOutsideLhs'
  BY <1>2 DEF Inv, WholeOutsideLhs, Known
<1>6. SliceIsNamed' /\ ReadsNamedBits'
  BY <1>2 DEF SliceIsNamed, ReadsNamedBits, Known
<1> QED BY <1>3, <1>4, <1>5, <1>6 DEF Inv, Shape

LEMMA SetSliceEntry ==
  ASSUME TypeOK, target \in Var, Known(target), NEW s \in Slice, SetSlice(s)
  PROVE  LET e == [value |-> valueSliceDict[target].value, slice |-> s]
         IN  /\ valueSliceDict' = [valueSliceDict EXCEPT ![target] = e]
             /\ e \in Entry
             /\ e # None
<1>1. valueSliceDict[target] \in Entry /\ valueSliceDict \in [Var -> {None} \cup Entry]
  BY DEF TypeOK, Known, Entry
<1>2. [valueSliceDict[target] EXCEPT !.slice = s]
        = [value |-> valueSliceDict[target].value, slice |-> s]
  BY <1>1 DEF Entry
<1>3. valueSliceDict' =
        [valueSliceDict EXCEPT ![target] = [valueSliceDict[target] EXCEPT !.slice = s]]
  BY <1>1 DEF SetSlice
<1>4. [value |-> valueSliceDict[target].value, slice |-> s] # None
  BY <1>1, NoneAssumption DEF Entry, Slice
<1> QED BY <1>1, <1>2, <1>3, <1>4 DEF Entry

\* A reduction that leaves the dictionary alone, and means nothing certain.
LEMMA LhsNothing ==
  ASSUME Inv, Lhs, named' = None, UNCHANGED <<mode, valueSliceDict>>
  PROVE  Inv'
<1>1. target \in Var /\ valueSliceDict \in [Var -> {None} \cup Entry]
  BY DEF Inv, Shape, TypeOK, TargetSet, Lhs, Entry
<1>2. /\ valueSliceDict[target] \in {None} \cup Entry
      /\ valueSliceDict' = [valueSliceDict EXCEPT ![target] = valueSliceDict[target]]
  BY <1>1
<1> QED BY <1>2, LhsKeepsInv DEF Lhs

LEMMA LhsDotKeepsInv ==
  ASSUME Inv, NEW f \in Field, LhsDot(f)
  PROVE  Inv'
<1>1. /\ target \in Var /\ TypeOK /\ mode = "lhs" /\ mode' = mode
      /\ UNCHANGED <<slicesDict, bitsliceFieldIds, target, result>>
      /\ named \in {None} \cup Meaning
      /\ named # None => named.lo + named.len <= W
      /\ slicesDict[f] \in Slice
      /\ named' = Inside(named, slicesDict[f])
  BY DEF Inv, Shape, TypeOK, TargetSet, LhsDot, Lhs, Meaning, NamedInside
<1> DEFINE s == slicesDict[f]
<1>2. ASSUME named' # None
      PROVE  /\ named # None /\ named' \in Meaning
             /\ s.start \in Nat /\ s.range \in Nat
             /\ named'.lo = named.lo + s.start /\ named'.len = s.range
             /\ named'.lo + named'.len <= W /\ named.lo + s.start < Span
             /\ named.lo \in Nat
  BY <1>1, <1>2, InsideClosed, WidthAssumption DEF Meaning, Bit
<1>3. CASE Known(target)
  <2> DEFINE around == valueSliceDict[target].slice
             t == [start |-> Wrap(around.start + s.start), range |-> s.range]
             e == [value |-> valueSliceDict[target].value, slice |-> t]
  <2>1. around \in Slice
    BY <1>1, <1>3 DEF TypeOK, Known
  <2>2. t \in Slice
    <3>1. around.start \in Amount /\ s.start \in Amount /\ s.range \in Amount
      BY <1>1, <2>1 DEF Slice
    <3>2. /\ around.start + s.start \in Int /\ -Span <= around.start + s.start
          /\ around.start + s.start < 2 * Span
      BY <3>1, WidthAssumption DEF Amount
    <3>3. Wrap(around.start + s.start) \in Amount
      BY <3>2, WrapClosed
    <3> QED BY <3>1, <3>3 DEF Slice
  <2>3. SetSlice(t)
    BY <1>3 DEF LhsDot
  <2>4. /\ valueSliceDict' = [valueSliceDict EXCEPT ![target] = e]
        /\ e \in Entry /\ e # None
    <3> HIDE DEF t
    <3> QED BY <1>1, <1>3, <2>2, <2>3, SetSliceEntry
  <2>5. ASSUME named' # None
        PROVE  e.slice.start = named'.lo /\ e.slice.range = named'.len
    <3>1. around.start = named.lo
      BY <1>1, <1>2, <1>3, <2>5 DEF Inv, SliceIsNamed
    <3>2. Wrap(named.lo + s.start) = named.lo + s.start
      BY <1>2, <2>5, WidthAssumption DEF Wrap
    <3> QED BY <1>2, <2>5, <3>1, <3>2
  <2> HIDE DEF e
  <2> QED BY <1>1, <1>2, <2>4, <2>5, LhsKeepsInv
<1>4. CASE ~Known(target)
  <2> DEFINE e == [value |-> {}, slice |-> s]
  <2>1. {} \in Value
    BY DEF Value, Word
  <2>2. e \in Entry /\ e # None
    BY <1>1, <2>1, NoneAssumption DEF Entry, Slice
  <2>3. valueSliceDict' = [valueSliceDict EXCEPT ![target] = e]
    BY <1>4 DEF LhsDot
  <2>4. ASSUME named' # None
        PROVE  e.slice.start = named'.lo /\ e.slice.range = named'.len
    <3>1. named = WholeWord
      BY <1>1, <1>2, <1>4, <2>4 DEF Inv, SliceIsNamed
    <3> QED BY <1>2, <2>4, <3>1 DEF WholeWord
  <2> HIDE DEF e
  <2> QED BY <1>1, <1>2, <2>2, <2>3, <2>4, LhsKeepsInv
<1> QED BY <1>3, <1>4

\* A step that replaces the slice of a variable that has a value.
LEMMA LhsSetKeepsInv ==
  ASSUME Inv, Lhs, mode' = mode, NEW s \in Slice,
         IF Known(target) THEN SetSlice(s) ELSE UNCHANGED valueSliceDict,
         named' \in {None} \cup Meaning,
         named' # None => /\ Known(target)
                          /\ s.start = named'.lo /\ s.range = named'.len
                          /\ named'.lo + named'.len <= W
  PROVE  Inv'
<1>1. /\ target \in Var /\ TypeOK /\ mode = "lhs"
      /\ UNCHANGED <<slicesDict, bitsliceFieldIds, target, result>>
  BY DEF Inv, Shape, TargetSet, Lhs
<1>2. CASE Known(target)
  <2> DEFINE e == [value |-> valueSliceDict[target].value, slice |-> s]
  <2>1. /\ valueSliceDict' = [valueSliceDict EXCEPT ![target] = e]
        /\ e \in Entry /\ e # None /\ e.slice = s
    BY <1>1, <1>2, SetSliceEntry
  <2> HIDE DEF e
  <2> QED BY <1>1, <2>1, LhsKeepsInv
<1>3. CASE ~Known(target)
  BY <1>3, LhsNothing
<1> QED BY <1>2, <1>3

LEMMA LhsSteps ==
  ASSUME Inv
  PROVE  /\ \A i \in Index : LhsNumber(i) \/ LhsIndex(i) => Inv'
         /\ \A hi \in Index, lo \in Index : LhsRange(hi, lo) => Inv'
         /\ \A f \in Field : LhsDotUnknown(f) => Inv'
         /\ \A x \in Var : LhsName(x) => Inv'
<1>1. ASSUME NEW i \in Index, LhsNumber(i) PROVE Inv'
  BY <1>1, LhsNothing DEF LhsNumber
<1>2. ASSUME NEW i \in Index, LhsIndex(i) PROVE Inv'
  <2>1. Single(i) \in Slice
    BY FixedSlices
  <2>2. WholeWord \in Meaning /\ WholeWord.lo = 0 /\ WholeWord.len = W /\ W \in Nat
    BY FixedSlices, WidthAssumption DEF Meaning, WholeWord
  <2>3. ASSUME named' # None
        PROVE  /\ Known(target) /\ named' \in Meaning
               /\ Single(i).start = named'.lo /\ Single(i).range = named'.len
               /\ named'.lo + named'.len <= W
    <3>1. Known(target) /\ named' = Inside(WholeWord, Single(i))
      BY <1>2, <2>3 DEF LhsIndex
    <3> QED BY <2>1, <2>2, <2>3, <3>1, InsideClosed DEF Meaning, Single
  <2> QED BY <1>2, <2>1, <2>3, LhsSetKeepsInv DEF LhsIndex
<1>3. ASSUME NEW hi \in Index, NEW lo \in Index, LhsRange(hi, lo) PROVE Inv'
  <2>1. RangeSlice(hi, lo) \in Slice
    BY NumbersAssumption, RangeSliceClosed
  <2> QED BY <1>3, <2>1, LhsSetKeepsInv DEF LhsRange
<1>4. ASSUME NEW f \in Field, LhsDotUnknown(f) PROVE Inv'
  <2>1. mode' = "failed" /\ UNCHANGED <<valueSliceDict, slicesDict,
                               bitsliceFieldIds, target, result, named>>
    BY <1>4 DEF LhsDotUnknown, Lhs
  <2>2. Shape'
    BY <2>1 DEF Inv, Shape, TypeOK, Mode, TargetSet, ListBounded, NamedInside
  <2>3. WholeOutsideLhs' /\ SliceIsNamed' /\ ReadsNamedBits'
    BY <2>1 DEF WholeOutsideLhs, SliceIsNamed, ReadsNamedBits
  <2> QED BY <2>2, <2>3 DEF Inv
<1>5. ASSUME NEW x \in Var, LhsName(x) PROVE Inv'
  <2>1. /\ mode = "statement" /\ mode' = "lhs" /\ target' = x /\ named' = WholeWord
        /\ UNCHANGED <<valueSliceDict, slicesDict, bitsliceFieldIds, result>>
    BY <1>5 DEF LhsName
  <2>2. Shape'
    BY <2>1, FixedSlices, WidthAssumption
    DEF Inv, Shape, TypeOK, Mode, TargetSet, ListBounded, NamedInside, WholeWord
  <2>3. WholeOutsideLhs' /\ ReadsNamedBits'
    BY <2>1 DEF Inv, WholeOutsideLhs, ReadsNamedBits, Known
  <2>4. Known(x) => valueSliceDict[x].slice = DefaultSlice
    BY <2>1 DEF Inv, WholeOutsideLhs
  <2>5. SliceIsNamed'
    BY <2>1, <2>4 DEF SliceIsNamed, Known, DefaultSlice, WholeWord
  <2> QED BY <2>2, <2>3, <2>5 DEF Inv
<1> QED BY <1>1, <1>2, <1>3, <1>4, <1>5

-----------------------------------------------------------------------------
(* Assignments.                                                            *)

LEMMA AssignmentSteps ==
  ASSUME Inv
  PROVE  /\ \A e \in Operand : Evaluate(e) => Inv'
         /\ Assign => Inv'
<1>1. ASSUME NEW e \in Operand, Evaluate(e) PROVE Inv'
  <2>1. /\ mode = "lhs" /\ mode' = "assign" /\ result' \in Value
        /\ UNCHANGED <<valueSliceDict, slicesDict, bitsliceFieldIds, target, named>>
    BY <1>1, NumbersAssumption DEF Evaluate
  <2>2. Shape'
    BY <2>1
    DEF Inv, Shape, TypeOK, Mode, TargetSet, ListBounded, NamedInside
  <2>3. WholeOutsideLhs' /\ SliceIsNamed' /\ ReadsNamedBits'
    BY <2>1
    DEF Inv, WholeOutsideLhs, SliceIsNamed, ReadsNamedBits, Known
  <2> QED BY <2>2, <2>3 DEF Inv
<1>2. ASSUME Assign PROVE Inv'
  <2> DEFINE old == valueSliceDict[target]
             v == IF Known(target) THEN Merged(old.value, old.slice, result)
                                   ELSE result
  <2>1. /\ mode = "assign" /\ target \in Var /\ result \in Value
        /\ valueSliceDict \in [Var -> {None} \cup Entry]
    BY <1>2 DEF Inv, Shape, TypeOK, TargetSet, Assign, Entry
  <2>2. v \in Value
    <3>1. CASE Known(target)
      <4>1. old.value \in Value /\ old.slice \in Slice
        BY <2>1, <3>1 DEF Known, Entry
      <4> QED BY <2>1, <3>1, <4>1, MergedClosed
    <3>2. CASE ~Known(target)
      BY <2>1, <3>2
    <3> QED BY <3>1, <3>2
  <2>3. /\ valueSliceDict' = [valueSliceDict EXCEPT ![target] = NewValue(v)]
        /\ mode' = "statement" /\ target' = None /\ result' = {} /\ named' = None
        /\ UNCHANGED <<slicesDict, bitsliceFieldIds>>
    BY <1>2, <2>1 DEF Assign, EndStatement
  <2> HIDE DEF v
  <2>4. NewValue(v) \in Entry /\ NewValue(v).slice = DefaultSlice
    BY <2>2, FixedSlices DEF NewValue, Entry
  <2>5. Shape'
    <3>1. {} \in Value
      BY DEF Value, Word
    <3>2. valueSliceDict' \in [Var -> {None} \cup Entry]
      BY <2>1, <2>3, <2>4
    <3> QED BY <2>3, <3>1, <3>2
        DEF Inv, Shape, TypeOK, Mode, TargetSet, ListBounded, NamedInside, Entry
  <2>6. WholeOutsideLhs'
    <3> SUFFICES ASSUME NEW x \in Var, Known(x)'
                 PROVE  valueSliceDict'[x].slice = DefaultSlice
      BY DEF WholeOutsideLhs
    <3>1. CASE x = target
      BY <2>1, <2>3, <2>4, <3>1
    <3>2. CASE x # target
      BY <2>1, <2>3, <3>2 DEF Inv, WholeOutsideLhs, Known
    <3> QED BY <3>1, <3>2
  <2>7. SliceIsNamed' /\ ReadsNamedBits'
    BY <2>3 DEF SliceIsNamed, ReadsNamedBits
  <2> QED BY <2>5, <2>6, <2>7 DEF Inv
<1> QED BY <1>1, <1>2

-----------------------------------------------------------------------------
(* Reads.                                                                  *)

\* What a reduction of a read owes: a value, and the bits it means.
LEMMA ReadKeepsInv ==
  ASSUME Inv, NEW value \in Value, NEW meant \in {None} \cup Meaning,
         Read(value, meant),
         meant # None => named # None /\ meant.lo + meant.len <= W,
         meant # None /\ ~meant.ranges /\ valueSliceDict[target].value # Poison =>
           value = {b \in 0 .. meant.len - 1 :
                      b + meant.lo \in valueSliceDict[target].value}
  PROVE  Inv'
<1>1. /\ mode = "expr" /\ result' = value /\ named' = meant
      /\ UNCHANGED <<mode, valueSliceDict, slicesDict, bitsliceFieldIds, target>>
  BY DEF Read
<1>2. Shape'
  BY <1>1 DEF Inv, Shape, TypeOK, TargetSet, ListBounded, NamedInside, Known, Meaning
<1>3. WholeOutsideLhs'
  BY <1>1 DEF Inv, WholeOutsideLhs, Known
<1>4. SliceIsNamed'
  BY <1>1 DEF SliceIsNamed
<1>5. ReadsNamedBits'
  BY <1>1 DEF ReadsNamedBits, ReadsTheNamed, Cut
<1> QED BY <1>2, <1>3, <1>4, <1>5 DEF Inv

\* The bits s of the bits that were meant are the bits that are meant now.
LEMMA CutOfCut ==
  ASSUME Inv, mode = "expr", NEW s \in Slice, Inside(named, s) # None,
         ~Inside(named, s).ranges, valueSliceDict[target].value # Poison
  PROVE  /\ s.start \in 0 .. W - 1 /\ s.range \in 1 .. W
         /\ result \in Word
         /\ {b \in Bit : b < s.range /\ b + s.start \in result} =
              {b \in 0 .. Inside(named, s).len - 1 :
                 b + Inside(named, s).lo \in valueSliceDict[target].value}
<1> DEFINE v == valueSliceDict[target].value
           r == Inside(named, s)
<1>1. named \in {None} \cup Meaning /\ (named # None => named.lo + named.len <= W)
  BY DEF Inv, Shape, TypeOK, NamedInside, Meaning
<1>2. /\ named # None
      /\ s.start \in 0 .. W - 1 /\ s.range \in 1 .. W
      /\ s.start + s.range <= named.len
      /\ r.lo = named.lo + s.start /\ r.len = s.range /\ r.ranges = named.ranges
      /\ r.lo + s.range <= W
  BY <1>1, InsideClosed DEF Meaning
<1>3. /\ named.lo \in 0 .. W - 1 /\ named.len \in 1 .. W
      /\ named.lo + named.len <= W /\ W \in Nat
  BY <1>1, <1>2, WidthAssumption DEF Meaning, Bit
<1>4. result = {b \in 0 .. named.len - 1 : b + named.lo \in v}
  BY <1>2 DEF Inv, ReadsNamedBits, ReadsTheNamed, Cut
<1>5. result \in Word
  BY <1>3, <1>4 DEF Word, Bit
<1>6. {b \in Bit : b < s.range /\ b + s.start \in result} =
        {b \in 0 .. s.range - 1 : b + (named.lo + s.start) \in v}
  <2>1. ASSUME NEW b \in 0 .. s.range - 1
        PROVE  /\ b \in Bit /\ b < s.range /\ b + s.start \in 0 .. named.len - 1
               /\ (b + s.start) + named.lo = b + (named.lo + s.start)
    BY <1>2, <1>3 DEF Bit
  <2>2. ASSUME NEW b \in Bit, b < s.range PROVE b \in 0 .. s.range - 1
    BY <1>2, <1>3, <2>2 DEF Bit
  <2> QED BY <1>4, <2>1, <2>2
<1> QED BY <1>2, <1>5, <1>6

\* A single bit is the lowest one of the word shifted down.
LEMMA BitIsSlice ==
  ASSUME NEW i \in 0 .. W - 1, NEW value \in Word
  PROVE  GetBit(value, i) = {b \in Bit : b < 1 /\ b + i \in value}
<1>1. W \in Nat \ {0}
  BY WidthAssumption
<1>2. value # Poison /\ LShr(value, i) = {b \in Bit : b + i \in value}
  BY <1>1, PoisonAssumption DEF LShr
<1>3. {b \in Bit : b + i \in value} # Poison /\ {0} # Poison
  <2>1. {b \in Bit : b + i \in value} \in Word /\ {0} \in Word
    BY <1>1 DEF Word, Bit
  <2> QED BY <2>1, PoisonAssumption
<1>4. GetBit(value, i) = {b \in Bit : b + i \in value} \cap {0}
  BY <1>2, <1>3 DEF GetBit, And
<1>5. {b \in Bit : b + i \in value} \cap {0} = {b \in Bit : b < 1 /\ b + i \in value}
  BY <1>1 DEF Bit
<1> QED BY <1>4, <1>5

LEMMA ReadSteps ==
  ASSUME Inv
  PROVE  /\ \A x \in Var : ReadName(x) => Inv'
         /\ \A f \in Field : ReadDot(f) => Inv'
         /\ \A i \in Index : ReadBit(i) => Inv'
         /\ \A hi \in Index, lo \in Index : ReadRange(hi, lo) => Inv'
         /\ Final => Inv'
<1>1. /\ result \in Value /\ named \in {None} \cup Meaning
      /\ (named # None => named.lo + named.len <= W)
      /\ slicesDict \in [Field -> {None} \cup Slice]
      /\ valueSliceDict \in [Var -> {None} \cup Entry]
  BY DEF Inv, Shape, TypeOK, NamedInside, Meaning, Entry
<1>2. ASSUME NEW s \in Slice
      PROVE  /\ Inside(named, s) \in {None} \cup Meaning
             /\ Inside(named, s) # None =>
                  /\ named # None
                  /\ Inside(named, s).lo + Inside(named, s).len <= W
  <2>1. CASE Inside(named, s) = None
    BY <2>1
  <2>2. CASE Inside(named, s) # None
    <3>1. /\ named \in Meaning /\ named # None
          /\ Inside(named, s) \in Meaning
          /\ Inside(named, s).lo = named.lo + s.start
          /\ Inside(named, s).len = s.range
          /\ named.lo + s.start + s.range <= W
      BY <1>1, <2>2, InsideClosed DEF Meaning
    <3> QED BY <3>1
  <2> QED BY <2>1, <2>2
<1>3. ASSUME NEW x \in Var, ReadName(x) PROVE Inv'
  <2>1. /\ mode = "statement" /\ mode' = "expr" /\ target' = x /\ Known(x)
        /\ result' = valueSliceDict[x].value /\ named' = WholeWord
        /\ UNCHANGED <<valueSliceDict, slicesDict, bitsliceFieldIds>>
    BY <1>3 DEF ReadName
  <2>2. valueSliceDict[x].value \in Value
    BY <1>1, <2>1 DEF Known, Entry
  <2>3. Shape'
    BY <2>1, <2>2, FixedSlices, WidthAssumption
    DEF Inv, Shape, TypeOK, Mode, TargetSet, ListBounded, NamedInside, WholeWord,
        Known
  <2>4. WholeOutsideLhs' /\ SliceIsNamed'
    BY <2>1 DEF Inv, WholeOutsideLhs, SliceIsNamed, Known
  <2>5. ASSUME valueSliceDict[x].value # Poison
        PROVE  valueSliceDict[x].value =
                 {b \in 0 .. W - 1 : b + 0 \in valueSliceDict[x].value}
    <3>1. valueSliceDict[x].value \subseteq 0 .. W - 1 /\ W \in Nat
      BY <2>2, <2>5, WidthAssumption DEF Value, Word, Bit
    <3> QED BY <3>1
  <2>6. ReadsNamedBits'
    BY <2>1, <2>5 DEF ReadsNamedBits, ReadsTheNamed, Cut, WholeWord
  <2> QED BY <2>3, <2>4, <2>6 DEF Inv
<1>4. ASSUME NEW f \in Field, ReadDot(f) PROVE Inv'
  <2> DEFINE s == slicesDict[f]
  <2>1. CASE s = None
    BY <1>1, <1>4, <2>1, ReadKeepsInv DEF ReadDot
  <2>2. CASE s # None
    <3>1. s \in Slice /\ s = [start |-> s.start, range |-> s.range]
      BY <1>1, <2>2 DEF Slice
    <3>2. Read(GetMaskedValue(result, s), Inside(named, s)) /\ mode = "expr"
      BY <1>4, <2>2 DEF ReadDot, Read
    <3>3. GetMaskedValue(result, s) \in Value
      BY <1>1, <3>1, MasksClosed
    <3>4. ASSUME Inside(named, s) # None, ~Inside(named, s).ranges,
                 valueSliceDict[target].value # Poison
          PROVE  GetMaskedValue(result, s) =
                   {b \in 0 .. Inside(named, s).len - 1 :
                      b + Inside(named, s).lo \in valueSliceDict[target].value}
      BY <3>1, <3>2, <3>4, CutOfCut, MaskedValueIsSlice
    <3> QED BY <1>2, <3>1, <3>2, <3>3, <3>4, ReadKeepsInv
  <2> QED BY <2>1, <2>2
<1>5. ASSUME NEW i \in Index, ReadBit(i) PROVE Inv'
  <2> DEFINE s == Single(i)
  <2>1. /\ s \in Slice /\ i \in Amount /\ s.start = i /\ s.range = 1
    BY FixedSlices, NumbersAssumption DEF Single
  <2>2. Read(GetBit(result, i), Inside(named, s)) /\ mode = "expr"
    BY <1>5 DEF ReadBit, Read
  <2>3. GetBit(result, i) \in Value
    BY <1>1, <2>1, MasksClosed
  <2>4. ASSUME Inside(named, s) # None, ~Inside(named, s).ranges,
               valueSliceDict[target].value # Poison
        PROVE  GetBit(result, i) =
                 {b \in 0 .. Inside(named, s).len - 1 :
                    b + Inside(named, s).lo \in valueSliceDict[target].value}
    <3> HIDE DEF s
    <3>1. /\ i \in 0 .. W - 1 /\ result \in Word
          /\ {b \in Bit : b < 1 /\ b + i \in result} =
               {b \in 0 .. Inside(named, s).len - 1 :
                  b + Inside(named, s).lo \in valueSliceDict[target].value}
      BY <2>1, <2>2, <2>4, CutOfCut
    <3> QED BY <3>1, BitIsSlice
  <2> HIDE DEF s
  <2> QED BY <1>2, <2>1, <2>2, <2>3, <2>4, ReadKeepsInv
<1>6. ASSUME NEW hi \in Index, NEW lo \in Index, ReadRange(hi, lo) PROVE Inv'
  <2>1. hi \in Amount /\ lo \in Amount
    BY NumbersAssumption
  <2>2. RangeSlice(hi, lo) \in Slice
    BY <2>1, RangeSliceClosed
  <2>3. GetMaskedValue(result, RangeSlice(hi, lo)) \in Value
    BY <1>1, <2>2, MasksClosed
  <2>4. ASSUME Meant(hi, lo) # None
        PROVE  /\ named # None
               /\ Meant(hi, lo) \in Meaning /\ Meant(hi, lo).ranges
               /\ Meant(hi, lo).lo + Meant(hi, lo).len <= W
    <3> DEFINE r == [named EXCEPT !.ranges = TRUE]
               s == [start |-> lo, range |-> hi - lo + 1]
    <3>1. named # None /\ lo <= hi /\ Meant(hi, lo) = Inside(r, s)
      BY <2>4 DEF Meant
    <3>2. /\ r \in Meaning /\ r.lo = named.lo /\ r.len = named.len /\ r.ranges
          /\ r.lo + r.len <= W /\ named.len \in 1 .. W
      BY <1>1, <3>1 DEF Meaning
    <3>3. hi - lo + 1 \in Nat /\ W \in Nat /\ 2 * W < Span /\ Span \in Nat
      BY <2>1, <3>1, WidthAssumption DEF Amount
    <3>4. s.start = lo /\ s.range = hi - lo + 1
      OBVIOUS
    <3>5. s.start + s.range <= r.len
      <4> HIDE DEF r, s
      <4> QED BY <2>4, <3>1 DEF Inside
    <3>6. s \in Slice
      <4>1. hi - lo + 1 <= W
        BY <2>1, <3>2, <3>3, <3>4, <3>5 DEF Amount
      <4> QED BY <2>1, <3>3, <4>1 DEF Slice, Amount
    <3> HIDE DEF r, s
    <3>7. Inside(r, s) # None
      BY <2>4, <3>1
    <3>8. /\ Inside(r, s) = [lo |-> r.lo + s.start, len |-> s.range,
                             ranges |-> r.ranges]
          /\ Inside(r, s) \in Meaning
          /\ r.lo + s.start + s.range <= W
      BY <3>2, <3>6, <3>7, InsideClosed DEF Meaning
    <3> QED BY <3>1, <3>2, <3>8
  <2>5. Read(GetMaskedValue(result, RangeSlice(hi, lo)), Meant(hi, lo))
    BY <1>6 DEF ReadRange
  <2>6. Meant(hi, lo) \in {None} \cup Meaning
    BY <2>4
  <2> QED BY <2>3, <2>4, <2>5, <2>6, ReadKeepsInv
<1>7. ASSUME Final PROVE Inv'
  <2>1. /\ mode = "expr" /\ mode' = "accepted"
        /\ UNCHANGED <<valueSliceDict, slicesDict, bitsliceFieldIds, target,
                       result, named>>
    BY <1>7 DEF Final
  <2>2. Shape'
    BY <2>1
    DEF Inv, Shape, TypeOK, Mode, TargetSet, ListBounded, NamedInside, Known
  <2>3. WholeOutsideLhs' /\ SliceIsNamed' /\ ReadsNamedBits'
    BY <2>1 DEF Inv, WholeOutsideLhs, SliceIsNamed, ReadsNamedBits, ReadsTheNamed,
                Cut, Known
  <2> QED BY <2>2, <2>3 DEF Inv
<1> QED BY <1>3, <1>4, <1>5, <1>6, <1>7

-----------------------------------------------------------------------------
(* The theorems.                                                           *)

LEMMA InvNext == Inv /\ [Next]_vars => Inv'
<1> SUFFICES ASSUME Inv, [Next]_vars PROVE Inv'
  OBVIOUS
<1>1. CASE UNCHANGED vars
  BY <1>1 DEF vars, Inv, Shape, TypeOK, TargetSet, ListBounded, NamedInside,
              WholeOutsideLhs, SliceIsNamed, ReadsNamedBits, ReadsTheNamed, Cut, Known
<1>2. CASE \E f \in Field : \/ \E s \in Bounds : AddSlice(f, s)
                            \/ ListField(f)
                            \/ LhsDot(f) \/ LhsDotUnknown(f)
                            \/ ReadDot(f)
  BY <1>2, SliceStatements, LhsDotKeepsInv, LhsSteps, ReadSteps
<1>3. CASE EndSlice
  BY <1>3, SliceStatements
<1>4. CASE \E x \in Var : LhsName(x) \/ ReadName(x)
  BY <1>4, LhsSteps, ReadSteps
<1>5. CASE \E i \in Index : \/ LhsNumber(i) \/ LhsIndex(i)
                            \/ ReadBit(i)
                            \/ \E lo \in Index : LhsRange(i, lo) \/ ReadRange(i, lo)
  BY <1>5, LhsSteps, ReadSteps
<1>6. CASE (\E e \in Operand : Evaluate(e)) \/ Assign
  BY <1>6, AssignmentSteps
<1>7. CASE Final
  BY <1>7, ReadSteps
<1> QED BY <1>1, <1>2, <1>3, <1>4, <1>5, <1>6, <1>7 DEF Next, Stopped

\* Only Assign leaves the mode "assign", and the mask is that of the bits meant.
LEMMA AssignWrites ==
  ASSUME Inv, [Next]_vars, mode = "assign", mode' # mode, Known(target),
         named # None, valueSliceDict[target].value # Poison, result # Poison
  PROVE  valueSliceDict'[target].value =
           {b \in Bit : IF b \in named.lo .. named.lo + named.len - 1
                        THEN b - named.lo \in result
                        ELSE b \in valueSliceDict[target].value}
<1> DEFINE Old == valueSliceDict[target].value
           New == valueSliceDict'[target].value
           slice == valueSliceDict[target].slice
<1>1. Assign
  BY DEF Next, vars, AddSlice, ListField, Declaring, EndSlice, LhsName, LhsNumber,
         LhsDot, LhsDotUnknown, LhsIndex, LhsRange, Lhs, Evaluate, ReadName,
         ReadDot, ReadBit, ReadRange, Read, Final, Stopped
<1>2. /\ target \in Var /\ valueSliceDict[target] \in Entry
      /\ valueSliceDict \in [Var -> {None} \cup Entry] /\ result \in Value
  BY DEF Inv, Shape, TypeOK, TargetSet, Known, Entry
<1>3. Old \in Word /\ result \in Word
  BY <1>2 DEF Entry, Value
<1>4. /\ named.lo \in 0 .. W - 1 /\ named.len \in 1 .. W
      /\ slice.start = named.lo /\ slice.range = named.len
  BY WidthAssumption DEF Inv, Shape, TypeOK, SliceIsNamed, Bit
<1>5. New = Merged(Old, slice, result)
  BY <1>1, <1>2 DEF Assign, NewValue
<1> QED BY <1>3, <1>4, <1>5, MergedIsAssignment

LEMMA InvHolds == Spec => []Inv
<1> QED BY InitHolds, InvNext, PTL DEF Spec

\* The dictionaries and the emitted words keep their types.
THEOREM BitSliceTypeOK == Spec => []TypeOK
<1>1. Inv => TypeOK
  BY DEF Inv, Shape
<1> QED BY <1>1, InvHolds, PTL

\* "Reset the slice to be the whole range": no slice outlives its assignment.
THEOREM SlicesReset == Spec => []WholeOutsideLhs
<1>1. Inv => WholeOutsideLhs
  BY DEF Inv
<1> QED BY <1>1, InvHolds, PTL

\* Fields and bits read as the bits they mean, however they are nested.
THEOREM FieldsReadNamedBits == Spec => []ReadsNamedBits
<1>1. Inv => ReadsNamedBits
  BY DEF Inv
<1> QED BY <1>1, InvHolds, PTL

\* An assignment writes the bits its left-hand side means, and no others.
THEOREM AssignmentsWriteNamedBits == Spec => AssignsNamedBits
<1> DEFINE Old == valueSliceDict[target].value
           New == valueSliceDict'[target].value
           Written == {b \in Bit : IF b \in named.lo .. named.lo + named.len - 1
                                   THEN b - named.lo \in result
                                   ELSE b \in Old}
           A == mode = "assign" /\ mode' # mode /\ Known(target) /\ named # None =>
                  (Old # Poison /\ result # Poison => New = Written)
<1>1. Inv /\ [Next]_vars => A
  BY AssignWrites
<1>2. [][A]_vars => AssignsNamedBits
  BY PTL DEF AssignsNamedBits
<1> QED BY <1>1, <1>2, InvHolds, PTL DEF Spec

\* Bounds, once declared, hold for every later statement.
THEOREM DeclaredBoundsStay == Spec => BoundsStay
<1> DEFINE A == \A f \in Field : slicesDict[f] # None /\ f \notin Listed =>
                  slicesDict'[f] = slicesDict[f]
<1>1. Inv /\ [Next]_vars => A
  <2> SUFFICES ASSUME Inv, [Next]_vars, NEW f \in Field, slicesDict[f] # None,
                      f \notin Listed
               PROVE  slicesDict'[f] = slicesDict[f]
    OBVIOUS
  <2>1. slicesDict \in [Field -> {None} \cup Slice]
    BY DEF Inv, Shape, TypeOK
  <2>2. ASSUME NEW g \in Field, NEW s \in Bounds, AddSlice(g, s)
        PROVE  slicesDict'[f] = slicesDict[f]
    BY <2>1, <2>2 DEF AddSlice
  <2>3. CASE EndSlice
    BY <2>3 DEF EndSlice
  <2>4. CASE UNCHANGED slicesDict
    BY <2>4
  <2> QED BY <2>2, <2>3, <2>4
      DEF Next, vars, ListField, LhsName, LhsNumber, LhsDot, LhsDotUnknown,
          LhsIndex, LhsRange, Lhs, Evaluate, Assign, EndStatement, ReadName,
          ReadDot, ReadBit, ReadRange, Read, Final, Stopped
<1>2. [][A]_vars => BoundsStay
  BY PTL DEF BoundsStay
<1> QED BY <1>1, <1>2, InvHolds, PTL DEF Spec

-----------------------------------------------------------------------------
(* Lists.                                                                  *)

\* What the globals say of the bitslice just reduced.
ItemGlobals ==
  mode = "expr" =>
    /\ form \in {"number", "name"} => bitsliceIsID /\ bitsliceRange = 1
    /\ form \in {"step", "other"} => ~bitsliceIsID
    /\ form = "number" => result # Poison
    /\ form = "name" => named # None /\ result = valueSliceDict[target].value
    /\ form = "step" /\ named # None /\ ~named.ranges => bitsliceRange = named.len
    /\ form = "other" => named = None

\* After an item the next bitslice starts from cleared globals.
ItemCleared ==
  mode = "statement" /\ lists # <<>> =>
    (lists[Len(lists)].sum # None => ~bitsliceIsID)

ListInv == Inv /\ ListTypeOK /\ ItemGlobals /\ ItemCleared /\ ListsJoin

List == [sum : Value \cup {None}, meant : Value]

-----------------------------------------------------------------------------
(* Addition of words that share no bit.                                    *)

LEMMA AddDisjoint ==
  ASSUME NEW x \in Word, NEW y \in Word, x \cap y = {}
  PROVE  Add(x, y) = x \cup y
<1>1. x # Poison /\ y # Poison
  BY PoisonAssumption
<1>2. ASSUME NEW b \in Bit
      PROVE  ((b \in x) <=> ((b \in y) <=> Carry(x, y, b))) <=> b \in x \cup y
  <2>1. ~Carry(x, y, b)
    BY DEF Carry
  <2> QED BY <2>1
<1>3. Add(x, y) = {b \in Bit : (b \in x) <=> ((b \in y) <=> Carry(x, y, b))}
  BY <1>1 DEF Add
<1> QED BY <1>2, <1>3 DEF Word

LEMMA AddClosed ==
  ASSUME NEW x \in Value, NEW y \in Value
  PROVE  Add(x, y) \in Value
BY DEF Add, Value, Word

\* An item shifted in by its own width stands beside what was there.
LEMMA ShiftedBeside ==
  ASSUME NEW x \in Word, NEW n \in 1 .. W - 1, NEW y \in SUBSET (0 .. n - 1)
  PROVE  Shifted(x, n, y) = {b \in Bit : b - n \in x} \cup y
<1> DEFINE up == {b \in Bit : b - n \in x}
<1>1. W \in Nat /\ n \in Nat /\ n < W /\ x \subseteq 0 .. W - 1
  BY WidthAssumption DEF Word, Bit
<1>2. up \in Word /\ y \in Word /\ up \cap y = {}
  BY <1>1 DEF Word, Bit
<1>3. Shl(x, n) = up
  BY <1>1, PoisonAssumption DEF Shl
<1> HIDE DEF up
<1>4. Add(up, y) = up \cup y
  BY <1>2, AddDisjoint
<1> QED BY <1>3, <1>4 DEF Shifted, up

-----------------------------------------------------------------------------
(* The dictionaries around lists.                                          *)

\* A bitslice that is no variable, and the end of an item.
LEMMA NothingNamed ==
  ASSUME Inv, mode \in {"statement", "expr"}, mode' \in {"statement", "expr"},
         target' = None, named' = None, result' \in Value,
         UNCHANGED <<valueSliceDict, slicesDict, bitsliceFieldIds>>
  PROVE  Inv'
<1>1. Shape'
  BY DEF Inv, Shape, TypeOK, Mode, TargetSet, ListBounded, NamedInside
<1>2. WholeOutsideLhs'
  BY DEF Inv, WholeOutsideLhs, Known
<1>3. SliceIsNamed' /\ ReadsNamedBits'
  BY DEF SliceIsNamed, ReadsNamedBits
<1> QED BY <1>1, <1>2, <1>3 DEF Inv

\* Every other action of BitList is one of BitSlice.
LEMMA BaseSteps ==
  /\ StatementWithNumber \/ StatementWithExpr \/ StatementAlone => Next
  /\ \A x \in Var : Name(x) => Next
  /\ \A f \in Field : DotStep(f) => Next
  /\ \A i \in Index : BitStep(i) => Next
  /\ \A hi \in Index, lo \in Index : RangeStep(hi, lo) => Next
  /\ Stopped => Next
<1>1. StatementWithNumber \/ StatementWithExpr => Next
  BY DEF StatementWithNumber, StatementWithExpr, Next
<1>2. StatementAlone => Next
  BY DEF StatementAlone, Next
<1>3. \A x \in Var : Name(x) => Next
  BY DEF Name, Next
<1>4. \A f \in Field : DotStep(f) => Next
  BY DEF DotStep, Next
<1>5. /\ \A i \in Index : BitStep(i) => Next
      /\ \A hi \in Index, lo \in Index : RangeStep(hi, lo) => Next
  BY DEF BitStep, RangeStep, Next
<1>6. Stopped => Next
  BY DEF Next
<1> QED BY <1>1, <1>2, <1>3, <1>4, <1>5, <1>6

LEMMA ListValues ==
  ASSUME ListTypeOK, lists # <<>>
  PROVE  /\ Len(lists) \in Nat \ {0}
         /\ lists[Len(lists)] \in List
         /\ \A k \in 1 .. Len(lists) : lists[k] \in List
<1>1. lists \in Seq(List)
  BY DEF ListTypeOK, List
<1>2. Len(lists) \in Nat \ {0}
  BY <1>1
<1> QED BY <1>1, <1>2

-----------------------------------------------------------------------------
(* The invariant.                                                          *)

LEMMA ListInitHolds == LInit => ListInv
<1> SUFFICES ASSUME LInit PROVE ListInv
  OBVIOUS
<1>1. Inv
  BY InitHolds DEF LInit
<1>2. 1 \in Amount
  BY WidthAssumption DEF Amount
<1>3. ListTypeOK
  <2>1. <<>> \in Seq([sum : Value \cup {None}, meant : Value])
    OBVIOUS
  <2>2. /\ lists = <<>> /\ bitsliceIsID = FALSE /\ bitsliceRange = 1
        /\ form = "other"
    BY DEF LInit
  <2> QED BY <1>2, <2>1, <2>2 DEF ListTypeOK, Form
<1>4. ItemGlobals /\ ItemCleared /\ ListsJoin
  BY DEF LInit, Init, ItemGlobals, ItemCleared, ListsJoin
<1> QED BY <1>1, <1>3, <1>4 DEF ListInv

LEMMA NumbersAreGlobals ==
  /\ 1 \in Amount
  /\ \A n \in Ranges : n \in Amount
<1>1. 1 \in Amount /\ W \in Amount
  BY WidthAssumption DEF Amount
<1>2. \A s \in Bounds : s.range \in Amount
  BY NumbersAssumption
<1> QED BY <1>1, <1>2 DEF Ranges

\* Statements have no list open, and leave no bitslice behind.
LEMMA StatementsKeepListInv ==
  ASSUME ListInv, Inv', StatementWithNumber \/ StatementWithExpr \/ StatementAlone
  PROVE  ListInv'
<1>1. Outside
  BY DEF StatementWithNumber, StatementWithExpr, StatementAlone
<1>2. mode' # "expr"
  <2>1. CASE StatementWithNumber
    BY <2>1 DEF StatementWithNumber, AddSlice, Declaring, LhsIndex, LhsRange, Lhs
  <2>2. CASE StatementWithExpr
    BY <2>2 DEF StatementWithExpr, Evaluate
  <2>3. CASE StatementAlone
    BY <2>3 DEF StatementAlone, ListField, Declaring, EndSlice, LhsName, LhsNumber,
                LhsDot, LhsDotUnknown, Lhs, Assign, EndStatement, Final
  <2> QED BY <2>1, <2>2, <2>3
<1>3. bitsliceIsID \in BOOLEAN /\ bitsliceRange \in Amount
  BY DEF ListInv, ListTypeOK
<1>4. bitsliceIsID' \in BOOLEAN /\ bitsliceRange' \in Amount
  <2>1. CASE StatementWithNumber
    BY <2>1, NumbersAreGlobals DEF StatementWithNumber, Globals
  <2>2. CASE StatementWithExpr
    BY <2>2, NumbersAreGlobals DEF StatementWithExpr, ExprGlobals, Globals
  <2>3. CASE StatementAlone
    BY <1>3, <2>3 DEF StatementAlone
  <2> QED BY <2>1, <2>2, <2>3
<1>5. lists' = lists /\ lists = <<>> /\ form' = form
  BY <1>1 DEF Outside
<1>6. ListTypeOK'
  BY <1>4, <1>5 DEF ListInv, ListTypeOK
<1>7. ItemGlobals' /\ ItemCleared' /\ ListsJoin'
  BY <1>2, <1>5 DEF ItemGlobals, ItemCleared, ListsJoin
<1> QED BY <1>6, <1>7 DEF ListInv

\* A bitslice reduced leaves the lists alone, and the globals describe it.
LEMMA BitsliceKeepsListInv ==
  ASSUME ListInv, Inv', mode' = "expr", UNCHANGED lists,
         bitsliceIsID' \in BOOLEAN, bitsliceRange' \in Amount, form' \in Form,
         ItemGlobals'
  PROVE  ListInv'
BY DEF ListInv, ListTypeOK, ItemCleared, ListsJoin

LEMMA NamesAndNumbers ==
  ASSUME ListInv, Inv'
  PROVE  /\ \A x \in Var : Name(x) => ListInv'
         /\ \A n \in Operand \ {Poison} : Number(n) => ListInv'
         /\ \A e \in Operand : Parenthesis(e) => ListInv'
<1>1. ASSUME NEW x \in Var, Name(x) PROVE ListInv'
  <2>1. /\ mode' = "expr" /\ target' = x /\ UNCHANGED <<valueSliceDict, lists>>
        /\ result' = valueSliceDict[x].value /\ named' = WholeWord
        /\ bitsliceIsID' = TRUE /\ bitsliceRange' = 1 /\ form' = "name"
    BY <1>1 DEF Name, ReadName, Globals
  <2>2. WholeWord # None
    BY FixedSlices, NoneAssumption
  <2>3. ItemGlobals'
    BY <2>1, <2>2 DEF ItemGlobals
  <2> QED BY <2>1, <2>3, NumbersAreGlobals, BitsliceKeepsListInv DEF Form
<1>2. ASSUME NEW n \in Operand \ {Poison}, Number(n) PROVE ListInv'
  <2>1. /\ mode' = "expr" /\ result' = n /\ named' = None /\ UNCHANGED lists
        /\ bitsliceIsID' = TRUE /\ bitsliceRange' = 1 /\ form' = "number"
    BY <1>2 DEF Number, Yields, Globals
  <2>2. ItemGlobals'
    BY <1>2, <2>1 DEF ItemGlobals
  <2> QED BY <2>1, <2>2, NumbersAreGlobals, BitsliceKeepsListInv DEF Form
<1>3. ASSUME NEW e \in Operand, Parenthesis(e) PROVE ListInv'
  <2>1. /\ mode' = "expr" /\ named' = None /\ UNCHANGED lists
        /\ bitsliceIsID' = FALSE /\ bitsliceRange' = 1 /\ form' = "other"
    BY <1>3 DEF Parenthesis, Yields, Globals
  <2>2. ItemGlobals'
    BY <2>1 DEF ItemGlobals
  <2> QED BY <2>1, <2>2, NumbersAreGlobals, BitsliceKeepsListInv DEF Form
<1> QED BY <1>1, <1>2, <1>3

\* A field sets its width, a bit 1; of a range only the value is kept.
LEMMA Steps ==
  ASSUME ListInv, Inv'
  PROVE  /\ \A f \in Field : DotStep(f) => ListInv'
         /\ \A i \in Index : BitStep(i) => ListInv'
         /\ \A hi \in Index, lo \in Index : RangeStep(hi, lo) => ListInv'
<1>1. /\ bitsliceRange \in Amount
      /\ slicesDict \in [Field -> {None} \cup Slice]
  BY DEF ListInv, ListTypeOK, Inv, Shape, TypeOK
<1>2. ASSUME NEW f \in Field, DotStep(f) PROVE ListInv'
  <2>1. /\ mode' = "expr" /\ UNCHANGED lists /\ form' = "step"
        /\ bitsliceIsID' = FALSE
        /\ bitsliceRange' = IF slicesDict[f] = None THEN bitsliceRange
                                                   ELSE slicesDict[f].range
    BY <1>2 DEF DotStep, ReadDot, Read, Globals
  <2>2. bitsliceRange' \in Amount
    BY <1>1, <2>1 DEF Slice
  <2>3. named' # None => bitsliceRange' = named'.len
    <3>1. CASE slicesDict[f] = None
      BY <1>2, <3>1 DEF DotStep, ReadDot, Read
    <3>2. CASE slicesDict[f] # None
      <4>1. named' = Inside(named, slicesDict[f]) /\ slicesDict[f] \in Slice
        BY <1>1, <1>2, <3>2 DEF DotStep, ReadDot, Read
      <4>2. /\ named \in {None} \cup Meaning
            /\ named # None => named.lo + named.len <= W
        BY DEF ListInv, Inv, Shape, TypeOK, NamedInside, Meaning
      <4>3. named' # None => named'.len = slicesDict[f].range
        BY <4>1, <4>2, InsideClosed DEF Meaning
      <4> QED BY <2>1, <3>2, <4>3
    <3> QED BY <3>1, <3>2
  <2>4. ItemGlobals'
    BY <2>1, <2>3 DEF ItemGlobals
  <2> QED BY <2>1, <2>2, <2>4, BitsliceKeepsListInv DEF Form
<1>3. ASSUME NEW i \in Index, BitStep(i) PROVE ListInv'
  <2>1. /\ mode' = "expr" /\ UNCHANGED lists /\ form' = "step"
        /\ bitsliceIsID' = FALSE /\ bitsliceRange' = 1
        /\ named' = Inside(named, Single(i))
    BY <1>3 DEF BitStep, ReadBit, Read, Globals
  <2>2. named' # None => named'.len = 1
    <3>1. /\ named \in {None} \cup Meaning
          /\ named # None => named.lo + named.len <= W
      BY DEF ListInv, Inv, Shape, TypeOK, NamedInside, Meaning
    <3>2. Single(i) \in Slice /\ Single(i).range = 1
      BY FixedSlices DEF Single
    <3> QED BY <2>1, <3>1, <3>2, InsideClosed DEF Meaning
  <2>3. ItemGlobals'
    BY <2>1, <2>2 DEF ItemGlobals
  <2> QED BY <2>1, <2>3, NumbersAreGlobals, BitsliceKeepsListInv DEF Form
<1>4. ASSUME NEW hi \in Index, NEW lo \in Index, RangeStep(hi, lo) PROVE ListInv'
  <2>1. /\ mode' = "expr" /\ UNCHANGED lists /\ form' = "step"
        /\ bitsliceIsID' = FALSE /\ bitsliceRange' = 1
        /\ named' = Meant(hi, lo)
    BY <1>4 DEF RangeStep, ReadRange, Read, Globals
  <2>2. named' # None => named'.ranges
    <3>1. ASSUME Meant(hi, lo) # None PROVE Meant(hi, lo).ranges
      <4> DEFINE s == [start |-> lo, range |-> hi - lo + 1]
      <4>1. /\ named # None
            /\ Meant(hi, lo) = [[named EXCEPT !.ranges = TRUE]
                                  EXCEPT !.lo = @ + s.start, !.len = s.range]
        BY <3>1 DEF Meant, Inside
      <4>2. named \in Meaning
        BY <4>1 DEF ListInv, Inv, Shape, TypeOK, Meaning
      <4> HIDE DEF s
      <4> QED BY <4>1, <4>2 DEF Meaning
    <3> QED BY <2>1, <3>1
  <2>3. ItemGlobals'
    BY <2>1, <2>2 DEF ItemGlobals
  <2> QED BY <2>1, <2>3, NumbersAreGlobals, BitsliceKeepsListInv DEF Form
<1> QED BY <1>2, <1>3, <1>4

LEMMA WithoutLast ==
  ASSUME NEW S, NEW s \in Seq(S), Len(s) \in Nat \ {0}
  PROVE  /\ SubSeq(s, 1, Len(s) - 1) \in Seq(S)
         /\ Len(SubSeq(s, 1, Len(s) - 1)) = Len(s) - 1
         /\ \A k \in 1 .. Len(s) - 1 : SubSeq(s, 1, Len(s) - 1)[k] = s[k]
<1> DEFINE n == Len(s) - 1
<1>1. n \in Nat /\ 1 \in Int /\ n \in Int /\ \A i \in 1 .. n : s[i] \in S
  OBVIOUS
<1> HIDE DEF n
<1>2. /\ SubSeq(s, 1, n) \in Seq(S)
      /\ Len(SubSeq(s, 1, n)) = IF 1 <= n THEN n - 1 + 1 ELSE 0
      /\ \A i \in 1 .. n - 1 + 1 : SubSeq(s, 1, n)[i] = s[1 + i - 1]
  BY <1>1, SubSeqProperties
<1>3. Len(SubSeq(s, 1, n)) = n /\ \A i \in 1 .. n : SubSeq(s, 1, n)[i] = s[i]
  BY <1>1, <1>2
<1> QED BY <1>2, <1>3 DEF n

LEMMA LBraceKeeps == ASSUME ListInv, LBrace PROVE ListInv'
<1> DEFINE new == [sum |-> None, meant |-> Poison]
<1>1. /\ mode = "statement" /\ lists' = Append(lists, new)
      /\ UNCHANGED <<vars, bitsliceIsID, bitsliceRange, form>>
  BY DEF LBrace
<1>2. Inv'
  BY <1>1, InvNext DEF ListInv
<1>3. lists \in Seq(List) /\ new \in List
  BY DEF ListInv, ListTypeOK, List, Value
<1>4. /\ lists' \in Seq(List) /\ Len(lists') = Len(lists) + 1
      /\ lists'[Len(lists')] = new
      /\ \A k \in 1 .. Len(lists) : lists'[k] = lists[k]
      /\ Len(lists) \in Nat
  BY <1>1, <1>3
<1>5. ListTypeOK'
  BY <1>1, <1>4 DEF ListInv, ListTypeOK, List
<1>6. ItemGlobals' /\ ItemCleared'
  BY <1>1, <1>4 DEF ItemGlobals, ItemCleared, vars
<1>7. ListsJoin'
  <2> SUFFICES ASSUME NEW k \in 1 .. Len(lists'), lists'[k].meant # Poison
               PROVE  lists'[k].sum = lists'[k].meant
    BY DEF ListsJoin
  <2>1. k # Len(lists')
    BY <1>4
  <2>2. k \in 1 .. Len(lists)
    BY <1>4, <2>1
  <2> QED BY <1>4, <2>2 DEF ListInv, ListsJoin
<1> QED BY <1>2, <1>5, <1>6, <1>7 DEF ListInv

LEMMA RBraceKeeps == ASSUME ListInv, RBrace PROVE ListInv'
<1> DEFINE n == Len(lists)
<1>1. /\ mode = "statement" /\ lists # <<>> /\ lists[n].sum # None
      /\ mode' = "expr" /\ target' = None /\ result' = lists[n].sum
      /\ named' = None /\ form' = "other"
      /\ UNCHANGED <<valueSliceDict, slicesDict, bitsliceFieldIds>>
      /\ lists' = SubSeq(lists, 1, n - 1)
      /\ UNCHANGED <<bitsliceIsID, bitsliceRange>>
  BY DEF RBrace, Yields
<1>2. n \in Nat \ {0} /\ lists[n] \in List /\ lists \in Seq(List)
  BY <1>1, ListValues DEF ListInv, ListTypeOK, List
<1>3. Inv'
  BY <1>1, <1>2, NothingNamed DEF ListInv, List
<1>4. /\ lists' \in Seq(List) /\ Len(lists') = n - 1
      /\ \A k \in 1 .. n - 1 : lists'[k] = lists[k]
  BY <1>1, <1>2, WithoutLast
<1>5. ListTypeOK'
  BY <1>1, <1>4 DEF ListInv, ListTypeOK, List, Form
<1>6. ItemGlobals'
  BY <1>1 DEF ListInv, ItemCleared, ItemGlobals
<1>7. ItemCleared' /\ ListsJoin'
  BY <1>1, <1>2, <1>4 DEF ListInv, ItemCleared, ListsJoin
<1> QED BY <1>3, <1>5, <1>6, <1>7 DEF ListInv

-----------------------------------------------------------------------------
(* The end of an item.                                                     *)

\* What $3 of bitslice_list_helper comes to.
Bslice == IF bitsliceIsID THEN And(result, {0}) ELSE result

\* The globals cut an item down to the bits it means, if it means any.
LEMMA ItemIsBslice ==
  ASSUME ListInv, mode = "expr", Item # None
  PROVE  /\ Bslice = Item.bits
         /\ Item.len = bitsliceRange /\ Item.len \in 1 .. W - 1
         /\ Item.bits \in SUBSET (0 .. Item.len - 1)
         /\ Item.bits \in Word
<1>1. /\ result \in Value /\ named \in {None} \cup Meaning /\ form \in Form
      /\ valueSliceDict \in [Var -> {None} \cup Entry]
      /\ ItemGlobals /\ W \in Nat /\ W > 1
  BY ListAssumption, WidthAssumption
  DEF ListInv, Inv, Shape, TypeOK, Meaning, ListTypeOK, Entry
<1> {0} # Poison
  BY <1>1, PoisonAssumption DEF Word, Bit
<1>2. CASE form = "number"
  <2>1. Item = [bits |-> result \cap {0}, len |-> 1]
    BY <1>2 DEF Item
  <2>2. result # Poison /\ result \in Word /\ bitsliceIsID /\ bitsliceRange = 1
    BY <1>1, <1>2 DEF ItemGlobals, Value
  <2>3. Bslice = result \cap {0}
    BY <2>2 DEF Bslice, And
  <2> QED BY <1>1, <2>1, <2>2, <2>3 DEF Word, Bit
<1>3. CASE form = "name"
  <2>1. /\ Item = [bits |-> valueSliceDict[target].value \cap {0}, len |-> 1]
        /\ valueSliceDict[target].value # Poison
    BY <1>3 DEF Item
  <2>2. /\ result # Poison /\ result \in Word /\ bitsliceIsID /\ bitsliceRange = 1
        /\ result = valueSliceDict[target].value
    BY <1>1, <1>3, <2>1 DEF ItemGlobals, Value
  <2>3. Bslice = result \cap {0}
    BY <2>2 DEF Bslice, And
  <2> QED BY <1>1, <2>1, <2>2, <2>3 DEF Word, Bit
<1>4. CASE form \in {"step", "other"}
  <2> DEFINE cut == {b \in 0 .. named.len - 1 :
                       b + named.lo \in valueSliceDict[target].value}
  <2>1. /\ named # None /\ valueSliceDict[target].value # Poison
        /\ ~named.ranges /\ named.len # W
        /\ Item = [bits |-> cut, len |-> named.len]
    BY <1>4 DEF Item
  <2>2. ~bitsliceIsID /\ form = "step" /\ bitsliceRange = named.len
    BY <1>1, <1>4, <2>1 DEF ItemGlobals
  <2>3. named.len \in 1 .. W - 1
    BY <1>1, <2>1 DEF Meaning
  <2>4. result = cut
    BY <2>1 DEF ListInv, Inv, ReadsNamedBits, ReadsTheNamed, Cut
  <2>5. cut \in SUBSET (0 .. named.len - 1) /\ cut \in Word
    BY <1>1, <2>3 DEF Word, Bit
  <2>6. Bslice = cut
    BY <2>2, <2>4 DEF Bslice
  <2> HIDE DEF cut
  <2> QED BY <2>1, <2>2, <2>3, <2>5, <2>6
<1> QED BY <1>1, <1>2, <1>3, <1>4 DEF Form

\* Numbers are items, and names unless they are poison.
LEMMA LowestBitIsItem ==
  ASSUME ListInv, mode = "expr"
  PROVE  /\ form = "number" => Item # None
         /\ form = "name" => Item # None \/ result = Poison
<1>1. ASSUME NEW v \in Word PROVE [bits |-> v \cap {0}, len |-> 1] # None
  BY <1>1, ListAssumption, WidthAssumption DEF Word
<1>2. ItemGlobals /\ result \in Value
  BY DEF ListInv, Inv, Shape, TypeOK
<1>3. CASE form = "number"
  BY <1>1, <1>2, <1>3 DEF ItemGlobals, Item, Value
<1>4. CASE form = "name"
  BY <1>1, <1>2, <1>4 DEF ItemGlobals, Item, Value
<1> QED BY <1>3, <1>4

LEMMA BsliceClosed == ListInv => Bslice \in Value
<1>1. ListInv => result \in Value
  BY DEF ListInv, Inv, Shape, TypeOK
<1>2. ASSUME NEW v \in Value PROVE And(v, {0}) \in Value
  BY WidthAssumption DEF And, Value, Word, Bit
<1> QED BY <1>1, <1>2 DEF Bslice

\* What one more item does to the innermost list.
LEMMA ItemJoins ==
  ASSUME ListInv, mode = "expr", NEW list \in List,
         list.meant # Poison => list.sum = list.meant
  PROVE  LET sum == IF list.sum = None THEN Bslice
                    ELSE Shifted(list.sum, bitsliceRange, Bslice)
         IN  /\ sum \in Value /\ MeantWith(list) \in Value
             /\ MeantWith(list) # Poison => sum = MeantWith(list)
<1>1. /\ Bslice \in Value /\ result \in Value /\ bitsliceRange \in Amount
      /\ form \in Form /\ list.sum \in Value \cup {None} /\ list.meant \in Value
  BY BsliceClosed DEF ListInv, Inv, Shape, TypeOK, ListTypeOK, List
<1>2. Item # None => /\ Bslice = Item.bits
                     /\ Item.len = bitsliceRange /\ Item.len \in 1 .. W - 1
                     /\ Item.bits \in SUBSET (0 .. Item.len - 1)
                     /\ Item.bits \in Word
  BY ItemIsBslice
<1>3. CASE list.sum = None
  <2>1. CASE Item # None
    BY <1>1, <1>2, <1>3, <2>1 DEF MeantWith, Value
  <2>2. CASE Item = None
    <3>1. MeantWith(list) = result
      BY <1>3, <2>2 DEF MeantWith
    <3>2. result # Poison => Bslice = result
      <4>1. CASE bitsliceIsID
        <5>1. form \in {"number", "name"}
          BY <1>1, <4>1 DEF ListInv, ItemGlobals, Form
        <5> QED BY <2>2, <5>1, LowestBitIsItem
      <4>2. CASE ~bitsliceIsID
        BY <4>2 DEF Bslice
      <4> QED BY <4>1, <4>2
    <3> QED BY <1>1, <1>3, <3>1, <3>2
  <2> QED BY <2>1, <2>2
<1>4. CASE list.sum # None
  <2>1. Shl(list.sum, bitsliceRange) \in Value
    BY <1>1, <1>4, OperatorsClosed DEF Amount
  <2>2. Shifted(list.sum, bitsliceRange, Bslice) \in Value
    BY <1>1, <2>1, AddClosed DEF Shifted
  <2>3. CASE list.meant = Poison \/ Item = None
    BY <1>4, <2>2, <2>3 DEF MeantWith, Value
  <2>4. CASE list.meant # Poison /\ Item # None
    <3>1. list.sum = list.meant /\ list.meant \in Word
      BY <1>1, <2>4 DEF Value
    <3>2. MeantWith(list) = {b \in Bit : b - Item.len \in list.meant} \cup Item.bits
      BY <1>4, <2>4 DEF MeantWith
    <3>3. Shifted(list.sum, Item.len, Item.bits)
            = {b \in Bit : b - Item.len \in list.sum} \cup Item.bits
      BY <1>2, <2>4, <3>1, ShiftedBeside
    <3>4. MeantWith(list) \in Value
      BY <1>2, <2>4, <3>2 DEF Value, Word
    <3> QED BY <1>2, <1>4, <2>2, <2>4, <3>1, <3>2, <3>3, <3>4
  <2> QED BY <2>3, <2>4
<1> QED BY <1>3, <1>4

LEMMA EndItemKeeps == ASSUME ListInv, EndItem PROVE ListInv'
<1> DEFINE n   == Len(lists)
           sum == IF lists[n].sum = None THEN Bslice
                  ELSE Shifted(lists[n].sum, bitsliceRange, Bslice)
           new == [sum |-> sum, meant |-> MeantWith(lists[n])]
<1>1. /\ mode = "expr" /\ lists # <<>> /\ mode' = "statement" /\ target' = None
      /\ result' = {} /\ named' = None /\ form' = "other"
      /\ UNCHANGED <<valueSliceDict, slicesDict, bitsliceFieldIds>>
      /\ bitsliceIsID' = FALSE
      /\ bitsliceRange' = IF lists[n].sum = None THEN bitsliceRange ELSE 1
  BY DEF EndItem, Globals
<1>2. lists' = [lists EXCEPT ![n] = new]
  BY DEF EndItem, Bslice
<1>3. /\ n \in Nat \ {0} /\ lists[n] \in List /\ lists \in Seq(List)
      /\ bitsliceRange \in Amount
  BY <1>1, ListValues DEF ListInv, ListTypeOK, List
<1>4. {} \in Value
  BY DEF Value, Word
<1>5. Inv'
  BY <1>1, <1>4, NothingNamed DEF ListInv
<1>6. n \in 1 .. n
  BY <1>3
<1>7. /\ sum \in Value /\ MeantWith(lists[n]) \in Value
      /\ MeantWith(lists[n]) # Poison => sum = MeantWith(lists[n])
  BY <1>1, <1>3, <1>6, ItemJoins DEF ListInv, ListsJoin
<1>8. new \in List /\ (new.meant # Poison => new.sum = new.meant)
  <2> HIDE DEF sum
  <2> QED BY <1>7 DEF List
<1> HIDE DEF new
<1>9. /\ lists' \in Seq(List) /\ Len(lists') = n /\ lists'[n] = new
      /\ \A k \in 1 .. n : k # n => lists'[k] = lists[k]
  BY <1>2, <1>3, <1>6, <1>8
<1>10. ListTypeOK'
  BY <1>1, <1>3, <1>9, NumbersAreGlobals DEF ListTypeOK, List, Form
<1>11. ItemGlobals' /\ ItemCleared'
  BY <1>1 DEF ItemGlobals, ItemCleared
<1>12. ListsJoin'
  BY <1>8, <1>9 DEF ListInv, ListsJoin
<1> QED BY <1>5, <1>10, <1>11, <1>12 DEF ListInv

-----------------------------------------------------------------------------
(* The theorems.                                                           *)

LEMMA ListInvNext == ListInv /\ [LNext]_<<vars, listVars>> => ListInv'
<1> SUFFICES ASSUME ListInv, [LNext]_<<vars, listVars>> PROVE ListInv'
  OBVIOUS
<1>1. [Next]_vars => Inv'
  BY InvNext DEF ListInv
<1>2. CASE UNCHANGED <<vars, listVars>>
  <2>1. Inv'
    BY <1>1, <1>2
  <2> QED BY <1>2, <2>1
      DEF ListInv, ListTypeOK, ItemGlobals, ItemCleared, ListsJoin, vars, listVars
<1>3. CASE StatementWithNumber \/ StatementWithExpr \/ StatementAlone
  BY <1>1, <1>3, BaseSteps, StatementsKeepListInv
<1>4. CASE \E x \in Var : Name(x)
  BY <1>1, <1>4, BaseSteps, NamesAndNumbers
<1>5. CASE \/ \E n \in Operand \ {Poison} : Number(n)
           \/ \E e \in Operand : Parenthesis(e)
  <2>1. Inv'
    BY <1>5, NumbersAssumption, NothingNamed
    DEF ListInv, Number, Parenthesis, Yields
  <2> QED BY <1>5, <2>1, NamesAndNumbers
<1>6. CASE \/ \E f \in Field : DotStep(f)
           \/ \E i \in Index : BitStep(i) \/ \E lo \in Index : RangeStep(i, lo)
  BY <1>1, <1>6, BaseSteps, Steps
<1>7. CASE LBrace \/ EndItem \/ RBrace
  BY <1>7, LBraceKeeps, EndItemKeeps, RBraceKeeps
<1> QED BY <1>2, <1>3, <1>4, <1>5, <1>6, <1>7 DEF LNext, Stopped

LEMMA ListInvHolds == LSpec => []ListInv
<1> QED BY ListInitHolds, ListInvNext, PTL DEF LSpec

\* The globals and the lists keep their types.
THEOREM ListTypesHold == LSpec => []ListTypeOK
<1>1. ListInv => ListTypeOK
  BY DEF ListInv
<1> QED BY <1>1, ListInvHolds, PTL

\* A list of bits is its items side by side, whatever was reduced before.
THEOREM ListsJoinItems == LSpec => []ListsJoin
<1>1. ListInv => ListsJoin
  BY DEF ListInv
<1> QED BY <1>1, ListInvHolds, PTL

\* "Reset the slice to be the whole range": no slice outlives its assignment,
\* with lists in the program as well.
THEOREM SlicesResetAmongLists == LSpec => []WholeOutsideLhs
<1>1. ListInv => WholeOutsideLhs
  BY DEF ListInv, Inv
<1> QED BY <1>1, ListInvHolds, PTL

\* Inside a list fields and bits read as the bits they mean.
THEOREM ItemsReadNamedBits == LSpec => []ReadsNamedBits
<1>1. ListInv => ReadsNamedBits
  BY DEF ListInv, Inv
<1> QED BY <1>1, ListInvHolds, PTL

\* No list changes what an assignment writes.
THEOREM AssignmentsAmongLists == LSpec => AssignsNamedBits
<1> DEFINE Old == valueSliceDict[target].value
           New == valueSliceDict'[target].value
           Written == {b \in Bit : IF b \in named.lo .. named.lo + named.len - 1
                                   THEN b - named.lo \in result
                                   ELSE b \in Old}
           A == mode = "assign" /\ mode' # mode /\ Known(target) /\ named # None =>
                  (Old # Poison /\ result # Poison => New = Written)
<1>1. ListInv /\ [LNext]_<<vars, listVars>> => A
  <2> SUFFICES ASSUME ListInv, [LNext]_<<vars, listVars>>, mode = "assign"
               PROVE  A
    OBVIOUS
  <2>1. [Next]_vars
    <3>1. CASE UNCHANGED <<vars, listVars>>
      BY <3>1
    <3>2. CASE \/ (\E n \in Operand \ {Poison} : Number(n))
               \/ (\E e \in Operand : Parenthesis(e))
               \/ LBrace \/ EndItem \/ RBrace
      BY <3>2 DEF Number, Parenthesis, LBrace, EndItem, RBrace
    <3> QED BY <3>1, <3>2, BaseSteps DEF LNext
  <2> QED BY <2>1, AssignWrites DEF ListInv
<1>2. [][A]_<<vars, listVars>> => AssignsNamedBits
  <2>1. [A]_<<vars, listVars>> => [A]_vars
    BY DEF vars
  <2> QED BY <2>1, PTL DEF AssignsNamedBits
<1> QED BY <1>1, <1>2, ListInvHolds, PTL DEF LSpec
=============================================================================
