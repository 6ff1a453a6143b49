-------------------------------- MODULE Word --------------------------------
(***************************************************************************)
(* The 32-bit integers that a compiled p1 program computes with: a word is *)
(* the set of the positions of its one bits.  LLVM's shifts are poison     *)
(* when they shift by the width or more, and poison spreads; the masks of  *)
(* p1.y are made of such shifts.                                           *)
(***************************************************************************)
EXTENDS Integers

CONSTANTS
  W,       \* the width, 32 in the code
  Span,    \* the number of words, 2^32: bounds are computed modulo Span
  Poison   \* LLVM's poison value

ASSUME WidthAssumption ==
  /\ W \in Nat \ {0}
  /\ Span \in Nat
  /\ 2 * W < Span

Bit    == 0 .. W - 1
Word   == SUBSET Bit
Amount == 0 .. Span - 1     \* a word read as a number: a bound, a shift

ASSUME PoisonAssumption == \A w \in Word : w # Poison

Value == {Poison} \cup Word

\* i32 addition and subtraction of two amounts.
Wrap(n) == IF n < 0 THEN n + Span ELSE IF n >= Span THEN n - Span ELSE n

And(x, y) == IF x = Poison \/ y = Poison THEN Poison ELSE x \cap y
Or(x, y)  == IF x = Poison \/ y = Poison THEN Poison ELSE x \cup y
Not(x)    == IF x = Poison THEN Poison ELSE Bit \ x

Shl(x, n) ==
  IF x = Poison \/ n >= W THEN Poison ELSE {b \in Bit : b - n \in x}

LShr(x, n) ==
  IF x = Poison \/ n >= W THEN Poison ELSE {b \in Bit : b + n \in x}

\* i32 addition: a carry comes from a bit that both have, through bits that
\* one of them has; a bit of the sum is set if one or all three are.
Carry(x, y, b) ==
  \E c \in 0 .. b - 1 : c \in x \cap y /\ c + 1 .. b - 1 \subseteq x \cup y

Add(x, y) ==
  IF x = Poison \/ y = Poison THEN Poison
  ELSE {b \in Bit : (b \in x) <=> ((b \in y) <=> Carry(x, y, b))}

-----------------------------------------------------------------------------

\* A slip: the mask is one bit too wide.
WiderMask(start, range) ==
  Shl(LShr(Bit, Wrap(W - 1 - range)), start)

\* All ones, shifted right by 32 - range and left by start.
CreateMask(start, range) == Shl(LShr(Bit, Wrap(W - range)), start)

GetMaskedValue(value, slice) ==
  LShr(And(CreateMask(slice.start, slice.range), value), slice.start)

GetBit(value, position) == And(LShr(value, position), {0})
=============================================================================
