------------------------------ MODULE BitSlice ------------------------------
(***************************************************************************)
(* The slices of projects/p1/C++/p1.y: the two dictionaries its semantic   *)
(* actions keep while bison reduces a program, and the words the emitted   *)
(* code computes.  One action per reduction, in the order of the parser:   *)
(* the left-hand side before the expression, the assignment last.  The     *)
(* program is whatever the grammar allows.                                 *)
(*                                                                         *)
(* handleBitsliceID, which reads a variable, is called but defined nowhere *)
(* in the repository; it is taken to yield the variable's value.           *)
(***************************************************************************)
EXTENDS Word, Sequences

CONSTANTS
  Var,       \* names of variables
  Field,     \* names of slice fields
  Bounds,    \* the numbers written as bounds: [start, range] of a declaration
  Index,     \* the numbers written as a bit index or as an end of a range
  Operand,   \* the words the expressions of assignments evaluate to
  None,      \* no entry in a dictionary, no variable
  MaxIds     \* bound: fields listed without bounds in one slice statement

VARIABLES
  mode,              \* what the parser is in the middle of
  valueSliceDict,    \* value and slice of each variable
  slicesDict,        \* bounds of each field
  bitsliceFieldIds,  \* the fields listed without bounds, last first
  target,            \* $1: the variable the steps below apply to
  result,            \* $$ of expr
  named              \* history: the bits of the target the steps mean

vars == <<mode, valueSliceDict, slicesDict, bitsliceFieldIds, target, result,
          named>>

ASSUME NumbersAssumption ==
  /\ Bounds \subseteq [start : Amount, range : Amount]
  /\ Index \subseteq Amount
  /\ Operand \subseteq Value
  /\ MaxIds \in Nat
  /\ MaxIds <= Span

\* None is none of the things it stands for the absence of.
ASSUME NoneAssumption ==
  /\ \A v \in Value, s \in [start : Amount, range : Amount] :
       [value |-> v, slice |-> s] # None
  /\ None \notin [lo : Bit, len : 1..W, ranges : BOOLEAN]

Mode == {"statement", "slice", "lhs", "assign", "expr", "accepted", "failed"}

Slice == [start : Amount, range : Amount]

DefaultSlice == [start |-> 0, range |-> W]

NewValue(v) == [value |-> v, slice |-> DefaultSlice]

Known(x) == valueSliceDict[x] # None

(***************************************************************************)
(* Bits lo, ..., lo + len - 1 of a variable, found through a range or not; *)
(* None once the steps mean nothing certain.  A step is counted from the   *)
(* first bit of what it is applied to and stays inside it.                 *)
(***************************************************************************)
WholeWord == [lo |-> 0, len |-> W, ranges |-> FALSE]

Inside(around, s) ==
  IF around # None /\ s.range > 0 /\ s.start + s.range <= around.len
  THEN [around EXCEPT !.lo = @ + s.start, !.len = s.range]
  ELSE None

Single(i) == [start |-> i, range |-> 1]

\* After "in": some variables are arguments, of any value.
Init ==
  /\ mode = "statement"
  /\ valueSliceDict \in [Var -> {None} \cup {NewValue(v) : v \in Word}]
  /\ slicesDict = [f \in Field |-> None]
  /\ bitsliceFieldIds = <<>>
  /\ target = None
  /\ result = {}
  /\ named = None

-----------------------------------------------------------------------------
(* SLICE field_list ENDLINE                                                *)

Declaring ==
  /\ mode \in {"statement", "slice"}
  /\ mode' = "slice"
  /\ UNCHANGED <<valueSliceDict, target, result, named>>

\* f:start and f[range]:start.  insert keeps an entry that is there.
AddSlice(f, s) ==
  /\ Declaring
  /\ slicesDict' = IF slicesDict[f] = None THEN [slicesDict EXCEPT ![f] = s]
                                           ELSE slicesDict
  /\ UNCHANGED bitsliceFieldIds

\* f alone
ListField(f) ==
  /\ Declaring
  /\ Len(bitsliceFieldIds) < MaxIds
  /\ bitsliceFieldIds' = <<f>> \o bitsliceFieldIds
  /\ UNCHANGED slicesDict

\* The listed fields get positions 0, 1, ... from the last one on; the range
\* stays that of the default slice.
Listed == {bitsliceFieldIds[k] : k \in 1..Len(bitsliceFieldIds)}

PositionOf(f) ==
  CHOOSE k \in 1..Len(bitsliceFieldIds) :
    /\ bitsliceFieldIds[k] = f
    /\ \A m \in k+1 .. Len(bitsliceFieldIds) : bitsliceFieldIds[m] # f

EndSlice ==
  /\ mode = "slice"
  /\ mode' = "statement"
  /\ slicesDict' =
       [f \in Field |-> IF f \in Listed
                        THEN [start |-> PositionOf(f) - 1, range |-> W]
                        ELSE slicesDict[f]]
  /\ bitsliceFieldIds' = <<>>
  /\ UNCHANGED <<valueSliceDict, target, result, named>>

-----------------------------------------------------------------------------
(* bitslice_lhs ASSIGN expr ENDLINE                                        *)

LhsName(x) ==
  /\ mode = "statement"
  /\ mode' = "lhs"
  /\ target' = x
  /\ named' = WholeWord
  /\ UNCHANGED <<valueSliceDict, slicesDict, bitsliceFieldIds, result>>

\* A step after the name.
Lhs == mode = "lhs" /\ UNCHANGED <<slicesDict, bitsliceFieldIds, target, result>>

SetSlice(s) ==
  valueSliceDict' = [valueSliceDict EXCEPT ![target].slice = s]

\* a1: the slice is built in a copy of the entry that is not stored back.
LhsNumber(n) ==
  /\ Lhs
  /\ named' = None
  /\ UNCHANGED <<mode, valueSliceDict>>

\* A slip: the field's start replaces the start of the slice around it.
LhsDotAbsolute(f) ==
  /\ Lhs
  /\ slicesDict[f] # None
  /\ named' = Inside(named, slicesDict[f])
  /\ IF Known(target)
     THEN SetSlice(slicesDict[f])
     ELSE valueSliceDict' = [valueSliceDict EXCEPT
            ![target] = [value |-> {}, slice |-> slicesDict[f]]]
  /\ UNCHANGED mode

\* a.f, inside the slice that was there; an unknown variable becomes 0.
LhsDot(f) ==
  /\ Lhs
  /\ slicesDict[f] # None
  /\ named' = Inside(named, slicesDict[f])
  /\ IF Known(target)
     THEN LET around == valueSliceDict[target].slice
          IN  SetSlice([start |-> Wrap(around.start + slicesDict[f].start),
                        range |-> slicesDict[f].range])
     ELSE valueSliceDict' = [valueSliceDict EXCEPT
            ![target] = [value |-> {}, slice |-> slicesDict[f]]]
  /\ UNCHANGED mode

\* YYERROR, and no rule recovers from it: the module is discarded.
LhsDotUnknown(f) ==
  /\ Lhs
  /\ slicesDict[f] = None
  /\ mode' = "failed"
  /\ UNCHANGED <<valueSliceDict, named>>

\* a[i] and a[hi:lo], counted from bit 0 of a whatever came before.  yyerror
\* only prints: for a name without a value all stays as it was.
LhsIndex(i) ==
  /\ Lhs
  /\ named' = IF Known(target) /\ named = WholeWord
              THEN Inside(named, Single(i)) ELSE None
  /\ IF Known(target) THEN SetSlice(Single(i)) ELSE UNCHANGED valueSliceDict
  /\ UNCHANGED mode

RangeSlice(hi, lo) == [start |-> hi, range |-> Wrap(Wrap(hi - lo) + 1)]

LhsRange(hi, lo) ==
  /\ Lhs
  /\ named' = None
  /\ IF Known(target) THEN SetSlice(RangeSlice(hi, lo))
                      ELSE UNCHANGED valueSliceDict
  /\ UNCHANGED mode

\* The expression of the assignment.
Evaluate(e) ==
  /\ mode = "lhs"
  /\ mode' = "assign"
  /\ result' = e
  /\ UNCHANGED <<valueSliceDict, slicesDict, bitsliceFieldIds, target, named>>

\* The bits of the slice come from e, the others from the old value.
Merged(old, s, e) ==
  LET mask == CreateMask(s.start, s.range)
  IN  Or(And(mask, Shl(e, s.start)), And(old, Not(mask)))

EndStatement ==
  /\ mode' = "statement"
  /\ target' = None
  /\ result' = {}
  /\ named' = None
  /\ UNCHANGED <<slicesDict, bitsliceFieldIds>>

\* A slip: the slice stays, and applies to the next assignment as well.
AssignKeepSlice ==
  /\ mode = "assign"
  /\ valueSliceDict' =
       [valueSliceDict EXCEPT ![target] =
          IF Known(target)
          THEN [value |-> Merged(@.value, @.slice, result), slice |-> @.slice]
          ELSE NewValue(result)]
  /\ EndStatement

Assign ==
  /\ mode = "assign"
  /\ valueSliceDict' =
       [valueSliceDict EXCEPT ![target] =
          NewValue(IF Known(target) THEN Merged(@.value, @.slice, result)
                                    ELSE result)]
  /\ EndStatement

-----------------------------------------------------------------------------
(* final expr, for an expression that is one bitslice                      *)

ReadName(x) ==
  /\ mode = "statement"
  /\ Known(x)
  /\ mode' = "expr"
  /\ target' = x
  /\ result' = valueSliceDict[x].value
  /\ named' = WholeWord
  /\ UNCHANGED <<valueSliceDict, slicesDict, bitsliceFieldIds>>

Read(value, meant) ==
  /\ mode = "expr"
  /\ result' = value
  /\ named' = meant
  /\ UNCHANGED <<mode, valueSliceDict, slicesDict, bitsliceFieldIds, target>>

\* An unknown field is reported, and $$ keeps bison's default, $1.
ReadDot(f) ==
  IF slicesDict[f] = None
  THEN Read(result, None)
  ELSE Read(GetMaskedValue(result, slicesDict[f]), Inside(named, slicesDict[f]))

\* x7 and x[7]
ReadBit(i) == Read(GetBit(result, i), Inside(named, Single(i)))

Meant(hi, lo) ==
  IF named # None /\ lo <= hi
  THEN Inside([named EXCEPT !.ranges = TRUE],
              [start |-> lo, range |-> hi - lo + 1])
  ELSE None

ReadRange(hi, lo) ==
  Read(GetMaskedValue(result, RangeSlice(hi, lo)), Meant(hi, lo))

Final ==
  /\ mode = "expr"
  /\ mode' = "accepted"
  /\ UNCHANGED <<valueSliceDict, slicesDict, bitsliceFieldIds, target, result,
                 named>>

-----------------------------------------------------------------------------

Done == mode \in {"accepted", "failed"}

Stopped == Done /\ UNCHANGED vars

Next ==
  \/ \E f \in Field : \/ \E s \in Bounds : AddSlice(f, s)
                      \/ ListField(f)
                      \/ LhsDot(f) \/ LhsDotUnknown(f)
                      \/ ReadDot(f)
  \/ EndSlice
  \/ \E x \in Var : LhsName(x) \/ ReadName(x)
  \/ \E i \in Index : \/ LhsNumber(i) \/ LhsIndex(i)
                      \/ ReadBit(i)
                      \/ \E lo \in Index : LhsRange(i, lo) \/ ReadRange(i, lo)
  \/ \E e \in Operand : Evaluate(e)
  \/ Assign
  \/ Final
  \/ Stopped

Spec == Init /\ [][Next]_vars

-----------------------------------------------------------------------------

\* TYPE: what the seven variables range over.
TypeOK ==
  /\ mode \in Mode
  /\ valueSliceDict \in [Var -> {None} \cup [value : Value, slice : Slice]]
  /\ slicesDict \in [Field -> {None} \cup Slice]
  /\ bitsliceFieldIds \in Seq(Field)
  /\ target \in {None} \cup Var
  /\ result \in Value
  /\ named \in {None} \cup [lo : Bit, len : 1..W, ranges : BOOLEAN]

\* "In bitwise_lhs ASSIGN expr phase, reset the slice to be the whole range":
\* only the variable being assigned to has another slice than that.
WholeOutsideLhs ==
  mode # "failed" =>
    \A x \in Var :
      \/ x = target /\ mode \in {"lhs", "assign"}
      \/ Known(x) => valueSliceDict[x].slice = DefaultSlice

\* An assignment through fields, or through one bit of a variable, gives the
\* bits it means the low bits of the expression and leaves the others alone.
AssignsNamedBits ==
  [][mode = "assign" /\ mode' # mode /\ Known(target) /\ named # None =>
       LET old == valueSliceDict[target].value
           new == valueSliceDict'[target].value
       IN  old # Poison /\ result # Poison =>
             new = {b \in Bit : IF b \in named.lo .. named.lo + named.len - 1
                                THEN b - named.lo \in result
                                ELSE b \in old}]_vars

Cut(v) == {b \in 0 .. named.len - 1 : b + named.lo \in v}

ReadsTheNamed ==
  LET v == valueSliceDict[target].value IN v # Poison => result = Cut(v)

\* Fields and bits, and fields and bits of those, read as the bits they mean,
\* moved to the bottom.
ReadsNamedBits ==
  mode \in {"expr", "accepted"} /\ named # None => named.ranges \/ ReadsTheNamed

\* "[4:2], [4:4]: start = $5 = 2, range = $3-$5+1 = 3": a range does as well.
RangesReadNamedBits ==
  mode \in {"expr", "accepted"} /\ named # None => ReadsTheNamed

\* A declared field means the same bits in all statements that follow, unless
\* it is listed without bounds.
BoundsStay ==
  [][\A f \in Field :
       slicesDict[f] # None /\ f \notin Listed => slicesDict'[f] = slicesDict[f]]_vars
=============================================================================
