------------------------------ MODULE BitList ------------------------------
(***************************************************************************)
(* Lists of bits, {a, b.f, c[3]}, in projects/p1/C++/p1.y, around the      *)
(* reads of module BitSlice.  How wide the last bitslice is, and whether   *)
(* only its lowest bit counts, is kept in two globals that every rule for  *)
(* a bitslice sets and that the rules for lists use and reset.  Lists may  *)
(* be items of lists.                                                      *)
(*                                                                         *)
(* handleBitsliceID, defined nowhere, is taken to set the globals as the   *)
(* rule for numbers does: only then does {a, b, c} mean three bits.        *)
(***************************************************************************)
EXTENDS BitSlice

CONSTANT MaxOpen   \* bound: lists open at a time

\* A shift by the width is poison, and one bit is never as wide as a word.
ASSUME ListAssumption ==
  /\ W > 1
  /\ None \notin [bits : Word, len : 1..W]

VARIABLES
  bitsliceIsID,    \* only the lowest bit of the last bitslice counts
  bitsliceRange,   \* its width
  lists,           \* $$ of bitslice_list_helper of each open list, innermost
                   \* last, None before an item, and the bits it means
  form             \* history: how the last bitslice was written

listVars == <<bitsliceIsID, bitsliceRange, lists, form>>

Form == {"number", "name", "step", "other"}

Globals(isID, range) == bitsliceIsID' = isID /\ bitsliceRange' = range

\* An expression of which only the value is modelled leaves what its last
\* bitslice left: a number or a name, or anything else of some width.
Ranges == {1, W} \cup {s.range : s \in Bounds}

ExprGlobals == Globals(TRUE, 1) \/ \E n \in Ranges : Globals(FALSE, n)

LInit ==
  /\ Init
  /\ bitsliceIsID = FALSE
  /\ bitsliceRange = 1
  /\ lists = <<>>
  /\ form = "other"

-----------------------------------------------------------------------------
(* Statements, and the expressions in them.                                *)

Outside == lists = <<>> /\ UNCHANGED <<lists, form>>

\* Bounds and indices are written as numbers.
StatementWithNumber ==
  /\ Outside
  /\ Globals(TRUE, 1)
  /\ \/ \E f \in Field, s \in Bounds : AddSlice(f, s)
     \/ \E i \in Index : LhsIndex(i) \/ \E lo \in Index : LhsRange(i, lo)

StatementWithExpr == Outside /\ ExprGlobals /\ \E e \in Operand : Evaluate(e)

StatementAlone ==
  /\ Outside
  /\ UNCHANGED <<bitsliceIsID, bitsliceRange>>
  /\ \/ \E f \in Field : ListField(f) \/ LhsDot(f) \/ LhsDotUnknown(f)
     \/ EndSlice
     \/ \E x \in Var : LhsName(x)
     \/ \E i \in Index : LhsNumber(i)
     \/ Assign
     \/ Final

-----------------------------------------------------------------------------
(* bitslice                                                                *)

Name(x) == ReadName(x) /\ Globals(TRUE, 1) /\ form' = "name" /\ UNCHANGED lists

\* A bitslice that is no variable: what it means is in form, if anywhere.
Yields(value, how) ==
  /\ mode' = "expr"
  /\ target' = None
  /\ result' = value
  /\ named' = None
  /\ form' = how
  /\ UNCHANGED <<valueSliceDict, slicesDict, bitsliceFieldIds>>

Number(n) ==
  /\ mode = "statement"
  /\ Yields(n, "number")
  /\ Globals(TRUE, 1)
  /\ UNCHANGED lists

\* LPAREN expr RPAREN
Parenthesis(e) ==
  /\ mode = "statement"
  /\ Yields(e, "other")
  /\ Globals(FALSE, 1)
  /\ UNCHANGED lists

\* A slip: the width of the field before stays.
BitKeepsRange(i) ==
  ReadBit(i) /\ Globals(FALSE, bitsliceRange) /\ form' = "step" /\ UNCHANGED lists

\* x7 and x[7]; in x[expr] the action comes after the expression's.
BitStep(i) ==
  ReadBit(i) /\ Globals(FALSE, 1) /\ form' = "step" /\ UNCHANGED lists

\* An unknown field leaves the width as it was.
DotStep(f) ==
  /\ ReadDot(f)
  /\ Globals(FALSE, IF slicesDict[f] = None THEN bitsliceRange
                                            ELSE slicesDict[f].range)
  /\ form' = "step"
  /\ UNCHANGED lists

\* The width of a range is not kept.
RangeStep(hi, lo) ==
  ReadRange(hi, lo) /\ Globals(FALSE, 1) /\ form' = "step" /\ UNCHANGED lists

-----------------------------------------------------------------------------
(* bitslice_list and bitslice_list_helper                                  *)

\* The item the last bitslice is: its bits and how many they are.
Item ==
  IF form = "number"
  THEN [bits |-> result \cap {0}, len |-> 1]
  ELSE IF named = None \/ valueSliceDict[target].value = Poison THEN None
  ELSE IF form = "name"
  THEN [bits |-> valueSliceDict[target].value \cap {0}, len |-> 1]
  ELSE IF named.ranges \/ named.len = W THEN None
  ELSE [bits |-> {b \in 0 .. named.len - 1 :
                    b + named.lo \in valueSliceDict[target].value},
        len  |-> named.len]

\* What a list means after one more item, or Poison if nothing certain.  The
\* first item may have any width.
MeantWith(list) ==
  IF list.sum = None
  THEN IF Item # None THEN Item.bits ELSE result
  ELSE IF list.meant = Poison \/ Item = None THEN Poison
  ELSE {b \in Bit : b - Item.len \in list.meant} \cup Item.bits

LBrace ==
  /\ mode = "statement"
  /\ Len(lists) < MaxOpen
  /\ lists' = Append(lists, [sum |-> None, meant |-> Poison])
  /\ UNCHANGED <<vars, bitsliceIsID, bitsliceRange, form>>

Shifted(value, n, bslice) == Add(Shl(value, n), bslice)

\* The end of an item: a comma or the closing brace follows.
EndItem ==
  /\ mode = "expr"
  /\ lists # <<>>
  /\ LET k      == Len(lists)
         bslice == IF bitsliceIsID THEN And(result, {0}) ELSE result
         first  == lists[k].sum = None
     IN  /\ lists' = [lists EXCEPT
                        ![k] = [sum   |-> IF first THEN bslice
                                          ELSE Shifted(@.sum, bitsliceRange, bslice),
                                meant |-> MeantWith(@)]]
         /\ Globals(FALSE, IF first THEN bitsliceRange ELSE 1)
  /\ mode' = "statement"
  /\ target' = None
  /\ result' = {}
  /\ named' = None
  /\ form' = "other"
  /\ UNCHANGED <<valueSliceDict, slicesDict, bitsliceFieldIds>>

RBrace ==
  /\ mode = "statement"
  /\ lists # <<>>
  /\ lists[Len(lists)].sum # None
  /\ Yields(lists[Len(lists)].sum, "other")
  /\ lists' = SubSeq(lists, 1, Len(lists) - 1)
  /\ UNCHANGED <<bitsliceIsID, bitsliceRange>>

-----------------------------------------------------------------------------

LNext ==
  \/ StatementWithNumber
  \/ StatementWithExpr
  \/ StatementAlone
  \/ \E x \in Var : Name(x)
  \/ \E n \in Operand \ {Poison} : Number(n)
  \/ \E e \in Operand : Parenthesis(e)
  \/ \E f \in Field : DotStep(f)
  \/ \E i \in Index : BitStep(i) \/ \E lo \in Index : RangeStep(i, lo)
  \/ LBrace
  \/ EndItem
  \/ RBrace
  \/ Stopped /\ UNCHANGED listVars

LSpec == LInit /\ [][LNext]_<<vars, listVars>>

-----------------------------------------------------------------------------

\* TYPE: what the globals and the open lists range over.
ListTypeOK ==
  /\ bitsliceIsID \in BOOLEAN
  /\ bitsliceRange \in Amount
  /\ lists \in Seq([sum : Value \cup {None}, meant : Value])
  /\ form \in Form

\* {a, b.f, c[3]} is its items side by side, however the bitslices before,
\* inside and around it have left the two globals: an item after the first
\* is shifted in by its own width (bitslice_list_helper, p1.y).  Not so after
\* a range, a parenthesis or a list, whose width is lost.
ListsJoin ==
  \A k \in 1..Len(lists) :
    lists[k].meant # Poison => lists[k].sum = lists[k].meant
=============================================================================
