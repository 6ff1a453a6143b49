----------------------------- MODULE MCPrograms -----------------------------
(***************************************************************************)
(* The small functions TLC runs the passes on: every function a skeleton   *)
(* (a graph and the block of each instruction) allows, with the            *)
(* instructions drawn from a short menu per position and only the          *)
(* well-typed, well-placed ones kept.                                      *)
(***************************************************************************)
EXTENDS IRSem, SequencesExt

CONSTANTS nil, zero, a, p, q,       \* model values: Nil, 0, an integer, pointers
          A, B, C, D               \* model values: blocks

MCLeaf  == {nil, zero, a, p, q}
MCBlock == {A, B, C, D}
MCGraph == {"block", "line", "diamond", "loop", "island"}

\* block: A.  line: A -> B -> C.  diamond: A -> B, C -> D.
\* loop: A -> B -> B, C.  island: A -> B, and C, which nothing reaches, -> B.
ClosedUnder(strictly) ==
  {e \in MCBlock \X MCBlock : e[1] = e[2] \/ e \in strictly}

MCDom == [block   |-> ClosedUnder({}),
          line    |-> ClosedUnder({<<A, B>>, <<A, C>>, <<B, C>>}),
          diamond |-> ClosedUnder({<<A, B>>, <<A, C>>, <<A, D>>}),
          loop    |-> ClosedUnder({<<A, B>>, <<A, C>>, <<B, C>>}),
          island  |-> ClosedUnder({<<A, B>>, <<A, C>>, <<B, C>>})]

MCReached == [block |-> {A}, line |-> {A, B, C}, diamond |-> MCBlock,
              loop |-> {A, B, C}, island |-> {A, B}]

MCPaths == [block   |-> {<<A>>},
            line    |-> {<<A, B, C>>},
            diamond |-> {<<A, B, D>>, <<A, C, D>>},
            loop    |-> {<<A, B, C>>, <<A, B, B, C>>, <<A, B, B, B, C>>},
            island  |-> {<<A, B>>}]

\* Words of two bits, two of them addresses.
MCWord == 0..3
MCCell == 0..1

MCCompute ==
  [k \in Computed |-> [x \in MCWord |-> [y \in MCWord |->
     IF k = "sub" THEN (x - y) % 4
     ELSE IF k = "div" THEN IF y = 0 THEN 0 ELSE x \div y
     ELSE IF k = "gep" THEN IF y = 0 THEN x ELSE (x + y) % 2
     ELSE IF k = "fcmp" THEN IF x < y THEN 1 ELSE 0
     ELSE (x + y + 1) % 4]]]

\* A call returns what it finds in the first cell, and counts both up.
MCReturns   == [x \in MCWord |-> [mem \in [MCCell -> MCWord] |-> mem[0]]]
MCClobbered == [x \in MCWord |-> [mem \in [MCCell -> MCWord] |->
                                   [c \in MCCell |-> (mem[c] + 1) % 4]]]

MCFrame == [i \in Id |-> i % 2]

\* p and q alias or not; the values in play are all different.
MCEnvs ==
  {[leaf |-> (nil :> 0) @@ (zero :> 0) @@ (a :> 1) @@ (p :> 0) @@ (q :> alias),
    frame |-> MCFrame, mem |-> (0 :> 2) @@ (1 :> 3), clobbers |-> w]
     : alias \in MCCell, w \in BOOLEAN}

-----------------------------------------------------------------------------

\* The type of what each operand slot of a kind takes, "int" or "ptr".
SlotType(k, s) ==
  IF \/ s = 1 /\ k \in {"gep", "load", "vload", "rmw"}
     \/ s = 2 /\ k \in Stores
  THEN "ptr" ELSE "int"

TypeOf(kind, v) ==
  IF v \in Id THEN IF kind[v] \in {"gep", "alloca"} THEN "ptr" ELSE "int"
  ELSE IF v \in {p, q} THEN "ptr" ELSE "int"

WellTyped(P) ==
  \A i \in Id, s \in Slot :
    LET v == P.args[i][s] IN
    /\ v \in Id => P.kind[v] \notin Void
    /\ v # nil => TypeOf(P.kind, v) = SlotType(P.kind[i], s)

\* A function from one <<kind, operand, operand>> per position.
Assemble(g, blk, from, code) ==
  [kind  |-> [i \in Id |-> code[i][1]],
   blk   |-> blk,
   from  |-> [i \in Id |-> from],
   args  |-> [i \in Id |-> <<code[i][2], code[i][3]>>],
   graph |-> g]

\* Phis only where paths meet, and first in their block.
Joins == {<<"diamond", D>>, <<"loop", B>>, <<"island", B>>, <<"while", B>>,
          <<"nest", B>>, <<"break", B>>, <<"skip", B>>}

PhisInPlace(P) ==
  \A i \in Id : P.kind[i] = "phi" =>
    /\ <<P.graph, P.blk[i]>> \in Joins
    /\ \A j \in Id : j < i /\ P.blk[j] = P.blk[i] => P.kind[j] = "phi"

Usable(set) ==
  {P \in set : PhisInPlace(P) /\ WellTyped(P) /\ UsesWellPlaced(P, P.args)}

\* Menus.
Load(ptrs)      == {<<"load", x, nil>> : x \in ptrs}
VLoad(ptrs)     == {<<"vload", x, nil>> : x \in ptrs}
Store(vs, ptrs) == {<<"store", v, x>> : v \in vs, x \in ptrs}
VStore(vs, ptrs) == {<<"vstore", v, x>> : v \in vs, x \in ptrs}
RMW(ptrs, vs)   == {<<"rmw", x, v>> : x \in ptrs, v \in vs}
Call(vs)        == {<<"call", v, nil>> : v \in vs}
Sub(xs, ys)     == {<<"sub", x, y>> : x \in xs, y \in ys}
Div(xs, ys)     == {<<"div", x, y>> : x \in xs, y \in ys}
Gep(xs, ys)     == {<<"gep", x, y>> : x \in xs, y \in ys}
Fcmp(xs, ys)    == {<<"fcmp", x, y>> : x \in xs, y \in ys}
Phi(xs, ys)     == {<<"phi", x, y>> : x \in xs, y \in ys}
Term(xs, ys)    == {<<"term", x, y>> : x \in xs, y \in ys}
Alloca          == {<<"alloca", nil, nil>>}
=============================================================================
