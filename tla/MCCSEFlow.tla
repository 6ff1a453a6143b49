------------------------------ MODULE MCCSEFlow -----------------------------
(***************************************************************************)
(* CSE across blocks, on arithmetic, addresses and phis.  In "line" block  *)
(* C is laid out before B, which dominates it; in "loop" an operand of the *)
(* phi comes after it; in "island" no path reaches C.  Together with the   *)
(* memory programs, the functions of run cse.                              *)
(***************************************************************************)
EXTENDS MCCSEMemory

BlockOf == [block   |-> <<A, A, A, A, A, A>>,
            line    |-> <<A, A, C, C, B, B>>,
            diamond |-> <<A, B, D, D, D, D>>,
            loop    |-> <<A, A, B, B, B, C>>,
            island  |-> <<A, C, B, B, B, B>>]

FromOf == [block |-> <<A, A>>, line |-> <<A, A>>, diamond |-> <<C, B>>,
           loop  |-> <<A, B>>, island |-> <<A, C>>]

Menu ==
  << Sub({zero}, {a}) \cup Gep({p}, {a}) \cup Load({p}),
     Sub({zero, 1}, {a}) \cup Fcmp({1}, {a}) \cup RMW({p}, {a}) \cup Gep({p}, {a})
       \cup Alloca,
     Sub({zero, 2}, {a}) \cup Phi({1}, {1, 2}) \cup Phi({a}, {4}) \cup Load({1})
       \cup Gep({p}, {a}),
     Call({2, 3}) \cup Sub({zero, 3}, {a}) \cup Store({3}, {p}),
     Sub({zero, 1}, {a, zero}) \cup Load({p}) \cup RMW({p}, {a}),
     Term({2}, {3}) \cup Term({5}, {4}) >>

FlowPrograms ==
  Usable({Assemble(g, BlockOf[g], FromOf[g], <<c1, c2, c3, c4, c5, c6>>) :
            g \in MCGraph, c1 \in Menu[1], c2 \in Menu[2], c3 \in Menu[3],
            c4 \in Menu[4], c5 \in Menu[5], c6 \in Menu[6]})

CSEPrograms == MemoryPrograms \cup FlowPrograms
=============================================================================
