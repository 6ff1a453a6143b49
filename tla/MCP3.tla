-------------------------------- MODULE MCP3 --------------------------------
(***************************************************************************)
(* The whole of p3 on functions with a loop, where what LICM moves meets   *)
(* its copies and other accesses to its memory in front of the loop.       *)
(***************************************************************************)
EXTENDS P3, MCLICM

P3Block == [loop  |-> <<A, A, A, B, B, C>>,
            while |-> <<A, A, B, B, C, D>>,
            nest  |-> <<A, B, B, C, D, E>>,
            skip  |-> <<A, A, B, B, B, C>>]

P3Menu ==
  << Sub({zero}, {a}) \cup Store({a}, {q}) \cup Load({q}),
     Sub({1}, {a}) \cup Load({q}) \cup RMW({q}, {a}) \cup Store({zero}, {p, q}),
     Sub({1}, {a}) \cup Load({p, q}) \cup Call({2}),
     Load({q}) \cup RMW({q}, {a}) \cup Sub({2}, {a}),
     Sub({4}, {a}) \cup Store({3}, {q}) \cup Load({q}),
     Term({5}, {4}) >>

P3Programs ==
  Usable({Assemble(g, P3Block[g], FromOf[g], <<c1, c2, c3, c4, c5, c6>>) :
            g \in DOMAIN P3Block, c1 \in P3Menu[1], c2 \in P3Menu[2],
            c3 \in P3Menu[3], c4 \in P3Menu[4], c5 \in P3Menu[5],
            c6 \in P3Menu[6]})

-----------------------------------------------------------------------------

\* "loop invariant load instructions" (p3.cpp): a load that LICM moves, and to
\* which CSE then forwards a store (canMoveLoadOutOfLoop,
\* eliminateRedundantStoreCall), reads the same, atomics between or not.
AtomicsRespected ==
  exit = "0" =>
    SameBehaviour(prog, Written, {env \in Env : ~env.clobbers})
=============================================================================
