------------------------------- MODULE MCLICM -------------------------------
(***************************************************************************)
(* LICM on a loop, a loop with an exit in its middle, a loop in a loop, a  *)
(* loop in a loop that both leave from the same block, and a loop without  *)
(* a preheader.  Only q is a global variable.                              *)
(***************************************************************************)
EXTENDS LICM, MCPrograms

CONSTANTS E, F   \* model values: more blocks

LoopBlock == MCBlock \cup {E, F}
LoopGraph == {"loop", "while", "nest", "break", "skip"}

MCEdge == [loop  |-> {<<A, B>>, <<B, B>>, <<B, C>>},
           while |-> {<<A, B>>, <<B, C>>, <<C, B>>, <<B, D>>},
           nest  |-> {<<A, B>>, <<B, C>>, <<C, C>>, <<C, D>>, <<D, B>>, <<D, E>>},
           break |-> {<<A, B>>, <<B, C>>, <<C, D>>, <<C, F>>, <<D, C>>, <<D, E>>,
                      <<F, B>>},
           skip  |-> {<<A, B>>, <<A, C>>, <<B, B>>, <<B, C>>}]

Chain(seq) == {<<seq[i], seq[j]>> : <<i, j>> \in
                 {e \in (1..Len(seq)) \X (1..Len(seq)) : e[1] <= e[2]}}

Reflexive(S) == S \cup {<<b, b>> : b \in LoopBlock}

LoopDom == [loop  |-> Reflexive(Chain(<<A, B, C>>)),
            while |-> Reflexive(Chain(<<A, B, C>>) \cup Chain(<<A, B, D>>)),
            nest  |-> Reflexive(Chain(<<A, B, C, D, E>>)),
            break |-> Reflexive(Chain(<<A, B, C, D, E>>) \cup Chain(<<A, B, C, F>>)),
            skip  |-> Reflexive(Chain(<<A, B>>) \cup Chain(<<A, C>>))]

LoopReached == [loop |-> {A, B, C}, while |-> MCBlock, nest |-> LoopBlock \ {F},
                break |-> LoopBlock, skip |-> {A, B, C}]

MCLoops == [loop |-> {{B}}, while |-> {{B, C}}, nest |-> {{B, C, D}, {C}},
            break |-> {{B, C, D, F}, {C, D}}, skip |-> {{B}}]

LoopPaths == [loop  |-> {<<A, B, C>>, <<A, B, B, C>>},
              while |-> {<<A, B, D>>, <<A, B, C, B, D>>},
              nest  |-> {<<A, B, C, D, E>>, <<A, B, C, C, D, B, C, D, E>>},
              break |-> {<<A, B, C, D, E>>, <<A, B, C, F, B, C, D, C, D, E>>},
              skip  |-> {<<A, C>>, <<A, B, B, C>>}]

MCGlobal == {q}

\* p is q, another cell, or nowhere; a division by a may trap.
LoopEnvs ==
  {[leaf |-> (nil :> 0) @@ (zero :> 0) @@ (a :> n) @@ (p :> x) @@ (q :> 0),
    frame |-> MCFrame, mem |-> (0 :> 2) @@ (1 :> 3), clobbers |-> w]
     : n \in {0, 1}, x \in {0, 1, 3}, w \in BOOLEAN}

-----------------------------------------------------------------------------

BlockOf == [loop  |-> <<A, B, B, B, B, C>>,
            while |-> <<A, B, B, C, C, D>>,
            nest  |-> <<A, B, C, C, D, E>>,
            break |-> <<A, B, B, B, D, D>>,
            skip  |-> <<A, B, B, B, B, C>>]

FromOf == [loop |-> <<A, B>>, while |-> <<A, C>>, nest |-> <<A, D>>,
           break |-> <<A, F>>, skip |-> <<A, B>>]

Menu ==
  << Alloca \cup Sub({zero}, {a}),
     Sub({1}, {a}) \cup Phi({a}, {4}) \cup Load({q}) \cup Call({a}),
     Load({q, 1}) \cup Sub({2}, {a}) \cup VLoad({q}) \cup Gep({p}, {a}),
     Store({a}, {p, 1}) \cup Sub({2, 3}, {a}) \cup Div({2}, {a}) \cup RMW({q}, {a}),
     Load({p}) \cup Store({2}, {q}) \cup Call({3}) \cup Sub({4}, {2}),
     Term({5, a}, {a}) \cup Term({a}, {3}) \cup Sub({5}, {2}) >>

LoopPrograms ==
  Usable({Assemble(g, BlockOf[g], FromOf[g], <<c1, c2, c3, c4, c5, c6>>) :
            g \in LoopGraph, c1 \in Menu[1], c2 \in Menu[2], c3 \in Menu[3],
            c4 \in Menu[4], c5 \in Menu[5], c6 \in Menu[6]})
=============================================================================
