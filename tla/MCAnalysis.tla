----------------------------- MODULE MCAnalysis -----------------------------
(***************************************************************************)
(* A function that can be a diamond, one or two loops, have a double edge, *)
(* blocks no path reaches or a loop without end, and one that can be a     *)
(* loop or not.                                                            *)
(***************************************************************************)
EXTENDS Analysis

CONSTANTS F, G   \* model values

MCFunction == {F, G}

MCShapes ==
  [f \in MCFunction |->
    IF f = F
    THEN {<< <<2, 3>>, <<4>>,    <<4>>,    <<>> >>,
          << <<2, 3>>, <<4, 2>>, <<4, 3>>, <<>> >>,
          << <<2>>,    <<3, 4>>, <<3, 2>>, <<>> >>,
          << <<4>>,    <<3, 4>>, <<3, 2>>, <<>> >>,
          << <<2>>,    <<3, 3>>, <<3, 2>>, <<>> >>}
    ELSE {5 :> <<6>> @@ 6 :> <<6, 6>>, 5 :> <<6>> @@ 6 :> <<>>}]
=============================================================================
