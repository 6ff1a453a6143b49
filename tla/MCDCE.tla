------------------------------- MODULE MCDCE --------------------------------
(***************************************************************************)
(* DCE on chains, trees and phi cycles of removable instructions around a  *)
(* few that must stay.                                                     *)
(***************************************************************************)
EXTENDS DCE, MCPrograms

BlockOf == [block |-> <<A, A, A, A, A, A>>, loop |-> <<A, A, B, B, B, C>>]

Menu ==
  << Alloca \cup Load({p}) \cup VLoad({p}) \cup RMW({p}, {a}),
     Sub({1}, {a, 1}) \cup Load({1}),
     Sub({1, 2}, {a}) \cup Sub({2}, {2}) \cup Phi({2, a}, {4}),
     Sub({2, 3}, {1, 3}) \cup Call({3}) \cup Fcmp({3}, {2}),
     Sub({2, 4}, {4}) \cup Sub({3}, {1}) \cup Store({2, 4}, {p}) \cup VLoad({p}),
     Term({a}, {zero, 3}) \cup Term({5}, {3}) >>

DCEPrograms ==
  Usable({Assemble(g, BlockOf[g], <<A, B>>, <<c1, c2, c3, c4, c5, c6>>) :
            g \in {"block", "loop"}, c1 \in Menu[1], c2 \in Menu[2],
            c3 \in Menu[3], c4 \in Menu[4], c5 \in Menu[5], c6 \in Menu[6]})
=============================================================================
