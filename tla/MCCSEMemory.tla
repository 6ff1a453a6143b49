---------------------------- MODULE MCCSEMemory -----------------------------
(***************************************************************************)
(* CSE on every mix of loads, stores, volatile accesses, calls and atomics *)
(* on two pointers: four of them in a row in one block, then a load.       *)
(***************************************************************************)
EXTENDS MCCSE

Access(i) ==
  Load({p, q}) \cup VLoad({p}) \cup VStore({a}, {p}) \cup RMW({p}, {a})
    \cup Call({a}) \cup Store({a} \cup 1..(i-1), {p}) \cup Store({a}, {q})

MemoryPrograms ==
  Usable({Assemble("block", [i \in Id |-> A], <<A, A>>,
                   <<c1, c2, c3, c4, <<"load", q, nil>>, t>>) :
            c1 \in Access(1), c2 \in Access(2), c3 \in Access(3),
            c4 \in Access(4),
            t \in {<<"term", 3, 4>>, <<"term", a, a>>}})
=============================================================================
