------------------------------- MODULE UtLoops ------------------------------
(***************************************************************************)
(* The macros of utlist.h that are loops: the three SORTs, a bottom-up     *)
(* merge sort that relinks the list it is reading, the three               *)
(* FOREACH_SAFEs, whose body may delete the element it is given, and the   *)
(* SEARCHes and COUNTs, which are FOREACHs.  A step is one turn of a loop. *)
(***************************************************************************)
EXTENDS Utlist, Integers, Sequences, FiniteSets

CONSTANT Key  \* numbers in the order in which cmp may put elements

VARIABLES
  pc,       \* "idle"; "pass", "merge", "take" in a SORT; "walk" in a
            \* FOREACH_SAFE; "search", "count"
  own,      \* the list the loop is on
  key,      \* what cmp compares
  ls,       \* the _ls_ variables of SORT
  el,       \* el of a FOREACH, out of SEARCH
  last,     \* tmp1 of CDL_FOREACH_SAFE
  visited,  \* the elements its body has been given
  before    \* the list as it was when the loop began

locals == <<own, key, ls, el, last, visited, before>>

vars == <<utlist, pc, locals>>

\* The element after x for a loop that began at first.
After(x, first) == IF kind = "cdl" /\ next[x] = first THEN NULL ELSE next[x]

\* The elements of a list in the order of their next fields.
Contents(l) ==
  LET at[n \in 1..Cardinality(Elt)] ==
        IF n = 1 THEN head[l]
        ELSE IF at[n - 1] \in Elt THEN After(at[n - 1], head[l]) ELSE NULL
      size == Cardinality({n \in DOMAIN at : at[n] \in Elt})
  IN  [n \in 1..size |-> at[n]]

Idle == [p |-> NULL, q |-> NULL, tail |-> NULL, oldhead |-> NULL,
         insize |-> 0, nmerges |-> 0, psize |-> 0, qsize |-> 0]

LoopsInit ==
  /\ Init
  /\ pc = "idle"
  /\ own = NULL
  /\ key = [e \in Elt |-> 1]
  /\ ls = Idle
  /\ el = NULL
  /\ last = NULL
  /\ visited = <<>>
  /\ before = <<>>

Reset ==
  /\ pc' = "idle"
  /\ own' = NULL
  /\ key' = [e \in Elt |-> 1]
  /\ ls' = Idle
  /\ el' = NULL
  /\ last' = NULL
  /\ visited' = <<>>
  /\ before' = <<>>

-----------------------------------------------------------------------------
(* LL_SORT2, DL_SORT2, CDL_SORT2.                                          *)

SortEmpty(l) ==
  /\ pc = "idle"
  /\ head[l] = NULL
  /\ Calls("sort", l, key, NULL)
  /\ UNCHANGED <<fields, held, pc, locals>>

StartSort(l) ==
  /\ pc = "idle"
  /\ head[l] # NULL
  /\ pc' = "pass"
  /\ own' = l
  /\ \E k \in [In(l) -> Key] :
       key' = [e \in Elt |-> IF e \in In(l) THEN k[e] ELSE 1]
  /\ ls' = [Idle EXCEPT !.insize = 1]
  /\ before' = Contents(l)
  /\ Calls("none", NULL, NULL, NULL)
  /\ UNCHANGED <<fields, held, el, last, visited>>

\* while (_ls_looping)
StartPass ==
  /\ pc = "pass"
  /\ pc' = "merge"
  /\ ls' = [ls EXCEPT !.p = head[own], !.oldhead = head[own],
                      !.tail = NULL, !.nmerges = 0]
  /\ SetHead(own, NULL)
  /\ UNCHANGED <<kind, next, prev, held, call, own, key, el, last, visited, before>>

\* while (_ls_p): q goes insize elements ahead of p, or to the end.
StartMerge ==
  /\ pc = "merge"
  /\ ls.p # NULL
  /\ pc' = "take"
  /\ LET at[n \in 0..ls.insize] ==
           IF n = 0 THEN ls.p
           ELSE IF at[n - 1] = NULL THEN NULL ELSE After(at[n - 1], ls.oldhead)
     IN  ls' = [ls EXCEPT !.nmerges = @ + 1,
                          !.q = at[ls.insize],
                          !.psize = Cardinality({n \in 1..ls.insize : at[n - 1] # NULL}),
                          !.qsize = ls.insize]
  /\ UNCHANGED <<utlist, own, key, el, last, visited, before>>

MoreToMerge == ls.psize > 0 \/ (ls.qsize > 0 /\ ls.q # NULL)

\* A slip: of two equal elements the later one first.
FromPUnstable ==
  /\ ls.psize > 0
  /\ ls.qsize = 0 \/ ls.q = NULL \/ key[ls.p] < key[ls.q]

FromP ==
  /\ ls.psize > 0
  /\ ls.qsize = 0 \/ ls.q = NULL \/ key[ls.p] <= key[ls.q]

\* The smaller of p and q, which moves on, goes behind the tail.
Take ==
  /\ pc = "take"
  /\ MoreToMerge
  /\ LET e == IF FromP THEN ls.p ELSE ls.q
     IN  /\ ls' = IF FromP
                  THEN [ls EXCEPT !.p = After(e, ls.oldhead), !.psize = @ - 1, !.tail = e]
                  ELSE [ls EXCEPT !.q = After(e, ls.oldhead), !.qsize = @ - 1, !.tail = e]
         /\ IF ls.tail = NULL
            THEN SetHead(own, e) /\ UNCHANGED next
            ELSE next' = [next EXCEPT ![ls.tail] = e] /\ UNCHANGED head
         /\ prev' = IF kind = "ll" THEN prev ELSE [prev EXCEPT ![e] = ls.tail]
  /\ UNCHANGED <<kind, held, call, pc, own, key, el, last, visited, before>>

EndMerge ==
  /\ pc = "take"
  /\ ~MoreToMerge
  /\ pc' = "merge"
  /\ ls' = [ls EXCEPT !.p = ls.q]
  /\ UNCHANGED <<utlist, own, key, el, last, visited, before>>

CloseList ==
  /\ prev' = IF kind = "ll" THEN prev ELSE [prev EXCEPT ![head[own]] = ls.tail]
  /\ next' = [next EXCEPT ![ls.tail] = IF kind = "cdl" THEN head[own] ELSE NULL]

\* if (_ls_nmerges <= 1)
LastPass == ls.nmerges <= 1

\* A slip: the next pass merges runs of the same size.
AsWide == ls.insize

Wider == 2 * ls.insize

EndPass ==
  /\ pc = "merge"
  /\ ls.p = NULL
  /\ CloseList
  /\ IF LastPass
     THEN Reset /\ Calls("sort", own, key, NULL)
     ELSE /\ pc' = "pass"
          /\ ls' = [ls EXCEPT !.insize = Wider]
          /\ UNCHANGED <<kind, call, own, key, el, last, visited, before>>
  /\ UNCHANGED <<head, held>>

-----------------------------------------------------------------------------
(* LL_FOREACH_SAFE2, DL_FOREACH_SAFE2, CDL_FOREACH_SAFE2.                  *)

StartWalk(l) ==
  /\ pc = "idle"
  /\ pc' = "walk"
  /\ own' = l
  /\ el' = head[l]
  /\ last' = IF kind = "cdl" /\ head[l] # NULL THEN prev[head[l]] ELSE NULL
  /\ before' = Contents(l)
  /\ Calls("none", NULL, NULL, NULL)
  /\ UNCHANGED <<fields, held, key, ls, visited>>

\* A slip: the next element is read when the body has been executed.
OnwardsAfterBody ==
  el' = IF kind = "cdl" /\ el = last THEN NULL ELSE next'[el]

\* The next element was read before the body was executed.
Onwards ==
  el' = IF kind = "cdl" /\ el = last THEN NULL ELSE next[el]

Visit ==
  /\ pc = "walk"
  /\ el \in Elt
  /\ visited' = Append(visited, el)
  /\ UNCHANGED <<pc, own, key, ls, last, before>>

\* The body leaves the list as it is ...
VisitOnly == Visit /\ UNCHANGED utlist /\ Onwards

\* ... or deletes its element and frees it.
VisitAndDelete ==
  /\ Visit
  /\ Unlink(own, el)
  /\ Onwards
  /\ Calls("delete", own, el, NULL)

EndWalk == pc = "walk" /\ el = NULL /\ Reset /\ UNCHANGED utlist

-----------------------------------------------------------------------------
(* *_FOREACH2 in *_SEARCH2, *_SEARCH_SCALAR2 and *_COUNT2: what is looked  *)
(* for has key 2, the counter is the number of elements gone through.      *)

StartFor(l) ==
  /\ pc = "idle"
  /\ own' = l
  /\ el' = head[l]
  /\ \/ pc' = "search" /\ \E wanted \in SUBSET In(l) :
                               key' = [e \in Elt |-> IF e \in wanted THEN 2 ELSE 1]
     \/ pc' = "count" /\ UNCHANGED key
  /\ Calls("none", NULL, NULL, NULL)
  /\ UNCHANGED <<fields, held, ls, last, visited, before>>

ForOnwards ==
  /\ pc \in {"search", "count"}
  /\ el # NULL
  /\ key[el] = 1
  /\ el' = After(el, head[own])
  /\ visited' = Append(visited, el)
  /\ UNCHANGED <<utlist, pc, own, key, ls, last, before>>

EndSearch ==
  /\ pc = "search"
  /\ el # NULL => key[el] = 2
  /\ Reset
  /\ Calls("search", own, key, el)
  /\ UNCHANGED <<fields, held>>

EndCount ==
  /\ pc = "count"
  /\ el = NULL
  /\ Reset
  /\ Calls("count", own, Len(visited), NULL)
  /\ UNCHANGED <<fields, held>>

-----------------------------------------------------------------------------

Call == pc = "idle" /\ Next /\ UNCHANGED <<pc, locals>>

Turn ==
  \/ StartPass \/ StartMerge \/ Take \/ EndMerge \/ EndPass
  \/ VisitOnly \/ VisitAndDelete \/ EndWalk
  \/ ForOnwards \/ EndSearch \/ EndCount

LoopsNext ==
  \/ Call
  \/ \E l \in List : SortEmpty(l) \/ StartSort(l) \/ StartWalk(l) \/ StartFor(l)
  \/ Turn

\* A loop that has begun goes on; nobody has to call anything.
LoopsSpec == LoopsInit /\ [][LoopsNext]_vars /\ WF_vars(Turn)

-----------------------------------------------------------------------------

Sorting == pc \in {"pass", "merge", "take"}

\* Between sorts the lists are well linked: a sort that has rewritten every
\* next of the list, and the tail's and the head's fields at the end of each
\* pass, leaves prev the inverse of next again (DL_SORT2, CDL_SORT2).  During
\* one, too, every field holds a pointer.
LinkedWhenUsed == TypeOK /\ (~Sorting => Linked)

\* FOREACH_SAFE gives its body each element the list had when it began, once
\* and in order, whichever of them the body deletes ("this version is safe
\* for deleting the elements during iteration"), and the circular one ends
\* although the head it began at may be gone.
WalkComplete ==
  pc = "walk" =>
    before = visited \o (IF el = NULL THEN <<>>
                         ELSE SubSeq(before, Len(visited) + 1, Len(before)))
      /\ (el # NULL => Len(visited) < Len(before) /\ el = before[Len(visited) + 1])

Abstract == INSTANCE Lists WITH
  list <- [l \in List |-> IF Sorting /\ l = own THEN before ELSE Contents(l)]

\* Every macro does to the sequence what its name says and nothing to the
\* other list; SORT is a stable sort, SEARCH finds the first element that
\* compares equal, COUNT the length, and the loops show no state of theirs to
\* whoever called them.
RefinesLists == Abstract!Spec

\* Each loop ends: the sort merges half as many runs in each pass, and the
\* walks of a circular list come to its last element.
LoopsEnd == pc # "idle" ~> pc = "idle"

-----------------------------------------------------------------------------

\* Memory holds so many elements and no more.
ASSUME EltAssumption == IsFiniteSet(Elt)

\* cmp may tell apart any number of classes; the searches need two.
ASSUME KeyAssumption == Key \subseteq Int /\ {1, 2} \subseteq Key
=============================================================================
