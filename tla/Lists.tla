-------------------------------- MODULE Lists -------------------------------
(***************************************************************************)
(* What the macros of LectureCode/Review/utlist.h promise whoever calls    *)
(* them: lists that are sequences of elements, an element in one list at   *)
(* most.  call is the macro that has returned and what it was given.       *)
(***************************************************************************)
EXTENDS SequencesExt

CONSTANTS List, Elt, NULL, Key

VARIABLES list, call

Init ==
  /\ list = [l \in List |-> <<>>]
  /\ call = <<"none", NULL, NULL, NULL>>

\* A macro that loops has begun.
Enter == call' = <<"none", NULL, NULL, NULL>> /\ UNCHANGED list

Unused(e) == \A l \in List : e \notin Range(list[l])

Becomes(l, s) == list' = [list EXCEPT ![l] = s]

PushFront(l, e) ==
  /\ call' = <<"prepend", l, NULL, e>>
  /\ Unused(e)
  /\ Becomes(l, <<e>> \o list[l])

PushBack(l, e) ==
  /\ call' = <<"append", l, NULL, e>>
  /\ Unused(e)
  /\ Becomes(l, Append(list[l], e))

\* Before o, or at the end when there is no o.
PrependElem(l, o, e) ==
  /\ call' = <<"prepend_elem", l, o, e>>
  /\ Unused(e)
  /\ \/ o = NULL /\ Becomes(l, Append(list[l], e))
     \/ \E i \in DOMAIN list[l] : o = list[l][i] /\ Becomes(l, InsertAt(list[l], i, e))

\* After o, or at the front when there is no o.
AppendElem(l, o, e) ==
  /\ call' = <<"append_elem", l, o, e>>
  /\ Unused(e)
  /\ \/ o = NULL /\ Becomes(l, <<e>> \o list[l])
     \/ \E i \in DOMAIN list[l] : o = list[l][i] /\ Becomes(l, InsertAt(list[l], i + 1, e))

Replace(l, o, e) ==
  /\ call' = <<"replace", l, o, e>>
  /\ Unused(e)
  /\ \E i \in DOMAIN list[l] : o = list[l][i] /\ Becomes(l, ReplaceAt(list[l], i, e))

Delete(l, o) ==
  /\ call' = <<"delete", l, o, NULL>>
  /\ \E i \in DOMAIN list[l] : o = list[l][i] /\ Becomes(l, RemoveAt(list[l], i))

Concat(l, m) ==
  /\ call' = <<"concat", l, m, NULL>>
  /\ l # m
  /\ list' = [list EXCEPT ![l] = @ \o list[m], ![m] = <<>>]

\* r is s in the order of key, elements with the same key as they were.
Sorted(s, key, r) ==
  /\ r \in SetToSeqs(Range(s))
  /\ \A i, j \in DOMAIN r : i < j =>
       \/ key[r[i]] < key[r[j]]
       \/ /\ key[r[i]] = key[r[j]]
          /\ \E n, m \in DOMAIN s : n < m /\ s[n] = r[i] /\ s[m] = r[j]

Sort(l, key) ==
  /\ call' = <<"sort", l, key, NULL>>
  /\ \E r \in SetToSeqs(Range(list[l])) : Sorted(list[l], key, r) /\ Becomes(l, r)

\* o is the first element whose key is 2, NULL when there is none.
Search(l, key, o) ==
  /\ call' = <<"search", l, key, o>>
  /\ UNCHANGED list
  /\ \/ o = NULL /\ \A i \in DOMAIN list[l] : key[list[l][i]] # 2
     \/ \E i \in DOMAIN list[l] :
          /\ o = list[l][i] /\ key[o] = 2
          /\ \A j \in 1..i - 1 : key[list[l][j]] # 2

Count(l) == call' = <<"count", l, Len(list[l]), NULL>> /\ UNCHANGED list

Next ==
  \/ Enter
  \/ \E l \in List :
       \/ \E e \in Elt : PushFront(l, e) \/ PushBack(l, e) \/ Delete(l, e)
       \/ \E o \in Elt \cup {NULL}, e \in Elt :
            PrependElem(l, o, e) \/ AppendElem(l, o, e) \/ Replace(l, o, e)
       \/ \E m \in List : Concat(l, m)
       \/ \E key \in [Elt -> Key] : Sort(l, key)
       \/ \E key \in [Elt -> {1, 2}], o \in Elt \cup {NULL} : Search(l, key, o)
       \/ Count(l)

Spec == Init /\ [][Next]_<<list, call>>
=============================================================================
