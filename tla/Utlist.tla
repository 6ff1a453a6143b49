------------------------------- MODULE Utlist -------------------------------
(***************************************************************************)
(* The list macros of LectureCode/Review/utlist.h: LL, the singly linked   *)
(* lists, DL, the doubly linked ones whose head's prev is the tail, and    *)
(* CDL, the circular ones.  An element is a pointer, and the memory is its *)
(* two fields.  A step is one use of one macro by a caller that links no   *)
(* element twice, asks a list for its own elements only, and frees what it *)
(* takes out, so that its fields mean nothing until they are written.      *)
(***************************************************************************)
EXTENDS Naturals

CONSTANTS
  List,    \* the caller's list heads
  Elt,     \* its elements
  NULL,
  Junk     \* what a field of an element not in use holds

VARIABLES
  kind,    \* the macros the caller uses: "ll", "dl", "cdl"
  head,    \* the head of each list
  next,
  prev,
  held,    \* the list each element is in, NULL when it is in none
  call     \* the macro that has returned and what it was given

fields == <<head, next, prev>>

utlist == <<kind, fields, held, call>>

Init ==
  /\ kind \in {"ll", "dl", "cdl"}
  /\ head = [l \in List |-> NULL]
  /\ next = [e \in Elt |-> Junk]
  /\ prev = [e \in Elt |-> Junk]
  /\ held = [e \in Elt |-> NULL]
  /\ call = <<"none", NULL, NULL, NULL>>

In(l) == {e \in Elt : held[e] = l}

SetHead(l, e) == head' = [head EXCEPT ![l] = e]

-----------------------------------------------------------------------------
(* Singly linked lists.                                                    *)

\* _tmp = head; while (_tmp->next && _tmp->next != e) _tmp = _tmp->next;
\* with e = NULL the last element.
Before(l, e) == CHOOSE x \in In(l) : next[x] = e

LLPrepend(l, e) ==
  /\ next' = [next EXCEPT ![e] = head[l]]
  /\ SetHead(l, e)
  /\ UNCHANGED prev

LLAppend(l, e) ==
  /\ IF head[l] = NULL
     THEN SetHead(l, e) /\ next' = [next EXCEPT ![e] = NULL]
     ELSE next' = [next EXCEPT ![e] = NULL, ![Before(l, NULL)] = e] /\ UNCHANGED head
  /\ UNCHANGED prev

LLConcat(l, m) ==
  /\ IF head[l] = NULL
     THEN head' = [head EXCEPT ![l] = head[m], ![m] = NULL] /\ UNCHANGED next
     ELSE next' = [next EXCEPT ![Before(l, NULL)] = head[m]] /\ SetHead(m, NULL)
  /\ UNCHANGED prev

\* Frees e after the macro has unlinked it.
Free(e, nexts, prevs) ==
  /\ next' = [nexts EXCEPT ![e] = Junk]
  /\ prev' = [prevs EXCEPT ![e] = Junk]

LLDelete(l, e) ==
  IF head[l] = e
  THEN SetHead(l, next[e]) /\ Free(e, next, prev)
  ELSE Free(e, [next EXCEPT ![Before(l, e)] = next[e]], prev) /\ UNCHANGED head

LLReplaceElem(l, o, e) ==
  IF head[l] = o
  THEN SetHead(l, e) /\ Free(o, [next EXCEPT ![e] = next[o]], prev)
  ELSE /\ Free(o, [next EXCEPT ![e] = next[o], ![Before(l, o)] = e], prev)
       /\ UNCHANGED head

LLPrependElem(l, o, e) ==
  /\ IF head[l] = o
     THEN SetHead(l, e) /\ next' = [next EXCEPT ![e] = o]
     ELSE next' = [next EXCEPT ![e] = o, ![Before(l, o)] = e] /\ UNCHANGED head
  /\ UNCHANGED prev

LLAppendElem(l, o, e) ==
  /\ next' = [next EXCEPT ![e] = next[o], ![o] = e]
  /\ UNCHANGED <<head, prev>>

-----------------------------------------------------------------------------
(* Doubly linked lists: head->prev is the tail, tail->next is NULL.        *)

DLPrepend(l, e) ==
  /\ next' = [next EXCEPT ![e] = head[l]]
  /\ prev' = IF head[l] = NULL
             THEN [prev EXCEPT ![e] = e]
             ELSE [prev EXCEPT ![e] = prev[head[l]], ![head[l]] = e]
  /\ SetHead(l, e)

DLAppend(l, e) ==
  IF head[l] = NULL
  THEN /\ SetHead(l, e)
       /\ prev' = [prev EXCEPT ![e] = e]
       /\ next' = [next EXCEPT ![e] = NULL]
  ELSE /\ prev' = [prev EXCEPT ![e] = prev[head[l]], ![head[l]] = e]
       /\ next' = [next EXCEPT ![prev[head[l]]] = e, ![e] = NULL]
       /\ UNCHANGED head

DLConcat(l, m) ==
  IF head[m] # NULL /\ head[l] # NULL
  THEN /\ prev' = [prev EXCEPT ![head[m]] = prev[head[l]],
                               ![head[l]] = prev[head[m]]]
       /\ next' = [next EXCEPT ![prev[head[l]]] = head[m]]
       /\ SetHead(m, NULL)
  ELSE /\ head' = [head EXCEPT ![l] = IF head[l] = NULL THEN head[m] ELSE @,
                               ![m] = NULL]
       /\ UNCHANGED <<next, prev>>

\* A slip: the tail goes and head->prev stays.
DLDeleteKeepingTail(l, e) ==
  IF prev[e] = e
  THEN SetHead(l, NULL) /\ Free(e, next, prev)
  ELSE IF head[l] = e
  THEN SetHead(l, next[e]) /\ Free(e, next, [prev EXCEPT ![next[e]] = prev[e]])
  ELSE /\ Free(e, [next EXCEPT ![prev[e]] = next[e]],
               IF next[e] = NULL THEN prev ELSE [prev EXCEPT ![next[e]] = prev[e]])
       /\ UNCHANGED head

\* The element after e, the head after the last.
Successor(l, e) == IF next[e] = NULL THEN head[l] ELSE next[e]

DLDelete(l, e) ==
  IF prev[e] = e
  THEN SetHead(l, NULL) /\ Free(e, next, prev)
  ELSE IF head[l] = e
  THEN SetHead(l, next[e]) /\ Free(e, next, [prev EXCEPT ![next[e]] = prev[e]])
  ELSE /\ Free(e, [next EXCEPT ![prev[e]] = next[e]],
               [prev EXCEPT ![Successor(l, e)] = prev[e]])
       /\ UNCHANGED head

DLReplaceElem(l, o, e) ==
  IF head[l] = o
  THEN /\ SetHead(l, e)
       /\ Free(o, [next EXCEPT ![e] = next[o]],
               IF next[o] = NULL
               THEN [prev EXCEPT ![e] = e]
               ELSE [prev EXCEPT ![e] = prev[o], ![next[o]] = e])
  ELSE /\ Free(o, [next EXCEPT ![e] = next[o], ![prev[o]] = e],
               [prev EXCEPT ![e] = prev[o], ![Successor(l, o)] = e])
       /\ UNCHANGED head

DLPrependElem(l, o, e) ==
  /\ prev' = [prev EXCEPT ![e] = prev[o], ![o] = e]
  /\ IF head[l] = o
     THEN SetHead(l, e) /\ next' = [next EXCEPT ![e] = o]
     ELSE next' = [next EXCEPT ![e] = o, ![prev[o]] = e] /\ UNCHANGED head

DLAppendElem(l, o, e) ==
  /\ next' = [next EXCEPT ![e] = next[o], ![o] = e]
  /\ prev' = [prev EXCEPT ![e] = o, ![Successor(l, o)] = e]
  /\ UNCHANGED head

-----------------------------------------------------------------------------
(* Circular lists.                                                         *)

\* The four assignments with which both macros put e between tail and head.
Between(e, before, after) ==
  /\ next' = [next EXCEPT ![e] = after, ![before] = e]
  /\ prev' = [prev EXCEPT ![e] = before, ![after] = e]

Alone(l, e) ==
  /\ next' = [next EXCEPT ![e] = e]
  /\ prev' = [prev EXCEPT ![e] = e]
  /\ SetHead(l, e)

CDLAppend(l, e) ==
  IF head[l] = NULL THEN Alone(l, e)
                    ELSE Between(e, prev[head[l]], head[l]) /\ UNCHANGED head

CDLPrepend(l, e) ==
  IF head[l] = NULL THEN Alone(l, e)
                    ELSE Between(e, prev[head[l]], head[l]) /\ SetHead(l, e)

CDLDelete(l, e) ==
  IF head[l] = e /\ next[e] = e
  THEN SetHead(l, NULL) /\ Free(e, next, prev)
  ELSE /\ Free(e, [next EXCEPT ![prev[e]] = next[e]],
               [prev EXCEPT ![next[e]] = prev[e]])
       /\ SetHead(l, IF head[l] = e THEN next[e] ELSE head[l])

CDLReplaceElem(l, o, e) ==
  IF next[o] = o
  THEN /\ Free(o, [next EXCEPT ![e] = e], [prev EXCEPT ![e] = e])
       /\ SetHead(l, e)
  ELSE /\ Free(o, [next EXCEPT ![e] = next[o], ![prev[o]] = e],
               [prev EXCEPT ![e] = prev[o], ![next[o]] = e])
       /\ SetHead(l, IF head[l] = o THEN e ELSE head[l])

CDLPrependElem(l, o, e) ==
  /\ Between(e, prev[o], o)
  /\ SetHead(l, IF head[l] = o THEN e ELSE head[l])

CDLAppendElem(l, o, e) == Between(e, o, next[o]) /\ UNCHANGED head

-----------------------------------------------------------------------------
(* What the caller does.                                                   *)

Calls(name, l, o, e) == call' = <<name, l, o, e>> /\ UNCHANGED kind

Puts(l, e) == held[e] = NULL /\ held' = [held EXCEPT ![e] = l]

PrependTo(l, e) ==
  \/ kind = "ll" /\ LLPrepend(l, e)
  \/ kind = "dl" /\ DLPrepend(l, e)
  \/ kind = "cdl" /\ CDLPrepend(l, e)

AppendTo(l, e) ==
  \/ kind = "ll" /\ LLAppend(l, e)
  \/ kind = "dl" /\ DLAppend(l, e)
  \/ kind = "cdl" /\ CDLAppend(l, e)

CallPrepend(l, e) == Puts(l, e) /\ PrependTo(l, e) /\ Calls("prepend", l, NULL, e)

CallAppend(l, e) == Puts(l, e) /\ AppendTo(l, e) /\ Calls("append", l, NULL, e)

CallPrependElem(l, o, e) ==
  /\ Puts(l, e)
  /\ \/ o = NULL /\ AppendTo(l, e)
     \/ /\ o \in In(l)
        /\ \/ kind = "ll" /\ LLPrependElem(l, o, e)
           \/ kind = "dl" /\ DLPrependElem(l, o, e)
           \/ kind = "cdl" /\ CDLPrependElem(l, o, e)
  /\ Calls("prepend_elem", l, o, e)

CallAppendElem(l, o, e) ==
  /\ Puts(l, e)
  /\ \/ o = NULL /\ PrependTo(l, e)
     \/ /\ o \in In(l)
        /\ \/ kind = "ll" /\ LLAppendElem(l, o, e)
           \/ kind = "dl" /\ DLAppendElem(l, o, e)
           \/ kind = "cdl" /\ CDLAppendElem(l, o, e)
  /\ Calls("append_elem", l, o, e)

CallReplaceElem(l, o, e) ==
  /\ o \in In(l)
  /\ held[e] = NULL
  /\ held' = [held EXCEPT ![o] = NULL, ![e] = l]
  /\ \/ kind = "ll" /\ LLReplaceElem(l, o, e)
     \/ kind = "dl" /\ DLReplaceElem(l, o, e)
     \/ kind = "cdl" /\ CDLReplaceElem(l, o, e)
  /\ Calls("replace", l, o, e)

Unlink(l, e) ==
  /\ held' = [held EXCEPT ![e] = NULL]
  /\ \/ kind = "ll" /\ LLDelete(l, e)
     \/ kind = "dl" /\ DLDelete(l, e)
     \/ kind = "cdl" /\ CDLDelete(l, e)

CallDelete(l, e) == e \in In(l) /\ Unlink(l, e) /\ Calls("delete", l, e, NULL)

\* The caller forgets its second head.
CallConcat(l, m) ==
  /\ l # m
  /\ held' = [e \in Elt |-> IF held[e] = m THEN l ELSE held[e]]
  /\ \/ kind = "ll" /\ LLConcat(l, m)
     \/ kind = "dl" /\ DLConcat(l, m)
  /\ Calls("concat", l, m, NULL)

Next ==
  \E l \in List :
    \/ \E e \in Elt : CallPrepend(l, e) \/ CallAppend(l, e) \/ CallDelete(l, e)
    \/ \E o \in Elt \cup {NULL}, e \in Elt :
         CallPrependElem(l, o, e) \/ CallAppendElem(l, o, e)
    \/ \E o, e \in Elt : CallReplaceElem(l, o, e)
    \/ \E m \in List : CallConcat(l, m)

Spec == Init /\ [][Next]_utlist

-----------------------------------------------------------------------------

Macro == {"none", "prepend", "append", "prepend_elem", "append_elem",
          "replace", "delete", "concat", "sort", "search", "count"}

Pointer == Elt \cup {NULL, Junk}

\* TYPE: what the six variables range over.
TypeOK ==
  /\ kind \in {"ll", "dl", "cdl"}
  /\ head \in [List -> Elt \cup {NULL}]
  /\ next \in [Elt -> Pointer]
  /\ prev \in [Elt -> Pointer]
  /\ held \in [Elt -> List \cup {NULL}]
  /\ call[1] \in Macro /\ call[2] \in List \cup {NULL} /\ call[4] \in Elt \cup {NULL}

\* i and j are neighbours, each by the field of the other.
Adjacent(i, j) == held[j] = held[i] /\ next[i] = j /\ prev[j] = i

\* After any calls a field of a linked element leads to an element of its
\* own list, never to a freed one, prev undoes next, and in a DL list the tail
\* is found through the head (DL_*, CDL_*).
Linked ==
  /\ \A l \in List : head[l] # NULL => head[l] \in In(l)
  /\ \A e \in Elt : held[e] # NULL =>
       LET first == head[held[e]] IN
       /\ kind = "cdl" => Adjacent(e, next[e]) /\ Adjacent(prev[e], e)
       /\ kind = "dl" =>
            /\ next[e] # NULL => Adjacent(e, next[e]) /\ next[e] # first
            /\ IF e = first
               THEN held[prev[e]] = held[e] /\ next[prev[e]] = NULL
               ELSE Adjacent(prev[e], e)

-----------------------------------------------------------------------------

ASSUME ListAssumption ==
  /\ NULL \notin List \cup Elt
  /\ Junk \notin Elt \cup {NULL}
=============================================================================
