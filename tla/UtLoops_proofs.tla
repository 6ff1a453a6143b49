--------------------------- MODULE UtLoops_proofs ---------------------------
(***************************************************************************)
(* Theorems of Utlist and UtLoops, proved by TLAPS for any number of lists *)
(* and elements.                                                           *)
(***************************************************************************)
EXTENDS UtLoops, FiniteSetTheorems, NaturalsInduction, SequenceTheorems, TLAPS

-----------------------------------------------------------------------------
(* Sequences of elements, and the fields that link one.                    *)

Members(s) == {s[i] : i \in 1..Len(s)}

Distinct(s) == \A i, j \in 1..Len(s) : s[i] = s[j] => i = j

\* nx leads from each element of s to the one after it, in the way of kind k.
Nexts(k, s, nx) ==
  \A i \in 1..Len(s) :
    nx[s[i]] = IF i < Len(s) THEN s[i + 1] ELSE IF k = "cdl" THEN s[1] ELSE NULL

\* pv leads from each to the one before it, and from the first to the last.
Prevs(s, pv) ==
  \A i \in 1..Len(s) : pv[s[i]] = IF i > 1 THEN s[i - 1] ELSE s[Len(s)]

\* h, nx and pv make s a list of kind k.
Chain(k, s, h, nx, pv) ==
  /\ s \in Seq(Elt)
  /\ Distinct(s)
  /\ h = IF Len(s) = 0 THEN NULL ELSE s[1]
  /\ Nexts(k, s, nx)
  /\ k # "ll" => Prevs(s, pv)

Inserted(s, n, e) ==
  [i \in 1..Len(s) + 1 |-> IF i < n THEN s[i] ELSE IF i = n THEN e ELSE s[i - 1]]

Removed(s, n) ==
  [i \in 1..Len(s) - 1 |-> IF i < n THEN s[i] ELSE s[i + 1]]

Replaced(s, n, e) == [i \in 1..Len(s) |-> IF i = n THEN e ELSE s[i]]

LEMMA FunctionIsSeq ==
  ASSUME NEW S, NEW n \in Nat, NEW f \in [1..n -> S]
  PROVE  f \in Seq(S) /\ Len(f) = n
  OBVIOUS

LEMMA InsertedFacts ==
  ASSUME NEW s \in Seq(Elt), NEW n \in 1..Len(s) + 1, NEW e \in Elt
  PROVE  /\ Inserted(s, n, e) \in Seq(Elt)
         /\ Len(Inserted(s, n, e)) = Len(s) + 1
         /\ Members(Inserted(s, n, e)) = Members(s) \cup {e}
         /\ Distinct(s) /\ e \notin Members(s) => Distinct(Inserted(s, n, e))
<1> DEFINE t == Inserted(s, n, e)
<1>1. t \in [1..Len(s) + 1 -> Elt]
  BY DEF Inserted
<1>2. t \in Seq(Elt) /\ Len(t) = Len(s) + 1
  BY <1>1, FunctionIsSeq
<1>3. \A i \in 1..Len(s) + 1 : t[i] = IF i < n THEN s[i] ELSE IF i = n THEN e ELSE s[i - 1]
  BY DEF Inserted
<1> HIDE DEF t
<1>4. \A x \in Members(t) : x \in Members(s) \cup {e}
  BY <1>2, <1>3 DEF Members
<1>5. \A i \in 1..Len(s) : s[i] \in Members(t)
  <2> TAKE i \in 1..Len(s)
  <2>1. CASE i < n
    BY <2>1, <1>2, <1>3 DEF Members
  <2>2. CASE i >= n
    <3>1. i + 1 \in 1..Len(t) /\ t[i + 1] = s[i]
      BY <2>2, <1>2, <1>3
    <3> QED BY <3>1 DEF Members
  <2> QED BY <2>1, <2>2
<1>6. e \in Members(t)
  BY <1>2, <1>3 DEF Members
<1>7. Members(t) = Members(s) \cup {e}
  <2>1. \A x \in Members(s) : x \in Members(t)
    BY <1>5 DEF Members
  <2> QED BY <1>4, <1>6, <2>1
<1>8. ASSUME Distinct(s), e \notin Members(s)
      PROVE  Distinct(t)
  <2>1. \A i \in 1..Len(s) : s[i] # e
    BY <1>8 DEF Members
  <2>2. ASSUME NEW i \in 1..Len(t), NEW j \in 1..Len(t), t[i] = t[j]
        PROVE  i = j
    <3>1. CASE i = n
      BY <3>1, <2>1, <2>2, <1>2, <1>3
    <3>2. CASE j = n
      BY <3>2, <2>1, <2>2, <1>2, <1>3
    <3>3. CASE i # n /\ j # n
      <4> DEFINE from(x) == IF x < n THEN x ELSE x - 1
      <4>1. from(i) \in 1..Len(s) /\ from(j) \in 1..Len(s)
        BY <3>3, <1>2
      <4>2. t[i] = s[from(i)] /\ t[j] = s[from(j)]
        BY <3>3, <1>2, <1>3
      <4>3. from(i) = from(j)
        BY <4>1, <4>2, <2>2, <1>8 DEF Distinct
      <4> QED BY <4>3, <3>3, <1>2
    <3> QED BY <3>1, <3>2, <3>3
  <2> QED BY <2>2 DEF Distinct
<1> QED BY <1>2, <1>7, <1>8 DEF t

LEMMA RemovedFacts ==
  ASSUME NEW s \in Seq(Elt), NEW n \in 1..Len(s), Distinct(s)
  PROVE  /\ Removed(s, n) \in Seq(Elt)
         /\ Len(Removed(s, n)) = Len(s) - 1
         /\ Members(Removed(s, n)) = Members(s) \ {s[n]}
         /\ Distinct(Removed(s, n))
<1> DEFINE t == Removed(s, n)
<1>1. t \in [1..Len(s) - 1 -> Elt]
  BY DEF Removed
<1>2. t \in Seq(Elt) /\ Len(t) = Len(s) - 1
  BY <1>1, FunctionIsSeq
<1>3. \A i \in 1..Len(s) - 1 : t[i] = IF i < n THEN s[i] ELSE s[i + 1]
  BY DEF Removed
<1> HIDE DEF t
<1>4. \A x \in Members(t) : x \in Members(s) \ {s[n]}
  BY <1>2, <1>3 DEF Members, Distinct
<1>5. \A i \in 1..Len(s) : s[i] = s[n] \/ s[i] \in Members(t)
  <2> TAKE i \in 1..Len(s)
  <2>1. CASE i < n
    BY <2>1, <1>2, <1>3 DEF Members
  <2>2. CASE i > n
    <3>1. i - 1 \in 1..Len(t) /\ t[i - 1] = s[i]
      BY <2>2, <1>2, <1>3
    <3> QED BY <3>1 DEF Members
  <2> QED BY <2>1, <2>2
<1>7. Members(t) = Members(s) \ {s[n]}
  <2>1. \A x \in Members(s) : x = s[n] \/ x \in Members(t)
    BY <1>5 DEF Members
  <2> QED BY <1>4, <2>1
<1>8. Distinct(t)
  BY <1>2, <1>3 DEF Distinct
<1> QED BY <1>2, <1>7, <1>8 DEF t

LEMMA ReplacedFacts ==
  ASSUME NEW s \in Seq(Elt), NEW n \in 1..Len(s), NEW e \in Elt, Distinct(s)
  PROVE  /\ Replaced(s, n, e) \in Seq(Elt)
         /\ Len(Replaced(s, n, e)) = Len(s)
         /\ Members(Replaced(s, n, e)) = (Members(s) \ {s[n]}) \cup {e}
         /\ e \notin Members(s) => Distinct(Replaced(s, n, e))
<1> DEFINE t == Replaced(s, n, e)
<1>1. t \in [1..Len(s) -> Elt]
  BY DEF Replaced
<1>2. t \in Seq(Elt) /\ Len(t) = Len(s)
  BY <1>1, FunctionIsSeq
<1>3. \A i \in 1..Len(s) : t[i] = IF i = n THEN e ELSE s[i]
  BY DEF Replaced
<1> HIDE DEF t
<1>4. \A x \in Members(t) : x \in (Members(s) \ {s[n]}) \cup {e}
  BY <1>2, <1>3 DEF Members, Distinct
<1>5. \A i \in 1..Len(s) : s[i] = s[n] \/ s[i] \in Members(t)
  BY <1>2, <1>3 DEF Members
<1>6. e \in Members(t)
  BY <1>2, <1>3 DEF Members
<1>7. Members(t) = (Members(s) \ {s[n]}) \cup {e}
  <2>1. \A x \in Members(s) : x = s[n] \/ x \in Members(t)
    BY <1>5 DEF Members
  <2> QED BY <1>4, <1>6, <2>1
<1>8. ASSUME e \notin Members(s)
      PROVE  Distinct(t)
  <2>1. \A i \in 1..Len(s) : s[i] # e
    BY <1>8 DEF Members
  <2> QED BY <2>1, <1>2, <1>3 DEF Distinct
<1> QED BY <1>2, <1>7, <1>8 DEF t

-----------------------------------------------------------------------------
(* What a macro has to write so that the fields link the sequence that it  *)
(* is to make.                                                             *)

InsertsNext(k, s, n, e, nx, nx2) ==
  /\ nx2[e] = IF n <= Len(s) THEN s[n]
              ELSE IF k # "cdl" THEN NULL ELSE IF Len(s) > 0 THEN s[1] ELSE e
  /\ n > 1 => nx2[s[n - 1]] = e
  /\ n = 1 /\ k = "cdl" /\ Len(s) > 0 => nx2[s[Len(s)]] = e
  /\ \A i \in 1..Len(s) : \/ i = n - 1
                          \/ n = 1 /\ k = "cdl" /\ i = Len(s)
                          \/ nx2[s[i]] = nx[s[i]]

LEMMA InsertNexts ==
  ASSUME NEW k, NEW s \in Seq(Elt), NEW n \in 1..Len(s) + 1, NEW e \in Elt,
         NEW nx, NEW nx2, Nexts(k, s, nx),
         InsertsNext(k, s, n, e, nx, nx2)
  PROVE  Nexts(k, Inserted(s, n, e), nx2)
<1> DEFINE t == Inserted(s, n, e)
<1>n. \A i \in 1..Len(s) :
        nx[s[i]] = IF i < Len(s) THEN s[i + 1] ELSE IF k = "cdl" THEN s[1] ELSE NULL
  BY DEF Nexts
<1>q. Len(s) \in Nat /\ n \in Nat
  OBVIOUS
<1>2. t \in Seq(Elt) /\ Len(t) = Len(s) + 1
  BY InsertedFacts
<1>3. \A i \in 1..Len(s) + 1 : t[i] = IF i < n THEN s[i] ELSE IF i = n THEN e ELSE s[i - 1]
  BY DEF Inserted
<1> HIDE DEF t
<1>5. ASSUME NEW i \in 1..Len(t)
      PROVE  nx2[t[i]] = IF i < Len(t) THEN t[i + 1] ELSE IF k = "cdl" THEN t[1] ELSE NULL
  <2>1. CASE i < n - 1
    <3>1. i \in 1..Len(s) /\ t[i] = s[i] /\ t[i + 1] = s[i + 1]
      BY <2>1, <1>q, <1>2, <1>3
    <3>2. nx2[s[i]] = nx[s[i]]
      BY <3>1, <2>1, <1>q DEF InsertsNext
    <3> QED BY <3>1, <3>2, <2>1, <1>n, <1>q, <1>2 DEF InsertsNext
  <2>2. CASE i = n - 1
    BY <2>2, <1>n, <1>q, <1>2, <1>3 DEF InsertsNext
  <2>3. CASE i = n
    BY <2>3, <1>n, <1>q, <1>2, <1>3 DEF InsertsNext
  <2>4. CASE i > n
    <3>1. i - 1 \in 1..Len(s) /\ t[i] = s[i - 1]
      BY <2>4, <1>q, <1>2, <1>3
    <3>2. CASE i < Len(t)
      <4>0. i + 1 \in 1..Len(s) + 1 /\ i + 1 > n /\ (i + 1) - 1 = i
        BY <3>2, <2>4, <1>q, <1>2
      <4>a. t[i + 1] = s[(i + 1) - 1]
        BY <4>0, <1>q, <1>3
      <4>1. t[i + 1] = s[i] /\ i - 1 < Len(s)
        BY <4>0, <4>a, <1>q
      <4>2. nx2[s[i - 1]] = nx[s[i - 1]]
        BY <3>1, <4>1, <2>4, <1>q DEF InsertsNext
      <4>3. nx[s[i - 1]] = s[(i - 1) + 1]
        BY <3>1, <4>1, <1>n, <1>q
      <4> QED BY <3>1, <3>2, <4>1, <4>2, <4>3, <1>q
    <3>3. CASE i = Len(t)
      <4>1. i - 1 = Len(s) /\ t[1] = IF n = 1 THEN e ELSE s[1]
        BY <3>3, <3>1, <1>q, <1>2, <1>3
      <4> QED BY <3>1, <3>3, <4>1, <2>4, <1>n, <1>q DEF InsertsNext
    <3> QED BY <3>2, <3>3
  <2> QED BY <2>1, <2>2, <2>3, <2>4
<1> QED BY <1>5 DEF Nexts, t

InsertsPrev(s, n, e, pv, pv2) ==
  /\ pv2[e] = IF n > 1 THEN s[n - 1] ELSE IF Len(s) > 0 THEN s[Len(s)] ELSE e
  /\ n <= Len(s) => pv2[s[n]] = e
  /\ n = Len(s) + 1 /\ n > 1 => pv2[s[1]] = e
  /\ \A i \in 1..Len(s) : \/ i = n
                          \/ i = 1 /\ n = Len(s) + 1
                          \/ pv2[s[i]] = pv[s[i]]

LEMMA InsertPrevs ==
  ASSUME NEW s \in Seq(Elt), NEW n \in 1..Len(s) + 1, NEW e \in Elt,
         NEW pv, NEW pv2, Prevs(s, pv),
         InsertsPrev(s, n, e, pv, pv2)
  PROVE  Prevs(Inserted(s, n, e), pv2)
<1> DEFINE t == Inserted(s, n, e)
<1>p. \A i \in 1..Len(s) : pv[s[i]] = IF i > 1 THEN s[i - 1] ELSE s[Len(s)]
  BY DEF Prevs
<1>q. Len(s) \in Nat /\ n \in Nat
  OBVIOUS
<1>2. t \in Seq(Elt) /\ Len(t) = Len(s) + 1
  BY InsertedFacts
<1>3. \A i \in 1..Len(s) + 1 : t[i] = IF i < n THEN s[i] ELSE IF i = n THEN e ELSE s[i - 1]
  BY DEF Inserted
<1> HIDE DEF t
<1>6. ASSUME NEW i \in 1..Len(t)
      PROVE  pv2[t[i]] = IF i > 1 THEN t[i - 1] ELSE t[Len(t)]
  <2>1. CASE i < n
    <3>1. i \in 1..Len(s) /\ t[i] = s[i]
      BY <2>1, <1>q, <1>2, <1>3
    <3>2. CASE i > 1
      <4>1. t[i - 1] = s[i - 1]
        BY <3>1, <3>2, <2>1, <1>q, <1>2, <1>3
      <4>2. pv2[s[i]] = pv[s[i]]
        BY <3>1, <3>2, <2>1, <1>q DEF InsertsPrev
      <4> QED BY <3>1, <3>2, <4>1, <4>2, <1>p
    <3>3. CASE i = 1
      BY <3>1, <3>3, <2>1, <1>p, <1>q, <1>2, <1>3 DEF InsertsPrev
    <3> QED BY <3>2, <3>3
  <2>2. CASE i = n
    BY <2>2, <1>p, <1>q, <1>2, <1>3 DEF InsertsPrev
  <2>3. CASE i > n
    <3>1. i - 1 \in 1..Len(s) /\ t[i] = s[i - 1] /\ i > 1
      BY <2>3, <1>q, <1>2, <1>3
    <3>2. CASE i = n + 1
      BY <3>1, <3>2, <1>q, <1>2, <1>3 DEF InsertsPrev
    <3>3. CASE i > n + 1
      <4>1. t[i - 1] = s[(i - 1) - 1]
        BY <3>1, <3>3, <1>q, <1>2, <1>3
      <4>2. pv2[s[i - 1]] = pv[s[i - 1]]
        BY <3>1, <3>3, <1>q DEF InsertsPrev
      <4> QED BY <3>1, <3>3, <4>1, <4>2, <1>p, <1>q
    <3> QED BY <3>2, <3>3, <2>3, <1>q DEF InsertsPrev
  <2> QED BY <2>1, <2>2, <2>3
<1> QED BY <1>6 DEF Prevs, t

RemovesNext(k, s, n, nx, nx2) ==
  /\ n > 1 => nx2[s[n - 1]] = nx[s[n]]
  /\ n = 1 /\ k = "cdl" /\ Len(s) > 1 => nx2[s[Len(s)]] = s[2]
  /\ \A i \in 1..Len(s) : \/ i = n \/ i = n - 1
                          \/ n = 1 /\ k = "cdl" /\ i = Len(s)
                          \/ nx2[s[i]] = nx[s[i]]

LEMMA RemoveNexts ==
  ASSUME NEW k, NEW s \in Seq(Elt), Distinct(s), NEW n \in 1..Len(s),
         NEW nx, NEW nx2, Nexts(k, s, nx),
         RemovesNext(k, s, n, nx, nx2)
  PROVE  Nexts(k, Removed(s, n), nx2)
<1> DEFINE t == Removed(s, n)
<1>n. \A i \in 1..Len(s) :
        nx[s[i]] = IF i < Len(s) THEN s[i + 1] ELSE IF k = "cdl" THEN s[1] ELSE NULL
  BY DEF Nexts
<1>q. Len(s) \in Nat /\ n \in Nat
  OBVIOUS
<1>2. t \in Seq(Elt) /\ Len(t) = Len(s) - 1
  BY RemovedFacts
<1>3. \A i \in 1..Len(s) - 1 : t[i] = IF i < n THEN s[i] ELSE s[i + 1]
  BY DEF Removed
<1> HIDE DEF t
<1>5. ASSUME NEW i \in 1..Len(t)
      PROVE  nx2[t[i]] = IF i < Len(t) THEN t[i + 1] ELSE IF k = "cdl" THEN t[1] ELSE NULL
  <2>1. CASE i < n - 1
    <3>1. i \in 1..Len(s) /\ t[i] = s[i] /\ t[i + 1] = s[i + 1]
      BY <2>1, <1>q, <1>2, <1>3
    <3>2. nx2[s[i]] = nx[s[i]]
      BY <3>1, <2>1, <1>q DEF RemovesNext
    <3> QED BY <3>1, <3>2, <2>1, <1>n, <1>q, <1>2 DEF RemovesNext
  <2>2. CASE i = n - 1
    BY <2>2, <1>n, <1>q, <1>2, <1>3 DEF RemovesNext
  <2>3. CASE i >= n
    <3>1. i + 1 \in 1..Len(s) /\ t[i] = s[i + 1]
      BY <2>3, <1>q, <1>2, <1>3
    <3>2. CASE i < Len(t)
      <4>1. t[i + 1] = s[(i + 1) + 1] /\ i + 1 < Len(s)
        BY <3>2, <2>3, <1>q, <1>2, <1>3
      <4>2. nx2[s[i + 1]] = nx[s[i + 1]]
        BY <3>1, <4>1, <2>3, <1>q DEF RemovesNext
      <4>3. nx[s[i + 1]] = s[(i + 1) + 1]
        BY <3>1, <4>1, <1>n, <1>q
      <4> QED BY <3>1, <3>2, <4>1, <4>2, <4>3
    <3>3. CASE i = Len(t)
      <4>1. i + 1 = Len(s) /\ t[1] = IF n = 1 THEN s[2] ELSE s[1]
        BY <3>3, <3>1, <1>q, <1>2, <1>3
      <4> QED BY <3>1, <3>3, <4>1, <2>3, <1>n, <1>q DEF RemovesNext
    <3> QED BY <3>2, <3>3
  <2> QED BY <2>1, <2>2, <2>3
<1> QED BY <1>5 DEF Nexts, t

RemovesPrev(s, n, pv, pv2) ==
  /\ n < Len(s) => pv2[s[n + 1]] = pv[s[n]]
  /\ n = Len(s) /\ n > 1 => pv2[s[1]] = s[n - 1]
  /\ \A i \in 1..Len(s) : \/ i = n \/ i = n + 1
                          \/ i = 1 /\ n = Len(s)
                          \/ pv2[s[i]] = pv[s[i]]

LEMMA RemovePrevs ==
  ASSUME NEW s \in Seq(Elt), Distinct(s), NEW n \in 1..Len(s),
         NEW pv, NEW pv2, Prevs(s, pv),
         RemovesPrev(s, n, pv, pv2)
  PROVE  Prevs(Removed(s, n), pv2)
<1> DEFINE t == Removed(s, n)
<1>p. \A i \in 1..Len(s) : pv[s[i]] = IF i > 1 THEN s[i - 1] ELSE s[Len(s)]
  BY DEF Prevs
<1>q. Len(s) \in Nat /\ n \in Nat
  OBVIOUS
<1>2. t \in Seq(Elt) /\ Len(t) = Len(s) - 1
  BY RemovedFacts
<1>3. \A i \in 1..Len(s) - 1 : t[i] = IF i < n THEN s[i] ELSE s[i + 1]
  BY DEF Removed
<1> HIDE DEF t
<1>6. ASSUME NEW i \in 1..Len(t)
      PROVE  pv2[t[i]] = IF i > 1 THEN t[i - 1] ELSE t[Len(t)]
  <2>1. CASE i < n
    <3>1. i \in 1..Len(s) /\ t[i] = s[i]
      BY <2>1, <1>q, <1>2, <1>3
    <3>2. CASE i > 1
      <4>1. t[i - 1] = s[i - 1]
        BY <3>1, <3>2, <2>1, <1>q, <1>2, <1>3
      <4>2. pv2[s[i]] = pv[s[i]]
        BY <3>1, <3>2, <2>1, <1>q DEF RemovesPrev
      <4> QED BY <3>1, <3>2, <4>1, <4>2, <1>p
    <3>3. CASE i = 1
      BY <3>1, <3>3, <2>1, <1>p, <1>q, <1>2, <1>3 DEF RemovesPrev
    <3> QED BY <3>2, <3>3
  <2>2. CASE i = n
    BY <2>2, <1>p, <1>q, <1>2, <1>3 DEF RemovesPrev
  <2>3. CASE i > n
    <3>1. i + 1 \in 1..Len(s) /\ t[i] = s[i + 1] /\ i > 1
      BY <2>3, <1>q, <1>2, <1>3
    <3>2. t[i - 1] = s[i]
      BY <2>3, <3>1, <1>q, <1>2, <1>3
    <3>3. pv2[s[i + 1]] = pv[s[i + 1]]
      BY <2>3, <3>1, <1>q DEF RemovesPrev
    <3> QED BY <3>1, <3>2, <3>3, <1>p, <1>q DEF RemovesPrev
  <2> QED BY <2>1, <2>2, <2>3
<1> QED BY <1>6 DEF Prevs, t

ReplacesNext(k, s, n, e, nx, nx2) ==
  /\ nx2[e] = IF Len(s) = 1 /\ k = "cdl" THEN e ELSE nx[s[n]]
  /\ n > 1 => nx2[s[n - 1]] = e
  /\ n = 1 /\ k = "cdl" /\ Len(s) > 1 => nx2[s[Len(s)]] = e
  /\ \A i \in 1..Len(s) : \/ i = n \/ i = n - 1
                          \/ n = 1 /\ k = "cdl" /\ i = Len(s)
                          \/ nx2[s[i]] = nx[s[i]]

LEMMA ReplaceNexts ==
  ASSUME NEW k, NEW s \in Seq(Elt), Distinct(s), NEW n \in 1..Len(s), NEW e \in Elt,
         NEW nx, NEW nx2, Nexts(k, s, nx),
         ReplacesNext(k, s, n, e, nx, nx2)
  PROVE  Nexts(k, Replaced(s, n, e), nx2)
<1> DEFINE t == Replaced(s, n, e)
<1>n. \A i \in 1..Len(s) :
        nx[s[i]] = IF i < Len(s) THEN s[i + 1] ELSE IF k = "cdl" THEN s[1] ELSE NULL
  BY DEF Nexts
<1>q. Len(s) \in Nat /\ n \in Nat
  OBVIOUS
<1>2. t \in Seq(Elt) /\ Len(t) = Len(s)
  BY ReplacedFacts
<1>3. \A i \in 1..Len(s) : t[i] = IF i = n THEN e ELSE s[i]
  BY DEF Replaced
<1> HIDE DEF t
<1>5. ASSUME NEW i \in 1..Len(t)
      PROVE  nx2[t[i]] = IF i < Len(t) THEN t[i + 1] ELSE IF k = "cdl" THEN t[1] ELSE NULL
  <2>1. CASE i < n - 1
    BY <2>1, <1>n, <1>q, <1>2, <1>3 DEF ReplacesNext
  <2>2. CASE i = n - 1
    BY <2>2, <1>n, <1>q, <1>2, <1>3 DEF ReplacesNext
  <2>3. CASE i = n
    BY <2>3, <1>n, <1>q, <1>2, <1>3, SMTT(60) DEF ReplacesNext
  <2>4. CASE i > n
    BY <2>4, <1>n, <1>q, <1>2, <1>3 DEF ReplacesNext
  <2> QED BY <2>1, <2>2, <2>3, <2>4
<1> QED BY <1>5 DEF Nexts, t

ReplacesPrev(s, n, e, pv, pv2) ==
  /\ pv2[e] = IF Len(s) = 1 THEN e ELSE pv[s[n]]
  /\ n < Len(s) => pv2[s[n + 1]] = e
  /\ n = Len(s) /\ n > 1 => pv2[s[1]] = e
  /\ \A i \in 1..Len(s) : \/ i = n \/ i = n + 1
                          \/ i = 1 /\ n = Len(s)
                          \/ pv2[s[i]] = pv[s[i]]

LEMMA ReplacePrevs ==
  ASSUME NEW s \in Seq(Elt), Distinct(s), NEW n \in 1..Len(s), NEW e \in Elt,
         NEW pv, NEW pv2, Prevs(s, pv),
         ReplacesPrev(s, n, e, pv, pv2)
  PROVE  Prevs(Replaced(s, n, e), pv2)
<1> DEFINE t == Replaced(s, n, e)
<1>p. \A i \in 1..Len(s) : pv[s[i]] = IF i > 1 THEN s[i - 1] ELSE s[Len(s)]
  BY DEF Prevs
<1>q. Len(s) \in Nat /\ n \in Nat
  OBVIOUS
<1>2. t \in Seq(Elt) /\ Len(t) = Len(s)
  BY ReplacedFacts
<1>3. \A i \in 1..Len(s) : t[i] = IF i = n THEN e ELSE s[i]
  BY DEF Replaced
<1> HIDE DEF t
<1>6. ASSUME NEW i \in 1..Len(t)
      PROVE  pv2[t[i]] = IF i > 1 THEN t[i - 1] ELSE t[Len(t)]
  <2>1. CASE i < n
    <3>1. i \in 1..Len(s) /\ t[i] = s[i]
      BY <2>1, <1>q, <1>2, <1>3
    <3>2. CASE i > 1
      <4>1. t[i - 1] = s[i - 1]
        BY <3>1, <3>2, <2>1, <1>q, <1>2, <1>3
      <4>2. pv2[s[i]] = pv[s[i]]
        BY <3>1, <3>2, <2>1, <1>q DEF ReplacesPrev
      <4> QED BY <3>1, <3>2, <4>1, <4>2, <1>p
    <3>3. CASE i = 1
      BY <3>1, <3>3, <2>1, <1>p, <1>q, <1>2, <1>3 DEF ReplacesPrev
    <3> QED BY <3>2, <3>3
  <2>2. CASE i = n
    BY <2>2, <1>p, <1>q, <1>2, <1>3 DEF ReplacesPrev
  <2>3. CASE i > n
    <3>1. i - 1 \in 1..Len(s) /\ t[i] = s[i]
      BY <2>3, <1>q, <1>2, <1>3
    <3>2. CASE i = n + 1
      BY <3>1, <3>2, <1>q, <1>2, <1>3 DEF ReplacesPrev
    <3>3. CASE i > n + 1
      <4>1. t[i - 1] = s[i - 1]
        BY <3>1, <3>3, <1>q, <1>2, <1>3
      <4>2. pv2[s[i]] = pv[s[i]]
        BY <3>1, <3>3, <1>q, <1>2 DEF ReplacesPrev
      <4> QED BY <3>1, <3>3, <4>1, <4>2, <1>p, <1>q, <1>2
    <3> QED BY <3>2, <3>3, <2>3, <1>q DEF ReplacesPrev
  <2> QED BY <2>1, <2>2, <2>3
<1> QED BY <1>6 DEF Prevs, t

LEMMA InsertChain ==
  ASSUME NEW k, NEW s \in Seq(Elt), Distinct(s),
         NEW n \in 1..Len(s) + 1, NEW e \in Elt, e \notin Members(s),
         NEW h2, NEW nx2, NEW pv2,
         h2 = IF n = 1 THEN e ELSE s[1],
         Nexts(k, Inserted(s, n, e), nx2),
         k # "ll" => Prevs(Inserted(s, n, e), pv2)
  PROVE  Chain(k, Inserted(s, n, e), h2, nx2, pv2)
<1> DEFINE t == Inserted(s, n, e)
<1>2. t \in Seq(Elt) /\ Len(t) = Len(s) + 1 /\ Distinct(t)
  BY InsertedFacts
<1>3. t[1] = IF n = 1 THEN e ELSE s[1]
  BY DEF Inserted
<1>4. h2 = IF Len(t) = 0 THEN NULL ELSE t[1]
  BY <1>2, <1>3
<1> QED BY <1>2, <1>4 DEF Chain

LEMMA RemoveChain ==
  ASSUME NEW k, NEW s \in Seq(Elt), Distinct(s),
         NEW n \in 1..Len(s), NEW h2, NEW nx2, NEW pv2,
         h2 = IF n > 1 THEN s[1] ELSE IF Len(s) > 1 THEN s[2] ELSE NULL,
         Nexts(k, Removed(s, n), nx2),
         k # "ll" => Prevs(Removed(s, n), pv2)
  PROVE  Chain(k, Removed(s, n), h2, nx2, pv2)
<1> DEFINE t == Removed(s, n)
<1>2. t \in Seq(Elt) /\ Len(t) = Len(s) - 1 /\ Distinct(t)
  BY RemovedFacts
<1>3. Len(s) > 1 => t[1] = IF n = 1 THEN s[2] ELSE s[1]
  BY DEF Removed
<1>4. h2 = IF Len(t) = 0 THEN NULL ELSE t[1]
  BY <1>2, <1>3
<1> QED BY <1>2, <1>4 DEF Chain

LEMMA ReplaceChain ==
  ASSUME NEW k, NEW s \in Seq(Elt), Distinct(s),
         NEW n \in 1..Len(s), NEW e \in Elt, e \notin Members(s),
         NEW h2, NEW nx2, NEW pv2,
         h2 = IF n = 1 THEN e ELSE s[1],
         Nexts(k, Replaced(s, n, e), nx2),
         k # "ll" => Prevs(Replaced(s, n, e), pv2)
  PROVE  Chain(k, Replaced(s, n, e), h2, nx2, pv2)
<1> DEFINE t == Replaced(s, n, e)
<1>2. t \in Seq(Elt) /\ Len(t) = Len(s) /\ Distinct(t)
  BY ReplacedFacts
<1>3. t[1] = IF n = 1 THEN e ELSE s[1]
  BY DEF Replaced
<1>4. h2 = IF Len(t) = 0 THEN NULL ELSE t[1]
  BY <1>2, <1>3
<1> QED BY <1>2, <1>4 DEF Chain

-----------------------------------------------------------------------------
(* What the macros write.                                                  *)

FieldsOK ==
  /\ head \in [List -> Elt \cup {NULL}]
  /\ next \in [Elt -> Pointer]
  /\ prev \in [Elt -> Pointer]

\* The list l is the sequence s.
Holds(l, s) == Chain(kind, s, head[l], next, prev) /\ In(l) = Members(s)

\* No other list than l, and no elements than its own and e, are written.
Only(l, e) ==
  /\ FieldsOK'
  /\ \A m \in List \ {l} : head'[m] = head[m]
  /\ \A x \in Elt \ (In(l) \cup {e}) : next'[x] = next[x] /\ prev'[x] = prev[x]

LEMMA Apart == NULL \notin Elt /\ Junk \notin Elt /\ Junk # NULL /\ NULL \notin List
  BY ListAssumption

\* What the macros read.
LEMMA Reads ==
  ASSUME FieldsOK, NEW l \in List, NEW s, Holds(l, s)
  PROVE  /\ s \in Seq(Elt) /\ Len(s) \in Nat /\ Distinct(s)
         /\ \A i \in 1..Len(s) : s[i] \in Elt /\ s[i] # NULL /\ s[i] \in In(l)
         /\ \A i, j \in 1..Len(s) : s[i] = s[j] => i = j
         /\ \A x \in In(l) : \E i \in 1..Len(s) : x = s[i]
         /\ \A e : e \notin In(l) => e \notin Members(s)
         /\ head[l] = IF Len(s) = 0 THEN NULL ELSE s[1]
         /\ \A i \in 1..Len(s) :
              next[s[i]] = IF i < Len(s) THEN s[i + 1]
                           ELSE IF kind = "cdl" THEN s[1] ELSE NULL
         /\ Nexts(kind, s, next)
         /\ kind # "ll" => /\ Prevs(s, prev)
                           /\ \A i \in 1..Len(s) :
                                prev[s[i]] = IF i > 1 THEN s[i - 1] ELSE s[Len(s)]
<1>1. s \in Seq(Elt) /\ Len(s) \in Nat
  BY DEF Holds, Chain
<1>2. \A i \in 1..Len(s) : s[i] \in Elt /\ s[i] # NULL /\ s[i] \in In(l)
  BY <1>1, Apart DEF Holds, Members
<1>3. \A x \in In(l) : \E i \in 1..Len(s) : x = s[i]
  BY DEF Holds, Members
<1>4. \A i, j \in 1..Len(s) : s[i] = s[j] => i = j
  BY DEF Holds, Chain, Distinct
<1> QED BY <1>1, <1>2, <1>3, <1>4 DEF Holds, Chain, Nexts, Prevs

LEMMA ReadsAt ==
  ASSUME FieldsOK, NEW l \in List, NEW s, Holds(l, s), NEW n \in 1..Len(s)
  PROVE  /\ s \in Seq(Elt) /\ Len(s) \in Nat /\ Distinct(s) /\ 1 \in 1..Len(s)
         /\ \A i \in 1..Len(s) : s[i] \in Elt /\ s[i] \in In(l) /\ s[i] # NULL
         /\ \A i, j \in 1..Len(s) : s[i] = s[j] => i = j
         /\ Nexts(kind, s, next) /\ (kind # "ll" => Prevs(s, prev))
<1>1. s \in Seq(Elt) /\ Len(s) \in Nat /\ Distinct(s)
  BY Reads
<1>2. 1 \in 1..Len(s)
  BY ONLY <1>1, n \in 1..Len(s)
<1>3. \A i \in 1..Len(s) : s[i] \in Elt /\ s[i] \in In(l) /\ s[i] # NULL
  BY Reads
<1>4. \A i, j \in 1..Len(s) : s[i] = s[j] => i = j
  BY Reads
<1>5. Nexts(kind, s, next) /\ (kind # "ll" => Prevs(s, prev))
  BY Reads
<1> QED BY <1>1, <1>2, <1>3, <1>4, <1>5

LEMMA PrependKeeps ==
  ASSUME FieldsOK, NEW l \in List, NEW e \in Elt, NEW s, Holds(l, s),
         e \notin In(l), PrependTo(l, e)
  PROVE  Chain(kind, Inserted(s, 1, e), head'[l], next', prev') /\ Only(l, e)
<1> DEFINE t == Inserted(s, 1, e)
<1>0. /\ s \in Seq(Elt) /\ Len(s) \in Nat /\ Distinct(s) /\ e \notin Members(s)
      /\ \A i \in 1..Len(s) : s[i] \in Elt /\ s[i] \in In(l) /\ s[i] # e
      /\ Nexts(kind, s, next) /\ (kind # "ll" => Prevs(s, prev))
      /\ head[l] = IF Len(s) = 0 THEN NULL ELSE s[1]
      /\ Len(s) > 0 => s[1] # NULL /\ (kind # "ll" => prev[s[1]] = s[Len(s)])
      /\ 1 \in 1..Len(s) + 1
  BY Reads
<1>4. ASSUME head'[l] = e, Nexts(kind, t, next'), kind # "ll" => Prevs(t, prev')
      PROVE  Chain(kind, t, head'[l], next', prev')
  BY <1>0, <1>4, InsertChain
<1>1. CASE kind = "ll" /\ LLPrepend(l, e)
  <2>1. /\ next' = [next EXCEPT ![e] = head[l]] /\ prev' = prev
        /\ head' = [head EXCEPT ![l] = e]
    BY <1>1 DEF LLPrepend, SetHead
  <2>2. head'[l] = e /\ next'[e] = head[l] /\ \A i \in 1..Len(s) : next'[s[i]] = next[s[i]]
    BY <1>0, <2>1 DEF FieldsOK
  <2>3. Nexts(kind, t, next')
    <3>1. InsertsNext(kind, s, 1, e, next, next')
      BY <1>0, <1>1, <2>2 DEF InsertsNext
    <3> QED BY <1>0, <3>1, InsertNexts
  <2>4. Only(l, e)
    BY <2>1 DEF Only, FieldsOK, Pointer
  <2> QED BY <1>1, <2>2, <2>3, <2>4, <1>4
<1>2. CASE kind = "dl" /\ DLPrepend(l, e)
  <2>1. /\ next' = [next EXCEPT ![e] = head[l]]
        /\ prev' = IF Len(s) = 0
                   THEN [prev EXCEPT ![e] = e]
                   ELSE [prev EXCEPT ![e] = s[Len(s)], ![s[1]] = e]
        /\ head' = [head EXCEPT ![l] = e]
    <3>1. CASE Len(s) = 0
      BY <1>0, <1>2, <3>1 DEF DLPrepend, SetHead
    <3>2. CASE Len(s) > 0
      BY <1>0, <1>2, <3>2 DEF DLPrepend, SetHead
    <3> QED BY <1>0, <3>1, <3>2
  <2>2. head'[l] = e /\ next'[e] = head[l] /\ \A i \in 1..Len(s) : next'[s[i]] = next[s[i]]
    BY <1>0, <2>1 DEF FieldsOK
  <2>3. Nexts(kind, t, next')
    <3>1. InsertsNext(kind, s, 1, e, next, next')
      BY <1>0, <1>2, <2>2 DEF InsertsNext
    <3> QED BY <1>0, <3>1, InsertNexts
  <2>4. /\ prev'[e] = IF Len(s) > 0 THEN s[Len(s)] ELSE e
        /\ Len(s) > 0 => prev'[s[1]] = e
        /\ \A i \in 1..Len(s) : i # 1 => prev'[s[i]] = prev[s[i]]
    BY <1>0, <2>1, Reads DEF FieldsOK
  <2>5. Prevs(t, prev')
    <3>1. InsertsPrev(s, 1, e, prev, prev')
      BY <1>0, <1>2, <2>4 DEF InsertsPrev
    <3> QED BY <1>0, <1>2, <3>1, InsertPrevs
  <2>6. Only(l, e)
    BY <1>0, <2>1 DEF Only, FieldsOK, Pointer
  <2> QED BY <2>2, <2>3, <2>5, <2>6, <1>4
<1>3. CASE kind = "cdl" /\ CDLPrepend(l, e)
  <2>1. CASE Len(s) = 0
    <3>1. /\ next' = [next EXCEPT ![e] = e] /\ prev' = [prev EXCEPT ![e] = e]
          /\ head' = [head EXCEPT ![l] = e]
      BY <1>0, <1>3, <2>1 DEF CDLPrepend, Alone, SetHead
    <3>2. head'[l] = e /\ next'[e] = e /\ prev'[e] = e
      BY <3>1 DEF FieldsOK
    <3>3. Nexts(kind, t, next')
      <4>1. InsertsNext(kind, s, 1, e, next, next')
        BY <1>0, <1>3, <2>1, <3>2 DEF InsertsNext
      <4> QED BY <1>0, <4>1, InsertNexts
    <3>4. Prevs(t, prev')
      <4>1. InsertsPrev(s, 1, e, prev, prev')
        BY <1>0, <1>3, <2>1, <3>2 DEF InsertsPrev
      <4> QED BY <1>0, <1>3, <4>1, InsertPrevs
    <3>5. Only(l, e)
      BY <3>1 DEF Only, FieldsOK, Pointer
    <3> QED BY <3>2, <3>3, <3>4, <3>5, <1>4
  <2>2. CASE Len(s) > 0
    <3>1. /\ next' = [next EXCEPT ![e] = s[1], ![s[Len(s)]] = e]
          /\ prev' = [prev EXCEPT ![e] = s[Len(s)], ![s[1]] = e]
          /\ head' = [head EXCEPT ![l] = e]
      BY <1>0, <1>3, <2>2 DEF CDLPrepend, Between, SetHead
    <3>2. /\ head'[l] = e /\ next'[e] = s[1] /\ next'[s[Len(s)]] = e
          /\ prev'[e] = s[Len(s)] /\ prev'[s[1]] = e
      BY <1>0, <2>2, <3>1 DEF FieldsOK
    <3>3. \A i \in 1..Len(s) : /\ i # Len(s) => next'[s[i]] = next[s[i]]
                               /\ i # 1 => prev'[s[i]] = prev[s[i]]
      BY <1>0, <2>2, <3>1, Reads DEF FieldsOK
    <3>4. Nexts(kind, t, next')
      <4>1. InsertsNext(kind, s, 1, e, next, next')
        BY <1>0, <1>3, <2>2, <3>2, <3>3 DEF InsertsNext
      <4> QED BY <1>0, <4>1, InsertNexts
    <3>5. Prevs(t, prev')
      <4>1. InsertsPrev(s, 1, e, prev, prev')
        BY <1>0, <1>3, <2>2, <3>2, <3>3 DEF InsertsPrev
      <4> QED BY <1>0, <1>3, <4>1, InsertPrevs
    <3>6. Only(l, e)
      BY <1>0, <2>2, <3>1 DEF Only, FieldsOK, Pointer
    <3> QED BY <3>2, <3>4, <3>5, <3>6, <1>4
  <2> QED BY <1>0, <2>1, <2>2
<1> QED BY <1>1, <1>2, <1>3 DEF PrependTo

LEMMA BeforeIs ==
  ASSUME FieldsOK, NEW l \in List, NEW s, Holds(l, s), kind # "cdl",
         NEW i \in 1..Len(s)
  PROVE  Before(l, IF i < Len(s) THEN s[i + 1] ELSE NULL) = s[i]
<1> DEFINE y == IF i < Len(s) THEN s[i + 1] ELSE NULL
<1>1. s[i] \in In(l) /\ next[s[i]] = y
  BY Reads
<1>2. ASSUME NEW x \in In(l), next[x] = y
      PROVE  x = s[i]
  <2>1. PICK j \in 1..Len(s) : x = s[j]
    BY Reads
  <2>2. next[s[j]] = IF j < Len(s) THEN s[j + 1] ELSE NULL
    BY Reads
  <2>3. Len(s) \in Nat /\ \A a \in 1..Len(s) : s[a] # NULL
    BY Reads
  <2>4. \A a, b \in 1..Len(s) : s[a] = s[b] => a = b
    BY Reads
  <2>5. i = j
    <3>1. CASE i < Len(s) /\ j < Len(s)
      <4>1. s[j + 1] = s[i + 1] /\ j + 1 \in 1..Len(s) /\ i + 1 \in 1..Len(s)
        BY <1>2, <2>1, <2>2, <2>3, <3>1
      <4> QED BY <4>1, <2>3, <2>4
    <3>2. CASE i < Len(s) /\ j = Len(s)
      BY <1>2, <2>1, <2>2, <2>3, <3>2
    <3>3. CASE i = Len(s) /\ j < Len(s)
      BY <1>2, <2>1, <2>2, <2>3, <3>3
    <3> QED BY <3>1, <3>2, <3>3, <2>3
  <2> QED BY <2>1, <2>5
<1> HIDE DEF y
<1>3. Before(l, y) \in In(l) /\ next[Before(l, y)] = y
  BY <1>1 DEF Before
<1>4. Before(l, y) = s[i]
  BY <1>2, <1>3
<1> QED BY <1>4 DEF y

LEMMA AppendKeeps ==
  ASSUME FieldsOK, NEW l \in List, NEW e \in Elt, NEW s, Holds(l, s),
         e \notin In(l), AppendTo(l, e)
  PROVE  Chain(kind, Inserted(s, Len(s) + 1, e), head'[l], next', prev') /\ Only(l, e)
<1> DEFINE n == Len(s) + 1
           t == Inserted(s, n, e)
<1>0. /\ s \in Seq(Elt) /\ Len(s) \in Nat /\ Distinct(s) /\ e \notin Members(s)
      /\ \A i \in 1..Len(s) : s[i] \in Elt /\ s[i] \in In(l) /\ s[i] # e
      /\ \A i, j \in 1..Len(s) : s[i] = s[j] => i = j
      /\ Nexts(kind, s, next) /\ (kind # "ll" => Prevs(s, prev))
      /\ head[l] = IF Len(s) = 0 THEN NULL ELSE s[1]
      /\ Len(s) > 0 => s[1] # NULL /\ (kind # "ll" => prev[s[1]] = s[Len(s)])
      /\ n \in 1..Len(s) + 1
  BY Reads
<1>4. ASSUME head'[l] = IF Len(s) = 0 THEN e ELSE s[1],
             Nexts(kind, t, next'), kind # "ll" => Prevs(t, prev')
      PROVE  Chain(kind, t, head'[l], next', prev')
  <2>1. head'[l] = IF n = 1 THEN e ELSE s[1]
    BY <1>0, <1>4
  <2> HIDE DEF n
  <2> QED BY <1>0, <1>4, <2>1, InsertChain
<1>1. CASE kind = "ll" /\ LLAppend(l, e)
  <2>1. CASE Len(s) = 0
    <3>1. /\ next' = [next EXCEPT ![e] = NULL] /\ prev' = prev
          /\ head' = [head EXCEPT ![l] = e]
      BY <1>0, <1>1, <2>1 DEF LLAppend, SetHead
    <3>2. head'[l] = e /\ next'[e] = NULL
      BY <3>1 DEF FieldsOK
    <3>3. Nexts(kind, t, next')
      <4>1. InsertsNext(kind, s, n, e, next, next')
        BY <1>0, <1>1, <2>1, <3>2 DEF InsertsNext
      <4> HIDE DEF n
      <4> QED BY <1>0, <4>1, InsertNexts
    <3>4. Only(l, e)
      BY <3>1 DEF Only, FieldsOK, Pointer
    <3> QED BY <1>1, <1>4, <2>1, <3>2, <3>3, <3>4
  <2>2. CASE Len(s) > 0
    <3>1. /\ next' = [next EXCEPT ![e] = NULL, ![s[Len(s)]] = e] /\ prev' = prev
          /\ head' = head
      <4>1. Before(l, NULL) = s[Len(s)]
        BY <1>0, <1>1, <2>2, BeforeIs
      <4> QED BY <1>0, <1>1, <2>2, <4>1 DEF LLAppend, SetHead
    <3>2. /\ next'[e] = NULL /\ next'[s[Len(s)]] = e
          /\ \A i \in 1..Len(s) : i # Len(s) => next'[s[i]] = next[s[i]]
      BY <1>0, <2>2, <3>1 DEF FieldsOK
    <3>3. Nexts(kind, t, next')
      <4>1. InsertsNext(kind, s, n, e, next, next')
        BY <1>0, <1>1, <2>2, <3>2 DEF InsertsNext
      <4> HIDE DEF n
      <4> QED BY <1>0, <4>1, InsertNexts
    <3>4. Only(l, e)
      BY <1>0, <2>2, <3>1 DEF Only, FieldsOK, Pointer
    <3> QED BY <1>0, <1>1, <1>4, <2>2, <3>1, <3>3, <3>4
  <2> QED BY <1>0, <2>1, <2>2
<1>2. CASE kind = "dl" /\ DLAppend(l, e)
  <2>1. CASE Len(s) = 0
    <3>1. /\ next' = [next EXCEPT ![e] = NULL] /\ prev' = [prev EXCEPT ![e] = e]
          /\ head' = [head EXCEPT ![l] = e]
      BY <1>0, <1>2, <2>1 DEF DLAppend, SetHead
    <3>2. head'[l] = e /\ next'[e] = NULL /\ prev'[e] = e
      BY <3>1 DEF FieldsOK
    <3>3. Nexts(kind, t, next')
      <4>1. InsertsNext(kind, s, n, e, next, next')
        BY <1>0, <1>2, <2>1, <3>2 DEF InsertsNext
      <4> HIDE DEF n
      <4> QED BY <1>0, <4>1, InsertNexts
    <3>4. Prevs(t, prev')
      <4>1. InsertsPrev(s, n, e, prev, prev')
        BY <1>0, <1>2, <2>1, <3>2 DEF InsertsPrev
      <4> HIDE DEF n
      <4> QED BY <1>0, <1>2, <4>1, InsertPrevs
    <3>5. Only(l, e)
      BY <3>1 DEF Only, FieldsOK, Pointer
    <3> QED BY <1>4, <2>1, <3>2, <3>3, <3>4, <3>5
  <2>2. CASE Len(s) > 0
    <3>1. /\ next' = [next EXCEPT ![s[Len(s)]] = e, ![e] = NULL]
          /\ prev' = [prev EXCEPT ![e] = s[Len(s)], ![s[1]] = e]
          /\ head' = head
      BY <1>0, <1>2, <2>2 DEF DLAppend
    <3>2. /\ next'[e] = NULL /\ next'[s[Len(s)]] = e
          /\ prev'[e] = s[Len(s)] /\ prev'[s[1]] = e
          /\ \A i \in 1..Len(s) : /\ i # Len(s) => next'[s[i]] = next[s[i]]
                                  /\ i # 1 => prev'[s[i]] = prev[s[i]]
      BY <1>0, <2>2, <3>1 DEF FieldsOK
    <3>3. Nexts(kind, t, next')
      <4>1. InsertsNext(kind, s, n, e, next, next')
        BY <1>0, <1>2, <2>2, <3>2 DEF InsertsNext
      <4> HIDE DEF n
      <4> QED BY <1>0, <4>1, InsertNexts
    <3>4. Prevs(t, prev')
      <4>1. InsertsPrev(s, n, e, prev, prev')
        BY <1>0, <1>2, <2>2, <3>2 DEF InsertsPrev
      <4> HIDE DEF n
      <4> QED BY <1>0, <1>2, <4>1, InsertPrevs
    <3>5. Only(l, e)
      BY <1>0, <2>2, <3>1 DEF Only, FieldsOK, Pointer
    <3> QED BY <1>0, <1>4, <2>2, <3>1, <3>3, <3>4, <3>5
  <2> QED BY <1>0, <2>1, <2>2
<1>3. CASE kind = "cdl" /\ CDLAppend(l, e)
  <2>1. CASE Len(s) = 0
    <3>1. /\ next' = [next EXCEPT ![e] = e] /\ prev' = [prev EXCEPT ![e] = e]
          /\ head' = [head EXCEPT ![l] = e]
      BY <1>0, <1>3, <2>1 DEF CDLAppend, Alone, SetHead
    <3>2. head'[l] = e /\ next'[e] = e /\ prev'[e] = e
      BY <3>1 DEF FieldsOK
    <3>3. Nexts(kind, t, next')
      <4>1. InsertsNext(kind, s, n, e, next, next')
        BY <1>0, <1>3, <2>1, <3>2 DEF InsertsNext
      <4> HIDE DEF n
      <4> QED BY <1>0, <4>1, InsertNexts
    <3>4. Prevs(t, prev')
      <4>1. InsertsPrev(s, n, e, prev, prev')
        BY <1>0, <1>3, <2>1, <3>2 DEF InsertsPrev
      <4> HIDE DEF n
      <4> QED BY <1>0, <1>3, <4>1, InsertPrevs
    <3>5. Only(l, e)
      BY <3>1 DEF Only, FieldsOK, Pointer
    <3> QED BY <1>4, <2>1, <3>2, <3>3, <3>4, <3>5
  <2>2. CASE Len(s) > 0
    <3>1. /\ next' = [next EXCEPT ![e] = s[1], ![s[Len(s)]] = e]
          /\ prev' = [prev EXCEPT ![e] = s[Len(s)], ![s[1]] = e]
          /\ head' = head
      BY <1>0, <1>3, <2>2 DEF CDLAppend, Between
    <3>2. /\ next'[e] = s[1] /\ next'[s[Len(s)]] = e
          /\ prev'[e] = s[Len(s)] /\ prev'[s[1]] = e
          /\ \A i \in 1..Len(s) : /\ i # Len(s) => next'[s[i]] = next[s[i]]
                                  /\ i # 1 => prev'[s[i]] = prev[s[i]]
      BY <1>0, <2>2, <3>1 DEF FieldsOK
    <3>3. Nexts(kind, t, next')
      <4>1. InsertsNext(kind, s, n, e, next, next')
        BY <1>0, <1>3, <2>2, <3>2 DEF InsertsNext
      <4> HIDE DEF n
      <4> QED BY <1>0, <4>1, InsertNexts
    <3>4. Prevs(t, prev')
      <4>1. InsertsPrev(s, n, e, prev, prev')
        BY <1>0, <1>3, <2>2, <3>2 DEF InsertsPrev
      <4> HIDE DEF n
      <4> QED BY <1>0, <1>3, <4>1, InsertPrevs
    <3>5. Only(l, e)
      BY <1>0, <2>2, <3>1 DEF Only, FieldsOK, Pointer
    <3> QED BY <1>0, <1>4, <2>2, <3>1, <3>3, <3>4, <3>5
  <2> QED BY <1>0, <2>1, <2>2
<1> QED BY <1>1, <1>2, <1>3 DEF AppendTo

LEMMA PrependElemKeeps ==
  ASSUME FieldsOK, NEW l \in List, NEW e \in Elt, NEW s, Holds(l, s),
         e \notin In(l), NEW n \in 1..Len(s), NEW o, o = s[n],
         \/ kind = "ll" /\ LLPrependElem(l, o, e)
         \/ kind = "dl" /\ DLPrependElem(l, o, e)
         \/ kind = "cdl" /\ CDLPrependElem(l, o, e)
  PROVE  Chain(kind, Inserted(s, n, e), head'[l], next', prev') /\ Only(l, e)
<1> DEFINE t == Inserted(s, n, e)
<1>0. /\ s \in Seq(Elt) /\ Len(s) \in Nat /\ Distinct(s) /\ e \notin Members(s)
      /\ \A i \in 1..Len(s) : s[i] \in Elt /\ s[i] \in In(l) /\ s[i] # e
      /\ \A i, j \in 1..Len(s) : s[i] = s[j] => i = j
      /\ Nexts(kind, s, next) /\ (kind # "ll" => Prevs(s, prev))
      /\ head[l] = s[1] /\ (head[l] = o <=> n = 1) /\ o \in Elt
      /\ kind # "ll" => prev[o] = IF n > 1 THEN s[n - 1] ELSE s[Len(s)]
      /\ n \in 1..Len(s) + 1 /\ n # Len(s) + 1
  <2>1. Len(s) \in Nat /\ 1 \in 1..Len(s) /\ n \in 1..Len(s) + 1 /\ n # Len(s) + 1
    BY Reads
  <2>2. \A i, j \in 1..Len(s) : s[i] = s[j] => i = j
    BY Reads
  <2>3. head[l] = s[1] /\ o \in Elt
    BY <2>1, Reads
  <2>4. head[l] = o <=> n = 1
    BY <2>1, <2>2, <2>3
  <2> QED BY <2>1, <2>2, <2>3, <2>4, Reads
<1>4. ASSUME head'[l] = IF n = 1 THEN e ELSE s[1],
             Nexts(kind, t, next'), kind # "ll" => Prevs(t, prev')
      PROVE  Chain(kind, t, head'[l], next', prev')
  BY <1>0, <1>4, InsertChain
<1>1. CASE kind = "ll" /\ LLPrependElem(l, o, e)
  <2>1. CASE n = 1
    <3>1. /\ next' = [next EXCEPT ![e] = o] /\ prev' = prev
          /\ head' = [head EXCEPT ![l] = e]
      BY <1>0, <1>1, <2>1 DEF LLPrependElem, SetHead
    <3>2. /\ head'[l] = e /\ next'[e] = s[n]
          /\ \A i \in 1..Len(s) : next'[s[i]] = next[s[i]]
      BY <1>0, <3>1 DEF FieldsOK
    <3>3. Nexts(kind, t, next')
      <4>1. InsertsNext(kind, s, n, e, next, next')
        BY <1>0, <1>1, <2>1, <3>2 DEF InsertsNext
      <4> QED BY <1>0, <4>1, InsertNexts
    <3>4. Only(l, e)
      BY <1>0, <3>1 DEF Only, FieldsOK, Pointer
    <3> QED BY <1>1, <1>4, <2>1, <3>2, <3>3, <3>4
  <2>2. CASE n > 1
    <3>1. /\ next' = [next EXCEPT ![e] = o, ![s[n - 1]] = e] /\ prev' = prev
          /\ head' = head
      <4>1. n - 1 \in 1..Len(s) /\ n - 1 < Len(s) /\ (n - 1) + 1 = n
        BY <1>0, <2>2
      <4>2. Before(l, s[(n - 1) + 1]) = s[n - 1]
        BY <1>1, <4>1, BeforeIs
      <4> QED BY <1>0, <1>1, <2>2, <4>1, <4>2 DEF LLPrependElem
    <3>2. /\ next'[e] = s[n] /\ next'[s[n - 1]] = e
          /\ \A i \in 1..Len(s) : i # n - 1 => next'[s[i]] = next[s[i]]
      BY <1>0, <2>2, <3>1 DEF FieldsOK
    <3>3. Nexts(kind, t, next')
      <4>1. InsertsNext(kind, s, n, e, next, next')
        BY <1>0, <1>1, <2>2, <3>2 DEF InsertsNext
      <4> QED BY <1>0, <4>1, InsertNexts
    <3>4. Only(l, e)
      BY <1>0, <2>2, <3>1 DEF Only, FieldsOK, Pointer
    <3> QED BY <1>0, <1>1, <1>4, <2>2, <3>1, <3>3, <3>4
  <2> QED BY <1>0, <2>1, <2>2
<1>2. CASE kind = "dl" /\ DLPrependElem(l, o, e)
  <2>0. prev' = [prev EXCEPT ![e] = prev[o], ![o] = e]
    BY <1>2 DEF DLPrependElem
  <2>3. Prevs(t, prev')
    <3>2. /\ prev'[e] = IF n > 1 THEN s[n - 1] ELSE s[Len(s)]
          /\ prev'[s[n]] = e
          /\ \A i \in 1..Len(s) : i # n => prev'[s[i]] = prev[s[i]]
      BY <1>0, <1>2, <2>0 DEF FieldsOK
    <3>3. Len(s) > 0 /\ n # Len(s) + 1
      BY <1>0
    <3>1. InsertsPrev(s, n, e, prev, prev')
      BY <3>2, <3>3 DEF InsertsPrev
    <3> QED BY <1>0, <1>2, <3>1, InsertPrevs
  <2>1. CASE n = 1
    <3>1. next' = [next EXCEPT ![e] = o] /\ head' = [head EXCEPT ![l] = e]
      BY <1>0, <1>2, <2>1 DEF DLPrependElem, SetHead
    <3>2. /\ head'[l] = e /\ next'[e] = s[n]
          /\ \A i \in 1..Len(s) : next'[s[i]] = next[s[i]]
      BY <1>0, <3>1 DEF FieldsOK
    <3>3. Nexts(kind, t, next')
      <4>1. InsertsNext(kind, s, n, e, next, next')
        BY <1>0, <1>2, <2>1, <3>2 DEF InsertsNext
      <4> QED BY <1>0, <4>1, InsertNexts
    <3>4. Only(l, e)
      BY <1>0, <2>0, <2>1, <3>1 DEF Only, FieldsOK, Pointer
    <3> QED BY <1>2, <1>4, <2>1, <2>3, <3>2, <3>3, <3>4
  <2>2. CASE n > 1
    <3>1. /\ next' = [next EXCEPT ![e] = o, ![s[n - 1]] = e]
          /\ head' = head
      BY <1>0, <1>2, <2>2 DEF DLPrependElem
    <3>2. /\ next'[e] = s[n] /\ next'[s[n - 1]] = e
          /\ \A i \in 1..Len(s) : i # n - 1 => next'[s[i]] = next[s[i]]
      BY <1>0, <2>2, <3>1 DEF FieldsOK
    <3>3. Nexts(kind, t, next')
      <4>1. InsertsNext(kind, s, n, e, next, next')
        BY <1>0, <1>2, <2>2, <3>2 DEF InsertsNext
      <4> QED BY <1>0, <4>1, InsertNexts
    <3>4. Only(l, e)
      BY <1>0, <2>0, <2>2, <3>1 DEF Only, FieldsOK, Pointer
    <3> QED BY <1>0, <1>2, <1>4, <2>2, <2>3, <3>1, <3>3, <3>4
  <2> QED BY <1>0, <2>1, <2>2
<1>3. CASE kind = "cdl" /\ CDLPrependElem(l, o, e)
  <2>1. PICK w \in 1..Len(s) : w = IF n > 1 THEN n - 1 ELSE Len(s)
    BY <1>0
  <2>2. /\ next' = [next EXCEPT ![e] = o, ![s[w]] = e]
        /\ prev' = [prev EXCEPT ![e] = s[w], ![o] = e]
        /\ head' = [head EXCEPT ![l] = IF n = 1 THEN e ELSE s[1]]
    BY <1>0, <1>3, <2>1 DEF CDLPrependElem, Between, SetHead
  <2>3. /\ next'[e] = s[n] /\ next'[s[w]] = e /\ prev'[e] = s[w] /\ prev'[s[n]] = e
        /\ head'[l] = IF n = 1 THEN e ELSE s[1]
        /\ \A i \in 1..Len(s) : /\ i # w => next'[s[i]] = next[s[i]]
                                /\ i # n => prev'[s[i]] = prev[s[i]]
    BY <1>0, <2>2 DEF FieldsOK
  <2>4. Nexts(kind, t, next')
    <3>1. InsertsNext(kind, s, n, e, next, next')
      BY <1>0, <1>3, <2>1, <2>3 DEF InsertsNext
    <3> QED BY <1>0, <3>1, InsertNexts
  <2>5. Prevs(t, prev')
    <3>1. InsertsPrev(s, n, e, prev, prev')
      BY <1>0, <1>3, <2>1, <2>3 DEF InsertsPrev
    <3> QED BY <1>0, <1>3, <3>1, InsertPrevs
  <2>6. Only(l, e)
    BY <1>0, <2>2 DEF Only, FieldsOK, Pointer
  <2> QED BY <1>4, <2>3, <2>4, <2>5, <2>6
<1> QED BY <1>1, <1>2, <1>3

LEMMA AppendElemKeeps ==
  ASSUME FieldsOK, NEW l \in List, NEW e \in Elt, NEW s, Holds(l, s),
         e \notin In(l), NEW m \in 1..Len(s), NEW o, o = s[m], NEW n, n = m + 1,
         \/ kind = "ll" /\ LLAppendElem(l, o, e)
         \/ kind = "dl" /\ DLAppendElem(l, o, e)
         \/ kind = "cdl" /\ CDLAppendElem(l, o, e)
  PROVE  Chain(kind, Inserted(s, n, e), head'[l], next', prev') /\ Only(l, e)
<1> DEFINE t == Inserted(s, n, e)
           w == IF m < Len(s) THEN s[m + 1] ELSE s[1]
<1>0. /\ s \in Seq(Elt) /\ Len(s) \in Nat /\ Distinct(s) /\ e \notin Members(s)
      /\ \A i \in 1..Len(s) : s[i] \in Elt /\ s[i] \in In(l) /\ s[i] # e /\ s[i] # NULL
      /\ \A i, j \in 1..Len(s) : s[i] = s[j] => i = j
      /\ Nexts(kind, s, next) /\ (kind # "ll" => Prevs(s, prev))
      /\ head[l] = s[1] /\ o \in Elt
      /\ next[o] = IF m < Len(s) THEN s[m + 1] ELSE IF kind = "cdl" THEN s[1] ELSE NULL
      /\ n \in 1..Len(s) + 1 /\ n # 1 /\ n - 1 = m /\ m \in Nat
  <2>1. Len(s) \in Nat /\ 1 \in 1..Len(s)
    BY Reads
  <2>2. n \in 1..Len(s) + 1 /\ n # 1 /\ n - 1 = m /\ m \in Nat
    BY <2>1
  <2>3. head[l] = s[1] /\ o \in Elt
    BY <2>1, Reads
  <2>4. next[o] = IF m < Len(s) THEN s[m + 1] ELSE IF kind = "cdl" THEN s[1] ELSE NULL
    BY Reads
  <2>5. /\ s \in Seq(Elt) /\ Len(s) \in Nat /\ Distinct(s) /\ e \notin Members(s)
        /\ \A i \in 1..Len(s) : s[i] \in Elt /\ s[i] \in In(l) /\ s[i] # e /\ s[i] # NULL
    BY Reads
  <2>6. \A i, j \in 1..Len(s) : s[i] = s[j] => i = j
    BY Reads
  <2>7. Nexts(kind, s, next) /\ (kind # "ll" => Prevs(s, prev))
    BY Reads
  <2> QED BY <2>2, <2>3, <2>4, <2>5, <2>6, <2>7
<1>4. ASSUME head' = head, Nexts(kind, t, next'), kind # "ll" => Prevs(t, prev')
      PROVE  Chain(kind, t, head'[l], next', prev')
  BY <1>0, <1>4, InsertChain
<1>5. next' = [next EXCEPT ![e] = next[o], ![o] = e] /\ head' = head
  BY DEF LLAppendElem, DLAppendElem, CDLAppendElem, Between
<1>6. /\ next'[e] = next[o] /\ next'[s[m]] = e
      /\ \A i \in 1..Len(s) : i # m => next'[s[i]] = next[s[i]]
  BY <1>0, <1>5 DEF FieldsOK
<1>7. Nexts(kind, t, next')
  <2>1. InsertsNext(kind, s, n, e, next, next')
    BY <1>0, <1>6 DEF InsertsNext
  <2> QED BY <1>0, <2>1, InsertNexts
<1>1. CASE kind = "ll" /\ LLAppendElem(l, o, e)
  <2>1. prev' = prev
    BY <1>1 DEF LLAppendElem
  <2>2. Only(l, e)
    BY <1>0, <1>5, <2>1 DEF Only, FieldsOK, Pointer
  <2> QED BY <1>1, <1>4, <1>5, <1>7, <2>2
<1>2. CASE \/ kind = "dl" /\ DLAppendElem(l, o, e)
           \/ kind = "cdl" /\ CDLAppendElem(l, o, e)
  <2>1. /\ w \in Elt /\ w \in In(l)
        /\ kind = "dl" => Successor(l, o) = w
        /\ kind = "cdl" => next[o] = w
    BY <1>0 DEF Successor
  <2>2. prev' = [prev EXCEPT ![e] = o, ![w] = e]
    BY <1>2, <2>1 DEF DLAppendElem, CDLAppendElem, Between
  <2>3. PICK v \in 1..Len(s) : w = s[v] /\ v = IF m < Len(s) THEN m + 1 ELSE 1
    BY <1>0
  <2>4. /\ prev'[e] = s[m] /\ prev'[s[v]] = e
        /\ \A i \in 1..Len(s) : i # v => prev'[s[i]] = prev[s[i]]
    BY <1>0, <2>1, <2>2, <2>3 DEF FieldsOK
  <2>5. Prevs(t, prev')
    <3>1. InsertsPrev(s, n, e, prev, prev')
      BY <1>0, <2>3, <2>4 DEF InsertsPrev
    <3> QED BY <1>0, <1>2, <3>1, InsertPrevs
  <2>6. Only(l, e)
    BY <1>0, <1>5, <2>1, <2>2 DEF Only, FieldsOK, Pointer
  <2> QED BY <1>4, <1>5, <1>7, <2>5, <2>6
<1> QED BY <1>1, <1>2

LEMMA ReplaceKeeps ==
  ASSUME FieldsOK, NEW l \in List, NEW e \in Elt, NEW s, Holds(l, s),
         e \notin In(l), NEW n \in 1..Len(s), NEW o, o = s[n],
         \/ kind = "ll" /\ LLReplaceElem(l, o, e)
         \/ kind = "dl" /\ DLReplaceElem(l, o, e)
         \/ kind = "cdl" /\ CDLReplaceElem(l, o, e)
  PROVE  Chain(kind, Replaced(s, n, e), head'[l], next', prev') /\ Only(l, e)
<1> DEFINE t == Replaced(s, n, e)
<1>0. /\ s \in Seq(Elt) /\ Len(s) \in Nat /\ Distinct(s) /\ 1 \in 1..Len(s)
      /\ \A i \in 1..Len(s) : s[i] \in Elt /\ s[i] \in In(l) /\ s[i] # NULL
      /\ \A i, j \in 1..Len(s) : s[i] = s[j] => i = j
      /\ Nexts(kind, s, next) /\ (kind # "ll" => Prevs(s, prev))
  BY ReadsAt
<1>o. /\ head[l] = s[1] /\ (head[l] = o <=> n = 1) /\ o \in Elt
      /\ next[o] = IF n < Len(s) THEN s[n + 1] ELSE IF kind = "cdl" THEN s[1] ELSE NULL
      /\ kind # "ll" => prev[o] = IF n > 1 THEN s[n - 1] ELSE s[Len(s)]
  <2>1. head[l] = s[1]
    BY <1>0, Reads
  <2>2. /\ next[o] = IF n < Len(s) THEN s[n + 1] ELSE IF kind = "cdl" THEN s[1] ELSE NULL
        /\ kind # "ll" => prev[o] = IF n > 1 THEN s[n - 1] ELSE s[Len(s)]
    BY Reads
  <2>3. head[l] = o <=> n = 1
    BY <1>0, <2>1
  <2> QED BY <1>0, <2>1, <2>2, <2>3
<1>e. e \notin Members(s) /\ \A i \in 1..Len(s) : s[i] # e
  BY <1>0, Reads
<1>4. ASSUME head'[l] = IF n = 1 THEN e ELSE s[1],
             Nexts(kind, t, next'), kind # "ll" => Prevs(t, prev')
      PROVE  Chain(kind, t, head'[l], next', prev')
  BY <1>0, <1>e, <1>4, ReplaceChain
<1>1. CASE kind = "ll" /\ LLReplaceElem(l, o, e)
  <2>0. prev' = [prev EXCEPT ![o] = Junk]
    BY <1>1 DEF LLReplaceElem, Free
  <2>1. CASE n = 1
    <3>1. /\ next' = [[next EXCEPT ![e] = next[o]] EXCEPT ![o] = Junk]
          /\ head' = [head EXCEPT ![l] = e]
      BY <1>o, <1>1, <2>1 DEF LLReplaceElem, Free, SetHead
    <3>2. /\ head'[l] = e /\ next'[e] = next[s[n]]
          /\ \A i \in 1..Len(s) : i # n => next'[s[i]] = next[s[i]]
      BY <1>0, <1>o, <1>e, <3>1 DEF FieldsOK
    <3>3. Nexts(kind, t, next')
      <4>1. ReplacesNext(kind, s, n, e, next, next')
        BY <1>0, <1>1, <2>1, <3>2 DEF ReplacesNext
      <4> QED BY <1>0, <4>1, ReplaceNexts
    <3>4. Only(l, e)
      BY <1>0, <1>o, <2>0, <3>1 DEF Only, FieldsOK, Pointer
    <3> QED BY <1>1, <1>4, <2>1, <3>2, <3>3, <3>4
  <2>2. CASE n > 1
    <3>1. /\ next' = [[next EXCEPT ![e] = next[o], ![s[n - 1]] = e] EXCEPT ![o] = Junk]
          /\ head' = head
      <4>1. n - 1 \in 1..Len(s) /\ n - 1 < Len(s) /\ (n - 1) + 1 = n
        BY <1>0, <2>2
      <4>2. Before(l, s[(n - 1) + 1]) = s[n - 1]
        BY <1>1, <4>1, BeforeIs
      <4>3. Before(l, o) = s[n - 1] /\ head[l] # o
        BY <1>o, <2>2, <4>1, <4>2
      <4> QED BY <1>1, <4>3 DEF LLReplaceElem, Free
    <3>2. /\ next'[e] = next[s[n]] /\ next'[s[n - 1]] = e
          /\ \A i \in 1..Len(s) : i # n /\ i # n - 1 => next'[s[i]] = next[s[i]]
      BY <1>0, <1>o, <1>e, <2>2, <3>1 DEF FieldsOK
    <3>3. Nexts(kind, t, next')
      <4>1. ReplacesNext(kind, s, n, e, next, next')
        BY <1>0, <1>1, <2>2, <3>2 DEF ReplacesNext
      <4> QED BY <1>0, <4>1, ReplaceNexts
    <3>4. Only(l, e)
      <4>1. s[n - 1] \in Elt /\ s[n - 1] \in In(l) /\ o \in In(l)
        BY <1>0, <2>2
      <4> QED BY <1>o, <2>0, <3>1, <4>1 DEF Only, FieldsOK, Pointer
    <3> QED BY <1>o, <1>1, <1>4, <2>2, <3>1, <3>3, <3>4
  <2> QED BY <1>0, <2>1, <2>2
<1>2. CASE kind = "dl" /\ DLReplaceElem(l, o, e)
  <2>1. CASE n = 1
    <3>1. /\ next' = [[next EXCEPT ![e] = next[o]] EXCEPT ![o] = Junk]
          /\ head' = [head EXCEPT ![l] = e]
      BY <1>o, <1>2, <2>1 DEF DLReplaceElem, Free, SetHead
    <3>2. /\ head'[l] = e /\ next'[e] = next[s[n]]
          /\ \A i \in 1..Len(s) : i # n => next'[s[i]] = next[s[i]]
      BY <1>0, <1>o, <1>e, <3>1 DEF FieldsOK
    <3>3. Nexts(kind, t, next')
      <4>1. ReplacesNext(kind, s, n, e, next, next')
        BY <1>0, <1>2, <2>1, <3>2 DEF ReplacesNext
      <4> QED BY <1>0, <4>1, ReplaceNexts
    <3>4. Prevs(t, prev') /\ FieldsOK'
              /\ \A x \in Elt \ (In(l) \cup {e}) : prev'[x] = prev[x]
      <4>1. CASE Len(s) = 1
        <5>1. prev' = [[prev EXCEPT ![e] = e] EXCEPT ![o] = Junk]
          BY <1>o, <1>2, <2>1, <4>1 DEF DLReplaceElem, Free
        <5>2. prev'[e] = e
          BY <1>0, <1>o, <1>e, <5>1 DEF FieldsOK
        <5>3. ReplacesPrev(s, n, e, prev, prev')
          BY <1>0, <2>1, <4>1, <5>2 DEF ReplacesPrev
        <5>4. Prevs(t, prev')
          BY <1>0, <1>2, <5>3, ReplacePrevs
        <5> QED BY <1>0, <1>o, <3>1, <5>1, <5>4 DEF FieldsOK, Pointer
      <4>2. CASE Len(s) > 1
        <5>0. s[2] \in Elt /\ s[2] \in In(l) /\ s[2] # NULL /\ s[2] # o /\ next[o] = s[2]
          BY <1>0, <1>o, <2>1, <4>2
        <5>1. prev' = [[prev EXCEPT ![e] = prev[o], ![s[2]] = e] EXCEPT ![o] = Junk]
          BY <1>o, <1>2, <2>1, <5>0 DEF DLReplaceElem, Free
        <5>2. /\ prev'[e] = prev[s[n]] /\ prev'[s[2]] = e
              /\ \A i \in 1..Len(s) : i # 1 /\ i # 2 => prev'[s[i]] = prev[s[i]]
          BY <1>0, <1>o, <1>e, <2>1, <4>2, <5>0, <5>1 DEF FieldsOK
        <5>3. ReplacesPrev(s, n, e, prev, prev')
          BY <1>0, <2>1, <4>2, <5>2 DEF ReplacesPrev
        <5>4. Prevs(t, prev')
          BY <1>0, <1>2, <5>3, ReplacePrevs
        <5>5. o \in In(l) /\ prev[o] \in Pointer /\ next[o] \in Pointer
          BY <1>0, <1>o DEF FieldsOK
        <5>6. FieldsOK'
          BY <1>o, <3>1, <5>0, <5>1, <5>5 DEF FieldsOK, Pointer
        <5>7. \A x \in Elt \ (In(l) \cup {e}) : prev'[x] = prev[x]
          BY <1>o, <5>0, <5>1, <5>5 DEF FieldsOK
        <5> QED BY <5>4, <5>6, <5>7
      <4>3. Len(s) = 1 \/ Len(s) > 1
        BY <1>0
      <4> QED BY <4>1, <4>2, <4>3
    <3>5. Only(l, e)
      BY <1>0, <1>o, <3>1, <3>4 DEF Only, FieldsOK
    <3> QED BY <1>2, <1>4, <2>1, <3>2, <3>3, <3>4, <3>5
  <2>2. CASE n > 1
    <3>0. PICK v \in 1..Len(s) : v = IF n < Len(s) THEN n + 1 ELSE 1
      BY <1>0
    <3>1. /\ next' = [[next EXCEPT ![e] = next[o], ![s[n - 1]] = e] EXCEPT ![o] = Junk]
          /\ prev' = [[prev EXCEPT ![e] = s[n - 1], ![s[v]] = e] EXCEPT ![o] = Junk]
          /\ head' = head
      <4>1. Successor(l, o) = s[v]
        BY <1>0, <1>o, <1>2, <3>0 DEF Successor
      <4>2. prev[o] = s[n - 1] /\ head[l] # o
        BY <1>o, <1>2, <2>2
      <4> QED BY <1>2, <4>1, <4>2 DEF DLReplaceElem, Free
    <3>2. /\ next'[e] = next[s[n]] /\ next'[s[n - 1]] = e
          /\ \A i \in 1..Len(s) : i # n /\ i # n - 1 => next'[s[i]] = next[s[i]]
      BY <1>0, <1>o, <1>e, <2>2, <3>1 DEF FieldsOK
    <3>3. Nexts(kind, t, next')
      <4>1. ReplacesNext(kind, s, n, e, next, next')
        BY <1>0, <1>2, <2>2, <3>2 DEF ReplacesNext
      <4> QED BY <1>0, <4>1, ReplaceNexts
    <3>4. /\ prev'[e] = prev[s[n]] /\ prev'[s[v]] = e
          /\ \A i \in 1..Len(s) : i # n /\ i # v => prev'[s[i]] = prev[s[i]]
      BY <1>0, <1>o, <1>e, <1>2, <2>2, <3>0, <3>1 DEF FieldsOK
    <3>5. Prevs(t, prev')
      <4>1. ReplacesPrev(s, n, e, prev, prev')
        BY <1>0, <2>2, <3>0, <3>4 DEF ReplacesPrev
      <4> QED BY <1>0, <1>2, <4>1, ReplacePrevs
    <3>6. Only(l, e)
      <4>1. /\ s[n - 1] \in Elt /\ s[n - 1] \in In(l) /\ o \in In(l)
            /\ s[v] \in Elt /\ s[v] \in In(l)
        BY <1>0, <2>2
      <4> QED BY <1>o, <3>1, <4>1 DEF Only, FieldsOK, Pointer
    <3> QED BY <1>o, <1>4, <2>2, <3>1, <3>3, <3>5, <3>6
  <2> QED BY <1>0, <2>1, <2>2
<1>3. CASE kind = "cdl" /\ CDLReplaceElem(l, o, e)
  <2>1. CASE Len(s) = 1
    <3>1. /\ next' = [[next EXCEPT ![e] = e] EXCEPT ![o] = Junk]
          /\ prev' = [[prev EXCEPT ![e] = e] EXCEPT ![o] = Junk]
          /\ head' = [head EXCEPT ![l] = e]
      <4>1. next[o] = o
        BY <1>0, <1>o, <1>3, <2>1
      <4> QED BY <1>3, <4>1 DEF CDLReplaceElem, Free, SetHead
    <3>2. head'[l] = e /\ next'[e] = e /\ prev'[e] = e /\ n = 1
      BY <1>0, <1>o, <1>e, <2>1, <3>1 DEF FieldsOK
    <3>3. ReplacesNext(kind, s, n, e, next, next') /\ ReplacesPrev(s, n, e, prev, prev')
      BY <1>0, <1>3, <2>1, <3>2 DEF ReplacesNext, ReplacesPrev
    <3>4. Nexts(kind, t, next') /\ Prevs(t, prev')
      BY <1>0, <1>3, <3>3, ReplaceNexts, ReplacePrevs
    <3>5. Only(l, e)
      BY <1>0, <1>o, <3>1 DEF Only, FieldsOK, Pointer
    <3> QED BY <1>4, <3>2, <3>4, <3>5
  <2>2. CASE Len(s) > 1
    <3>0. PICK v \in 1..Len(s), w \in 1..Len(s) :
             /\ v = IF n < Len(s) THEN n + 1 ELSE 1
             /\ w = IF n > 1 THEN n - 1 ELSE Len(s)
      BY <1>0
    <3>1. /\ next' = [[next EXCEPT ![e] = next[o], ![s[w]] = e] EXCEPT ![o] = Junk]
          /\ prev' = [[prev EXCEPT ![e] = prev[o], ![s[v]] = e] EXCEPT ![o] = Junk]
          /\ head' = [head EXCEPT ![l] = IF n = 1 THEN e ELSE s[1]]
      <4>1. next[o] = s[v] /\ prev[o] = s[w]
        BY <1>o, <1>3, <3>0
      <4>2. next[o] # o
        BY <1>0, <2>2, <3>0, <4>1
      <4> QED BY <1>o, <1>3, <4>1, <4>2 DEF CDLReplaceElem, Free, SetHead
    <3>n. n # v /\ n # w
      BY <1>0, <2>2, <3>0
    <3>2. /\ next'[e] = next[s[n]] /\ next'[s[w]] = e
          /\ \A i \in 1..Len(s) : i # n /\ i # w => next'[s[i]] = next[s[i]]
      BY <1>0, <1>o, <1>e, <3>n, <3>1 DEF FieldsOK
    <3>3. Nexts(kind, t, next')
      <4>1. ReplacesNext(kind, s, n, e, next, next')
        BY <1>0, <1>3, <2>2, <3>0, <3>2 DEF ReplacesNext
      <4> QED BY <1>0, <4>1, ReplaceNexts
    <3>4. /\ prev'[e] = prev[s[n]] /\ prev'[s[v]] = e
          /\ \A i \in 1..Len(s) : i # n /\ i # v => prev'[s[i]] = prev[s[i]]
      BY <1>0, <1>o, <1>e, <3>n, <3>1 DEF FieldsOK
    <3>5. Prevs(t, prev')
      <4>1. ReplacesPrev(s, n, e, prev, prev')
        BY <1>0, <2>2, <3>0, <3>4 DEF ReplacesPrev
      <4> QED BY <1>0, <1>3, <4>1, ReplacePrevs
    <3>6. Only(l, e)
      BY <1>0, <1>o, <3>1, SMTT(60) DEF Only, FieldsOK, Pointer
    <3>7. head'[l] = IF n = 1 THEN e ELSE s[1]
      BY <3>1 DEF FieldsOK
    <3> QED BY <1>4, <3>3, <3>5, <3>6, <3>7
  <2>3. Len(s) = 1 \/ Len(s) > 1
    BY <1>0
  <2> QED BY <2>1, <2>2, <2>3
<1> QED BY <1>1, <1>2, <1>3

LEMMA DeleteKeeps ==
  ASSUME FieldsOK, NEW l \in List, NEW s, Holds(l, s),
         NEW n \in 1..Len(s), NEW o, o = s[n],
         \/ kind = "ll" /\ LLDelete(l, o)
         \/ kind = "dl" /\ DLDelete(l, o)
         \/ kind = "cdl" /\ CDLDelete(l, o)
  PROVE  Chain(kind, Removed(s, n), head'[l], next', prev') /\ Only(l, o)
<1> DEFINE t == Removed(s, n)
<1>0. /\ s \in Seq(Elt) /\ Len(s) \in Nat /\ Distinct(s) /\ 1 \in 1..Len(s)
      /\ \A i \in 1..Len(s) : s[i] \in Elt /\ s[i] \in In(l) /\ s[i] # NULL
      /\ \A i, j \in 1..Len(s) : s[i] = s[j] => i = j
      /\ Nexts(kind, s, next) /\ (kind # "ll" => Prevs(s, prev))
  BY ReadsAt
<1>o. /\ head[l] = s[1] /\ (head[l] = o <=> n = 1) /\ o \in Elt
      /\ next[o] = IF n < Len(s) THEN s[n + 1] ELSE IF kind = "cdl" THEN s[1] ELSE NULL
      /\ kind # "ll" => prev[o] = IF n > 1 THEN s[n - 1] ELSE s[Len(s)]
  <2>1. head[l] = s[1]
    BY <1>0, Reads
  <2>2. /\ next[o] = IF n < Len(s) THEN s[n + 1] ELSE IF kind = "cdl" THEN s[1] ELSE NULL
        /\ kind # "ll" => prev[o] = IF n > 1 THEN s[n - 1] ELSE s[Len(s)]
    BY Reads
  <2>3. head[l] = o <=> n = 1
    BY <1>0, <2>1
  <2> QED BY <1>0, <2>1, <2>2, <2>3
<1>4. ASSUME head'[l] = IF n > 1 THEN s[1] ELSE IF Len(s) > 1 THEN s[2] ELSE NULL,
             Nexts(kind, t, next'), kind # "ll" => Prevs(t, prev')
      PROVE  Chain(kind, t, head'[l], next', prev')
  BY <1>0, <1>4, RemoveChain
<1>8. Len(s) \in Nat /\ 1 \in 1..Len(s)
  BY <1>0
<1>5. Len(s) = 1 \/ Len(s) > 1
  BY <1>8
<1>6. o \in In(l) /\ prev[o] \in Pointer /\ next[o] \in Pointer
  BY <1>0, <1>o DEF FieldsOK
<1>7. n \in Nat /\ (n = 1 \/ n > 1)
  BY <1>0
<1>1. CASE kind = "ll" /\ LLDelete(l, o)
  <2>0. prev' = [prev EXCEPT ![o] = Junk]
    BY <1>1 DEF LLDelete, Free
  <2>1. CASE n = 1
    <3>1. /\ next' = [next EXCEPT ![o] = Junk]
          /\ head' = [head EXCEPT ![l] = next[o]]
      BY <1>o, <1>1, <2>1 DEF LLDelete, Free, SetHead
    <3>2. \A i \in 1..Len(s) : i # n => next'[s[i]] = next[s[i]]
      BY <1>0, <1>o, <3>1 DEF FieldsOK
    <3>3. Nexts(kind, t, next')
      <4>1. RemovesNext(kind, s, n, next, next')
        BY <1>1, <2>1, <3>2 DEF RemovesNext
      <4> QED BY <1>0, <4>1, RemoveNexts
    <3>4. head'[l] = IF Len(s) > 1 THEN s[2] ELSE NULL
      BY <1>o, <1>1, <2>1, <3>1 DEF FieldsOK
    <3>5. next[o] \in Elt \cup {NULL}
      BY <1>0, <1>o, <1>1
    <3>6. Only(l, o)
      BY <1>o, <1>6, <2>0, <3>1, <3>5 DEF Only, FieldsOK, Pointer
    <3> QED BY <1>1, <1>4, <2>1, <3>3, <3>4, <3>6
  <2>2. CASE n > 1
    <3>0. n - 1 \in 1..Len(s) /\ n - 1 < Len(s) /\ (n - 1) + 1 = n
      BY <1>0, <2>2
    <3>1. /\ next' = [[next EXCEPT ![s[n - 1]] = next[o]] EXCEPT ![o] = Junk]
          /\ head' = head
      <4>2. Before(l, s[(n - 1) + 1]) = s[n - 1]
        BY <1>1, <3>0, BeforeIs
      <4>3. Before(l, o) = s[n - 1] /\ head[l] # o
        BY <1>o, <2>2, <3>0, <4>2
      <4> QED BY <1>1, <4>3 DEF LLDelete, Free
    <3>2. /\ next'[s[n - 1]] = next[s[n]]
          /\ \A i \in 1..Len(s) : i # n /\ i # n - 1 => next'[s[i]] = next[s[i]]
      BY <1>0, <1>o, <3>0, <3>1 DEF FieldsOK
    <3>3. Nexts(kind, t, next')
      <4>1. RemovesNext(kind, s, n, next, next')
        BY <1>0, <2>2, <3>2 DEF RemovesNext
      <4> QED BY <1>0, <4>1, RemoveNexts
    <3>4. Only(l, o)
      <4>1. s[n - 1] \in Elt /\ s[n - 1] \in In(l)
        BY <1>0, <3>0
      <4> QED BY <1>o, <1>6, <2>0, <3>1, <4>1 DEF Only, FieldsOK, Pointer
    <3> QED BY <1>o, <1>1, <1>4, <2>2, <3>1, <3>3, <3>4
  <2> QED BY <1>7, <2>1, <2>2
<1>2. CASE Len(s) = 1 /\ ((kind = "dl" /\ DLDelete(l, o)) \/ (kind = "cdl" /\ CDLDelete(l, o)))
  <2>0. n = 1 /\ s[Len(s)] = s[1] /\ s[n] = s[1] /\ ~(n > 1) /\ ~(n < Len(s))
    BY <1>0, <1>2
  <2>1. /\ next' = [next EXCEPT ![o] = Junk] /\ prev' = [prev EXCEPT ![o] = Junk]
        /\ head' = [head EXCEPT ![l] = NULL]
    <3>1. head[l] = o /\ (kind = "dl" => prev[o] = o) /\ (kind = "cdl" => next[o] = o)
      BY <1>o, <2>0
    <3> QED BY <1>2, <3>1 DEF DLDelete, CDLDelete, Free, SetHead
  <2>2. \A i \in 1..Len(s) : i = n
    BY <1>0, <1>2, <2>0
  <2>3. Nexts(kind, t, next')
    <3>1. RemovesNext(kind, s, n, next, next')
      BY <1>2, <2>0, <2>2 DEF RemovesNext
    <3> QED BY <1>0, <3>1, RemoveNexts
  <2>4. Prevs(t, prev')
    <3>1. RemovesPrev(s, n, prev, prev')
      BY <1>2, <2>0, <2>2 DEF RemovesPrev
    <3> QED BY <1>0, <1>2, <3>1, RemovePrevs
  <2>5. Only(l, o)
    BY <1>o, <1>6, <2>1 DEF Only, FieldsOK, Pointer
  <2>6. head'[l] = NULL /\ ~(Len(s) > 1)
    BY <1>2, <2>1 DEF FieldsOK
  <2> QED BY <1>4, <2>0, <2>3, <2>4, <2>5, <2>6
<1>3. CASE Len(s) > 1 /\ ((kind = "dl" /\ DLDelete(l, o)) \/ (kind = "cdl" /\ CDLDelete(l, o)))
  <2>0. PICK v \in 1..Len(s), w \in 1..Len(s) :
           /\ v = IF n < Len(s) THEN n + 1 ELSE 1
           /\ w = IF n > 1 THEN n - 1 ELSE Len(s)
    BY <1>0
  <2>1. n # v /\ n # w /\ s[v] # o /\ s[w] # o
    <3>1. n # v /\ n # w
      BY <1>0, <1>3, <2>0
    <3> QED BY <1>0, <3>1
  <2>2. prev[o] = s[w] /\ (kind = "cdl" \/ n < Len(s) => next[o] = s[v])
    BY <1>0, <1>o, <1>3, <2>0
  <2>3. prev' = [[prev EXCEPT ![s[v]] = s[w]] EXCEPT ![o] = Junk]
    <3>1. CASE kind = "cdl"
      BY <1>3, <2>1, <2>2, <3>1 DEF CDLDelete, Free
    <3>2. CASE kind = "dl" /\ n = 1
      BY <1>o, <1>3, <2>1, <2>2, <3>2 DEF DLDelete, Free
    <3>3. CASE kind = "dl" /\ n > 1
      <4>1. Successor(l, o) = s[v]
        BY <1>0, <1>o, <2>0, <3>3 DEF Successor
      <4> QED BY <1>o, <1>3, <2>1, <2>2, <3>3, <4>1 DEF DLDelete, Free
    <3> QED BY <1>3, <1>7, <3>1, <3>2, <3>3
  <2>4. /\ prev'[s[v]] = s[w]
        /\ \A i \in 1..Len(s) : i # n /\ i # v => prev'[s[i]] = prev[s[i]]
    BY <1>0, <1>o, <2>1, <2>3 DEF FieldsOK
  <2>5. Prevs(t, prev')
    <3>1. RemovesPrev(s, n, prev, prev')
      <4>1. n < Len(s) => v = n + 1
        BY <2>0
      <4>2. n = Len(s) /\ n > 1 => v = 1 /\ w = n - 1
        BY <2>0
      <4>3. n \in Nat /\ Len(s) \in Nat /\ (n < Len(s) \/ n = Len(s))
        BY <1>0
      <4> QED BY <2>2, <2>4, <4>1, <4>2, <4>3, <1>3 DEF RemovesPrev
    <3> QED BY <1>0, <1>3, <3>1, RemovePrevs
  <2>6. /\ head' = [head EXCEPT ![l] = IF n = 1 THEN s[2] ELSE s[1]]
        /\ \/ kind = "dl" /\ n = 1 /\ next' = [next EXCEPT ![o] = Junk]
           \/ /\ kind = "cdl" \/ n > 1
              /\ next' = [[next EXCEPT ![s[w]] = next[o]] EXCEPT ![o] = Junk]
    <3>0. n = 1 => next[o] = s[2]
      BY <1>o, <1>3
    <3>1. CASE kind = "cdl"
      BY <1>o, <1>3, <2>1, <2>2, <3>0, <3>1 DEF CDLDelete, Free, SetHead
    <3>2. CASE kind = "dl" /\ n = 1
      BY <1>o, <1>3, <2>1, <2>2, <3>0, <3>2 DEF DLDelete, Free, SetHead
    <3>3. CASE kind = "dl" /\ n > 1
      <4>1. head' = head /\ head = [head EXCEPT ![l] = s[1]]
        BY <1>o, <1>3, <2>1, <2>2, <3>3 DEF DLDelete, FieldsOK
      <4> QED BY <1>o, <1>3, <2>1, <2>2, <3>3, <4>1 DEF DLDelete, Free
    <3> QED BY <1>3, <1>7, <3>1, <3>2, <3>3
  <2>7. Nexts(kind, t, next')
    <3>1. CASE kind = "dl" /\ n = 1 /\ next' = [next EXCEPT ![o] = Junk]
      <4>1. \A i \in 1..Len(s) : i # n => next'[s[i]] = next[s[i]]
        BY <1>0, <1>o, <3>1 DEF FieldsOK
      <4>2. RemovesNext(kind, s, n, next, next')
        BY <3>1, <4>1 DEF RemovesNext
      <4> QED BY <1>0, <4>2, RemoveNexts
    <3>2. CASE /\ kind = "cdl" \/ n > 1
               /\ next' = [[next EXCEPT ![s[w]] = next[o]] EXCEPT ![o] = Junk]
      <4>1. /\ next'[s[w]] = next[o]
            /\ \A i \in 1..Len(s) : i # n /\ i # w => next'[s[i]] = next[s[i]]
        BY <1>0, <1>o, <2>1, <3>2 DEF FieldsOK
      <4>2. n = 1 => next[o] = s[2]
        BY <1>o, <1>3
      <4>3. RemovesNext(kind, s, n, next, next')
        <5>1. n > 1 => next'[s[n - 1]] = next[s[n]]
          BY <2>0, <4>1
        <5>2. n = 1 => next'[s[Len(s)]] = s[2]
          BY <2>0, <4>1, <4>2
        <5>3. \A i \in 1..Len(s) : \/ i = n \/ i = n - 1
                                   \/ n = 1 /\ kind = "cdl" /\ i = Len(s)
                                   \/ next'[s[i]] = next[s[i]]
          BY <1>7, <2>0, <3>2, <4>1
        <5> QED BY <5>1, <5>2, <5>3 DEF RemovesNext
      <4> QED BY <1>0, <4>3, RemoveNexts
    <3> QED BY <2>6, <3>1, <3>2
  <2>8. Only(l, o)
    <3>1. /\ s[v] \in Elt /\ s[v] \in In(l) /\ s[w] \in Elt /\ s[w] \in In(l)
          /\ s[1] \in Elt /\ s[2] \in Elt
      BY <1>0, <1>3
    <3>2. FieldsOK'
      BY <1>o, <1>6, <2>3, <2>6, <3>1 DEF FieldsOK, Pointer
    <3>3. /\ \A m \in List \ {l} : head'[m] = head[m]
          /\ \A x \in Elt \ (In(l) \cup {o}) : next'[x] = next[x] /\ prev'[x] = prev[x]
      BY <1>o, <1>6, <2>3, <2>6, <3>1 DEF FieldsOK
    <3> QED BY <3>2, <3>3 DEF Only
  <2>9. head'[l] = IF n > 1 THEN s[1] ELSE s[2]
    BY <1>7, <2>6 DEF FieldsOK
  <2>10. head'[l] = IF n > 1 THEN s[1] ELSE IF Len(s) > 1 THEN s[2] ELSE NULL
    BY <1>3, <2>9
  <2> QED BY <1>4, <2>5, <2>7, <2>8, <2>10
<1> QED BY <1>1, <1>2, <1>3, <1>5

LEMMA JoinedFacts ==
  ASSUME NEW s \in Seq(Elt), NEW r \in Seq(Elt), Distinct(s), Distinct(r),
         Members(s) \cap Members(r) = {}
  PROVE  /\ s \o r \in Seq(Elt) /\ Len(s \o r) = Len(s) + Len(r)
         /\ \A i \in 1..Len(s) : (s \o r)[i] = s[i]
         /\ \A i \in 1..Len(r) : (s \o r)[Len(s) + i] = r[i]
         /\ Members(s \o r) = Members(s) \cup Members(r)
         /\ Distinct(s \o r)
<1> DEFINE t == s \o r
<1>1. t \in Seq(Elt) /\ Len(t) = Len(s) + Len(r) /\ Len(s) \in Nat /\ Len(r) \in Nat
  BY ConcatProperties
<1>2. \A i \in 1..Len(s) + Len(r) : t[i] = IF i <= Len(s) THEN s[i] ELSE r[i - Len(s)]
  BY ConcatProperties
<1> HIDE DEF t
<1>3. \A i \in 1..Len(s) : t[i] = s[i]
  BY <1>1, <1>2
<1>4. ASSUME NEW i \in 1..Len(r)
      PROVE  t[Len(s) + i] = r[i]
  <2>1. Len(s) + i \in 1..Len(s) + Len(r) /\ ~(Len(s) + i <= Len(s))
        /\ (Len(s) + i) - Len(s) = i
    BY <1>1
  <2> QED BY <2>1, <1>2
<1>5. ASSUME NEW i \in 1..Len(t)
      PROVE  \/ i \in 1..Len(s) /\ t[i] = s[i]
             \/ i > Len(s) /\ i - Len(s) \in 1..Len(r) /\ t[i] = r[i - Len(s)]
  BY <1>1, <1>2
<1>6. Members(t) = Members(s) \cup Members(r)
  <2>1. \A x \in Members(t) : x \in Members(s) \cup Members(r)
    BY <1>5 DEF Members
  <2>2. \A x \in Members(s) : x \in Members(t)
    <3>1. \A i \in 1..Len(s) : i \in 1..Len(t)
      BY <1>1
    <3> QED BY <1>3, <3>1 DEF Members
  <2>3. \A x \in Members(r) : x \in Members(t)
    <3>1. \A i \in 1..Len(r) : Len(s) + i \in 1..Len(t)
      BY <1>1
    <3> QED BY <1>4, <3>1 DEF Members
  <2> QED BY <2>1, <2>2, <2>3
<1>7. ASSUME NEW i \in 1..Len(t), NEW j \in 1..Len(t), t[i] = t[j]
      PROVE  i = j
  <2>1. \A a \in 1..Len(s), b \in 1..Len(r) : s[a] # r[b]
    BY DEF Members
  <2>2. CASE i \in 1..Len(s) /\ j \in 1..Len(s)
    BY <1>3, <1>7, <2>2 DEF Distinct
  <2>3. CASE i - Len(s) \in 1..Len(r) /\ j - Len(s) \in 1..Len(r)
             /\ t[i] = r[i - Len(s)] /\ t[j] = r[j - Len(s)]
    <3>1. i - Len(s) = j - Len(s)
      BY <1>7, <2>3 DEF Distinct
    <3> QED BY <3>1, <1>1
  <2> QED BY <1>5, <1>7, <2>1, <2>2, <2>3
<1> QED BY <1>1, <1>3, <1>4, <1>6, <1>7 DEF Distinct, t

LEMMA JoinedIsOne ==
  ASSUME NEW s \in Seq(Elt)
  PROVE  s \o <<>> = s /\ <<>> \o s = s
  BY ConcatEmptySeq

LEMMA ConcatKeeps ==
  ASSUME FieldsOK, NEW l \in List, NEW m \in List, l # m, NEW s, NEW r,
         Holds(l, s), Holds(m, r),
         \/ kind = "ll" /\ LLConcat(l, m)
         \/ kind = "dl" /\ DLConcat(l, m)
  PROVE  /\ Chain(kind, s \o r, head'[l], next', prev') /\ FieldsOK'
         /\ head'[m] = NULL /\ \A k \in List \ {l, m} : head'[k] = head[k]
         /\ \A x \in Elt \ (In(l) \cup In(m)) : next'[x] = next[x] /\ prev'[x] = prev[x]
         /\ Members(s \o r) = In(l) \cup In(m)
<1> DEFINE t == s \o r
<1>1. /\ s \in Seq(Elt) /\ Len(s) \in Nat /\ Distinct(s) /\ Members(s) = In(l)
      /\ \A i \in 1..Len(s) : s[i] \in Elt /\ s[i] \in In(l) /\ s[i] # NULL
      /\ \A i, j \in 1..Len(s) : s[i] = s[j] => i = j
      /\ \A i \in 1..Len(s) : next[s[i]] = IF i < Len(s) THEN s[i + 1] ELSE NULL
      /\ kind = "dl" => \A i \in 1..Len(s) :
                          prev[s[i]] = IF i > 1 THEN s[i - 1] ELSE s[Len(s)]
      /\ head[l] = IF Len(s) = 0 THEN NULL ELSE s[1]
  BY Reads DEF Holds
<1>2. /\ r \in Seq(Elt) /\ Len(r) \in Nat /\ Distinct(r) /\ Members(r) = In(m)
      /\ \A i \in 1..Len(r) : r[i] \in Elt /\ r[i] \in In(m) /\ r[i] # NULL
      /\ \A i, j \in 1..Len(r) : r[i] = r[j] => i = j
      /\ \A i \in 1..Len(r) : next[r[i]] = IF i < Len(r) THEN r[i + 1] ELSE NULL
      /\ kind = "dl" => \A i \in 1..Len(r) :
                          prev[r[i]] = IF i > 1 THEN r[i - 1] ELSE r[Len(r)]
      /\ head[m] = IF Len(r) = 0 THEN NULL ELSE r[1]
  BY Reads DEF Holds
<1>3. In(l) \cap In(m) = {}
  BY DEF In
<1>4. /\ t \in Seq(Elt) /\ Len(t) = Len(s) + Len(r)
      /\ \A i \in 1..Len(s) : t[i] = s[i]
      /\ \A i \in 1..Len(r) : t[Len(s) + i] = r[i]
      /\ Members(t) = In(l) \cup In(m)
      /\ Distinct(t)
  BY <1>1, <1>2, <1>3, JoinedFacts
<1>5. head' = [head EXCEPT ![l] = IF head[l] = NULL THEN head[m] ELSE head[l], ![m] = NULL]
  <2>1. CASE kind = "ll" /\ LLConcat(l, m)
    <3>1. CASE head[l] = NULL
      BY <2>1, <3>1 DEF LLConcat
    <3>2. CASE head[l] # NULL
      BY <2>1, <3>2 DEF LLConcat, SetHead, FieldsOK
    <3> QED BY <3>1, <3>2
  <2>2. CASE kind = "dl" /\ DLConcat(l, m)
    <3>1. CASE head[m] # NULL /\ head[l] # NULL
      BY <2>2, <3>1 DEF DLConcat, SetHead, FieldsOK
    <3>2. CASE head[m] = NULL \/ head[l] = NULL
      BY <2>2, <3>2 DEF DLConcat, FieldsOK
    <3> QED BY <3>1, <3>2
  <2> QED BY <2>1, <2>2
<1>6. head'[l] = IF Len(t) = 0 THEN NULL ELSE t[1]
  <2>1. head'[l] = IF head[l] = NULL THEN head[m] ELSE head[l]
    BY <1>5 DEF FieldsOK
  <2>2. CASE Len(s) = 0
    <3>1. head'[l] = head[m] /\ Len(t) = Len(r)
      BY <1>1, <1>2, <1>4, <2>1, <2>2
    <3>2. Len(r) > 0 => t[1] = r[1]
      <4>1. Len(s) + 1 = 1
        BY <2>2
      <4> QED BY <1>2, <1>4, <4>1
    <3> QED BY <1>2, <3>1, <3>2
  <2>3. CASE Len(s) > 0
    BY <1>1, <1>2, <1>4, <2>1, <2>3
  <2> QED BY <1>1, <2>2, <2>3
<1>7. head'[m] = NULL /\ \A k \in List \ {l, m} : head'[k] = head[k]
  BY <1>5 DEF FieldsOK
<1>8. CASE Len(s) > 0 /\ Len(r) > 0
  <2>1. next' = [next EXCEPT ![s[Len(s)]] = r[1]]
    <3>1. CASE kind = "ll" /\ LLConcat(l, m)
      <4>1. Before(l, NULL) = s[Len(s)]
        BY <1>1, <1>8, <3>1, BeforeIs
      <4> QED BY <1>1, <1>2, <1>8, <3>1, <4>1 DEF LLConcat
    <3>2. CASE kind = "dl" /\ DLConcat(l, m)
      BY <1>1, <1>2, <1>8, <3>2 DEF DLConcat
    <3> QED BY <3>1, <3>2
  <2>2. \/ kind = "ll" /\ prev' = prev
        \/ kind = "dl" /\ prev' = [prev EXCEPT ![r[1]] = s[Len(s)], ![s[1]] = r[Len(r)]]
    <3>1. CASE kind = "ll" /\ LLConcat(l, m)
      BY <3>1 DEF LLConcat
    <3>2. CASE kind = "dl" /\ DLConcat(l, m)
      BY <1>1, <1>2, <1>8, <3>2 DEF DLConcat
    <3> QED BY <3>1, <3>2
  <2>3. \A i \in 1..Len(s), j \in 1..Len(r) : s[i] # r[j]
    BY <1>1, <1>2, <1>3
  <2>4. /\ next'[s[Len(s)]] = r[1]
        /\ \A i \in 1..Len(s) : i # Len(s) => next'[s[i]] = next[s[i]]
        /\ \A i \in 1..Len(r) : next'[r[i]] = next[r[i]]
    BY <1>1, <1>2, <1>8, <2>1, <2>3 DEF FieldsOK
  <2>5. kind = "dl" =>
          /\ prev'[r[1]] = s[Len(s)] /\ prev'[s[1]] = r[Len(r)]
          /\ \A i \in 1..Len(s) : i # 1 => prev'[s[i]] = prev[s[i]]
          /\ \A i \in 1..Len(r) : i # 1 => prev'[r[i]] = prev[r[i]]
    BY <1>1, <1>2, <1>8, <2>2, <2>3 DEF FieldsOK
  <2>6. ASSUME NEW i \in 1..Len(t)
        PROVE  i \in 1..Len(s) \/ (\E j \in 1..Len(r) : i = Len(s) + j)
    <3>1. i \in 1..Len(s) \/ (i - Len(s) \in 1..Len(r) /\ i = Len(s) + (i - Len(s)))
      BY <1>1, <1>2, <1>4
    <3> QED BY <3>1
  <2>7. ASSUME NEW i \in 1..Len(t)
        PROVE  next'[t[i]] = IF i < Len(t) THEN t[i + 1] ELSE NULL
    <3>1. CASE i \in 1..Len(s) /\ i < Len(s)
      BY <1>1, <1>2, <1>4, <1>8, <2>4, <3>1
    <3>2. CASE i = Len(s)
      BY <1>1, <1>2, <1>4, <1>8, <2>4, <3>2
    <3>3. ASSUME NEW j \in 1..Len(r), i = Len(s) + j
          PROVE  next'[t[i]] = IF i < Len(t) THEN t[i + 1] ELSE NULL
      <4>1. t[i] = r[j] /\ next'[r[j]] = next[r[j]]
        BY <1>4, <2>4, <3>3
      <4>2. CASE j < Len(r)
        <5>1. j + 1 \in 1..Len(r) /\ i + 1 = Len(s) + (j + 1) /\ i < Len(t)
          BY <1>1, <1>2, <1>4, <3>3, <4>2
        <5>2. t[i + 1] = r[j + 1]
          BY <1>4, <5>1
        <5> QED BY <1>2, <4>1, <4>2, <5>1, <5>2
      <4>3. CASE j = Len(r)
        <5>1. i = Len(t)
          BY <1>4, <3>3, <4>3
        <5> QED BY <1>1, <1>2, <1>4, <4>1, <4>3, <5>1
      <4> QED BY <1>2, <4>2, <4>3
    <3>4. i \in 1..Len(s) => i < Len(s) \/ i = Len(s)
      BY <1>1
    <3> QED BY <2>6, <3>1, <3>2, <3>3, <3>4
  <2>8. ASSUME kind = "dl", NEW i \in 1..Len(t)
        PROVE  prev'[t[i]] = IF i > 1 THEN t[i - 1] ELSE t[Len(t)]
    <3>1. CASE i \in 1..Len(s) /\ i > 1
      <4>1. i - 1 \in 1..Len(s) /\ prev'[s[i]] = prev[s[i]]
        BY <1>1, <2>5, <2>8, <3>1
      <4>2. prev[s[i]] = s[i - 1] /\ t[i] = s[i] /\ t[i - 1] = s[i - 1]
        BY <1>1, <1>4, <2>8, <3>1, <4>1
      <4> QED BY <3>1, <4>1, <4>2
    <3>2. CASE i = 1
      <4>1. t[1] = s[1] /\ t[Len(t)] = r[Len(r)]
        BY <1>1, <1>2, <1>4, <1>8
      <4> QED BY <2>5, <2>8, <3>2, <4>1
    <3>3. ASSUME NEW j \in 1..Len(r), i = Len(s) + j
          PROVE  prev'[t[i]] = IF i > 1 THEN t[i - 1] ELSE t[Len(t)]
      <4>1. t[i] = r[j] /\ i > 1
        BY <1>1, <1>4, <1>8, <3>3
      <4>2. CASE j = 1
        <5>1. i - 1 = Len(s) /\ t[Len(s)] = s[Len(s)]
          BY <1>1, <1>4, <1>8, <3>3, <4>2
        <5> QED BY <2>5, <2>8, <4>1, <4>2, <5>1
      <4>3. CASE j > 1
        <5>1. j - 1 \in 1..Len(r) /\ i - 1 = Len(s) + (j - 1)
          BY <1>1, <1>2, <3>3, <4>3
        <5>2. t[i - 1] = r[j - 1]
          BY <1>4, <5>1
        <5>3. prev'[r[j]] = prev[r[j]] /\ prev[r[j]] = r[j - 1]
          BY <1>2, <2>5, <2>8, <4>3
        <5> QED BY <4>1, <5>2, <5>3
      <4> QED BY <1>2, <4>2, <4>3
    <3>4. i \in 1..Len(s) => i > 1 \/ i = 1
      BY <1>1
    <3> QED BY <2>6, <3>1, <3>2, <3>3, <3>4
  <2>9. kind # "cdl"
    OBVIOUS
  <2>10. Nexts(kind, t, next') /\ (kind # "ll" => Prevs(t, prev'))
    <3>1. Nexts(kind, t, next')
      BY <2>7, <2>9 DEF Nexts
    <3>2. kind # "ll" => Prevs(t, prev')
      BY <2>2, <2>8 DEF Prevs
    <3> QED BY <3>1, <3>2
  <2>11. FieldsOK'
    <3>1. head' \in [List -> Elt \cup {NULL}]
      BY <1>5 DEF FieldsOK
    <3>2. s[Len(s)] \in Elt /\ r[1] \in Elt /\ r[Len(r)] \in Elt /\ s[1] \in Elt
      BY <1>1, <1>2, <1>8
    <3> QED BY <2>1, <2>2, <3>1, <3>2 DEF FieldsOK, Pointer
  <2>12. \A x \in Elt \ (In(l) \cup In(m)) : next'[x] = next[x] /\ prev'[x] = prev[x]
    <3>1. s[Len(s)] \in In(l) /\ s[1] \in In(l) /\ r[1] \in In(m)
      BY <1>1, <1>2, <1>8
    <3> QED BY <2>1, <2>2, <3>1 DEF FieldsOK
  <2> QED BY <1>4, <1>6, <1>7, <2>10, <2>11, <2>12 DEF Chain
<1>9. CASE Len(s) = 0 \/ Len(r) = 0
  <2>1. prev' = prev /\ next' = next
    <3>1. CASE kind = "ll" /\ LLConcat(l, m)
      <4>1. CASE Len(s) = 0
        BY <1>1, <3>1, <4>1 DEF LLConcat
      <4>2. CASE Len(s) > 0
        <5>1. Before(l, NULL) = s[Len(s)]
          BY <1>1, <3>1, <4>2, BeforeIs
        <5>2. next' = [next EXCEPT ![s[Len(s)]] = NULL] /\ prev' = prev
          BY <1>1, <1>2, <1>9, <3>1, <4>2, <5>1 DEF LLConcat
        <5>3. next[s[Len(s)]] = NULL /\ s[Len(s)] \in Elt
          BY <1>1, <4>2
        <5> QED BY <5>2, <5>3 DEF FieldsOK
      <4> QED BY <1>1, <4>1, <4>2
    <3>2. CASE kind = "dl" /\ DLConcat(l, m)
      BY <1>1, <1>2, <1>9, <3>2 DEF DLConcat
    <3> QED BY <3>1, <3>2
  <2>2. t = s \/ t = r
    <3>1. CASE Len(s) = 0
      <4>1. s = <<>>
        BY <1>1, <3>1
      <4> QED BY <1>2, <4>1, JoinedIsOne
    <3>2. CASE Len(r) = 0
      <4>1. r = <<>>
        BY <1>2, <3>2
      <4> QED BY <1>1, <4>1, JoinedIsOne
    <3> QED BY <1>9, <3>1, <3>2
  <2>3. Nexts(kind, t, next') /\ (kind # "ll" => Prevs(t, prev'))
    <3>1. /\ Nexts(kind, s, next) /\ (kind # "ll" => Prevs(s, prev))
          /\ Nexts(kind, r, next) /\ (kind # "ll" => Prevs(r, prev))
      BY DEF Holds, Chain
    <3> HIDE DEF t
    <3> QED BY <2>1, <2>2, <3>1
  <2>4. FieldsOK'
    BY <1>5, <2>1 DEF FieldsOK
  <2> QED BY <1>4, <1>6, <1>7, <2>1, <2>3, <2>4 DEF Chain
<1> QED BY <1>1, <1>2, <1>8, <1>9

-----------------------------------------------------------------------------
(* The elements of a list in the order of their links are its sequence.    *)

\* A set of naturals that is not empty has a least member.
LEMMA LeastNumber ==
  ASSUME NEW S \in SUBSET Nat, S # {}
  PROVE  \E n \in S : \A m \in S : n <= m
<1> DEFINE R == OpToRel(<, Nat)
<1>1. PICK n \in S : \A m \in S : ~(<<m, n>> \in R)
  BY NatLessThanWellFounded, WFMin
<1>2. ASSUME NEW m \in S
      PROVE  n <= m
  <2>1. <<m, n>> \in Nat \X Nat
    OBVIOUS
  <2>2. ~(m < n)
    BY <1>1, <2>1 DEF OpToRel
  <2> QED BY <2>2
<1> QED BY <1>2

LEMMA CardinalityOfInterval ==
  ASSUME NEW n \in Nat
  PROVE  Cardinality(1..n) = n
<1>1. Cardinality(1..n) = IF 1 > n THEN 0 ELSE n - 1 + 1
  BY FS_Interval
<1> QED BY <1>1

LEMMA NoMoreThanElements ==
  ASSUME NEW s \in Seq(Elt), Distinct(s)
  PROVE  Cardinality(Elt) \in Nat /\ Len(s) <= Cardinality(Elt)
<1>1. Cardinality(Elt) \in Nat
  BY EltAssumption, FS_CardinalityType
<1>2. s \in [1..Len(s) -> Elt] /\ Len(s) \in Nat
  BY LenProperties
<1>3. IsInjective(s)
  BY <1>2 DEF IsInjective, Distinct
<1>4. Cardinality(1..Len(s)) = Len(s)
  BY <1>2, CardinalityOfInterval
<1>5. s \in Injection(1..Len(s), Elt)
  BY <1>2, <1>3 DEF Injection
<1>6. Cardinality(1..Len(s)) <= Cardinality(Elt)
  BY <1>5, EltAssumption, FS_Injection
<1> QED BY <1>1, <1>4, <1>6

LEMMA ContentsIs ==
  ASSUME FieldsOK, NEW l \in List, NEW s, Holds(l, s)
  PROVE  Contents(l) = s
<1> DEFINE C == Cardinality(Elt)
           step(f, n) == IF n = 1 THEN head[l]
                         ELSE IF f[n - 1] \in Elt THEN After(f[n - 1], head[l]) ELSE NULL
           at == CHOOSE f : f = [n \in 1..C |-> step(f, n)]
           g == [n \in 1..C |-> IF n <= Len(s) THEN s[n] ELSE NULL]
<1>1. /\ s \in Seq(Elt) /\ Len(s) \in Nat /\ Distinct(s)
      /\ \A i \in 1..Len(s) : s[i] \in Elt /\ s[i] # NULL
      /\ \A i, j \in 1..Len(s) : s[i] = s[j] => i = j
      /\ \A i \in 1..Len(s) :
           next[s[i]] = IF i < Len(s) THEN s[i + 1] ELSE IF kind = "cdl" THEN s[1] ELSE NULL
      /\ head[l] = IF Len(s) = 0 THEN NULL ELSE s[1]
  BY Reads
<1>2. C \in Nat /\ Len(s) <= C
  BY <1>1, NoMoreThanElements
<1>3. Contents(l) = [n \in 1..Cardinality({n \in DOMAIN at : at[n] \in Elt}) |-> at[n]]
  BY DEF Contents
<1>4. g = [n \in 1..C |-> step(g, n)]
  <2>1. ASSUME NEW n \in 1..C
        PROVE  g[n] = step(g, n)
    <3>1. n = 1 \/ (n - 1 \in 1..C /\ (n - 1) + 1 = n)
      BY <1>2
    <3>2. CASE n = 1
      BY <1>1, <1>2, <3>2
    <3>3. CASE n - 1 \in 1..C /\ (n - 1) + 1 = n
      <4>1. g[n - 1] = (IF n - 1 <= Len(s) THEN s[n - 1] ELSE NULL) /\ n # 1
        BY <3>3
      <4>2. CASE n - 1 < Len(s)
        <5>1. n - 1 \in 1..Len(s) /\ 1 \in 1..Len(s) /\ n \in 1..Len(s)
          BY <1>1, <3>3, <4>2
        <5>2. next[s[n - 1]] = s[n] /\ s[n] # head[l]
          BY <1>1, <3>3, <4>2, <5>1
        <5> HIDE DEF C
        <5>3. step(g, n) = s[n]
          BY <1>1, <4>1, <4>2, <5>1, <5>2 DEF After
        <5> QED BY <5>1, <5>3
      <4>3. CASE n - 1 = Len(s)
        <5>1. n - 1 \in 1..Len(s) /\ 1 \in 1..Len(s) /\ ~(n <= Len(s))
          BY <1>1, <3>3, <4>3
        <5>2. After(s[n - 1], head[l]) = NULL
          BY <1>1, <4>3, <5>1 DEF After
        <5> HIDE DEF C
        <5>3. step(g, n) = NULL
          BY <1>1, <4>1, <4>3, <5>1, <5>2
        <5> QED BY <5>1, <5>3
      <4>4. CASE n - 1 > Len(s)
        <5>1. g[n - 1] = NULL /\ ~(n <= Len(s))
          BY <1>1, <3>3, <4>1, <4>4
        <5> HIDE DEF g
        <5>2. step(g, n) = NULL
          BY <4>1, <5>1, Apart
        <5> QED BY <5>1, <5>2 DEF g
      <4> QED BY <1>1, <3>3, <4>2, <4>3, <4>4
    <3> QED BY <3>1, <3>2, <3>3
  <2>2. g = [n \in 1..C |-> g[n]]
    OBVIOUS
  <2> HIDE DEF g, C, step
  <2> QED BY <2>1, <2>2
<1>5. at = [n \in 1..C |-> step(at, n)]
  <2> HIDE DEF g, C, step
  <2> QED BY <1>4
<1>6. \A n \in 1..C : at[n] = g[n]
  <2> DEFINE Bad == {n \in 1..C : at[n] # g[n]}
  <2>1. ASSUME Bad # {}
        PROVE  FALSE
    <3>1. Bad \in SUBSET Nat
      OBVIOUS
    <3>2. PICK n \in Bad : \A m \in Bad : n <= m
      <4> HIDE DEF Bad
      <4> QED BY <2>1, <3>1, LeastNumber
    <3>3. n \in 1..C /\ at[n] # g[n] /\ at[n] = step(at, n) /\ g[n] = step(g, n)
      <4>1. n \in 1..C /\ at[n] # g[n]
        BY <3>2
      <4> HIDE DEF at, g, step, C
      <4> QED BY <1>4, <1>5, <4>1
    <3>4. n # 1 => n - 1 \in 1..C /\ n - 1 < n
      BY <1>2, <3>3
    <3>5. n # 1 => at[n - 1] = g[n - 1]
      <4> HIDE DEF at, g, C
      <4> QED BY <3>2, <3>4, <1>2
    <3>6. step(at, n) = step(g, n)
      <4> HIDE DEF at, g, C
      <4> QED BY <3>5
    <3> QED BY <3>3, <3>6
  <2> QED BY <2>1
<1>7. {n \in DOMAIN at : at[n] \in Elt} = 1..Len(s)
  <2>1. DOMAIN at = 1..C
    <3> HIDE DEF at, C, step
    <3> QED BY <1>5
  <2>2. \A n \in 1..C : at[n] \in Elt <=> n <= Len(s)
    <3>1. \A n \in 1..C : g[n] \in Elt <=> n <= Len(s)
      BY <1>1, <1>2, Apart
    <3> HIDE DEF at, g, C
    <3> QED BY <1>6, <3>1
  <2> HIDE DEF at, C
  <2> QED BY <1>1, <1>2, <2>1, <2>2
<1>8. Contents(l) = [n \in 1..Len(s) |-> at[n]]
  <2> HIDE DEF at
  <2> QED BY <1>1, <1>3, <1>7, CardinalityOfInterval
<1>9. \A n \in 1..Len(s) : at[n] = s[n]
  <2> HIDE DEF at
  <2> QED BY <1>1, <1>2, <1>6
<1>10. s = [n \in 1..Len(s) |-> s[n]]
  BY <1>1, LenProperties
<1> HIDE DEF at
<1> QED BY <1>8, <1>9, <1>10

-----------------------------------------------------------------------------
(* What each call of the caller makes of the lists.                        *)

\* The list l becomes the sequence r and the other lists stay as they are.
Makes(l, r) ==
  /\ FieldsOK'
  /\ Chain(kind', r, head'[l], next', prev') /\ In(l)' = Members(r)
  /\ \A m \in List \ {l} : \A s : Holds(m, s) => Holds(m, s)'

\* Of held and call, what the type invariant says.
HeldOK == held \in [Elt -> List \cup {NULL}]

LEMMA Kept ==
  ASSUME FieldsOK, NEW m \in List, NEW s, Holds(m, s), kind' = kind,
         head'[m] = head[m], In(m)' = In(m),
         \A x \in In(m) : next'[x] = next[x] /\ prev'[x] = prev[x]
  PROVE  Holds(m, s)'
<1>1. \A i \in 1..Len(s) : s[i] \in In(m)
  BY Reads
<1>2. \A i \in 1..Len(s) : next'[s[i]] = next[s[i]] /\ prev'[s[i]] = prev[s[i]]
  BY <1>1
<1>3. Nexts(kind, s, next')
  BY <1>2 DEF Holds, Chain, Nexts
<1>4. kind # "ll" => Prevs(s, prev')
  BY <1>2 DEF Holds, Chain, Prevs
<1> QED BY <1>3, <1>4 DEF Holds, Chain

LEMMA Makings ==
  ASSUME FieldsOK, NEW l \in List, NEW e \in Elt, NEW r, Only(l, e),
         Chain(kind, r, head'[l], next', prev'), kind' = kind,
         In(l)' = Members(r), \A m \in List \ {l} : In(m)' = In(m),
         held[e] \in {NULL, l}
  PROVE  Makes(l, r)
<1>1. ASSUME NEW m \in List \ {l}, NEW s, Holds(m, s)
      PROVE  Holds(m, s)'
  <2>1. e \notin In(m)
    BY Apart DEF In
  <2>2. \A x \in In(m) : x \in Elt \ (In(l) \cup {e})
    BY <2>1 DEF In
  <2>3. \A x \in In(m) : next'[x] = next[x] /\ prev'[x] = prev[x]
    BY <2>2 DEF Only
  <2>4. head'[m] = head[m] /\ In(m)' = In(m)
    BY DEF Only
  <2> QED BY <1>1, <2>3, <2>4, Kept
<1> QED BY <1>1 DEF Makes, Only

LEMMA PutIn ==
  ASSUME HeldOK, NEW l \in List, NEW e \in Elt, Puts(l, e)
  PROVE  /\ e \notin In(l) /\ held[e] = NULL /\ HeldOK'
         /\ In(l)' = In(l) \cup {e} /\ \A m \in List \ {l} : In(m)' = In(m)
<1>1. held' = [held EXCEPT ![e] = l] /\ held[e] = NULL
  BY DEF Puts
<1>2. held'[e] = l /\ \A x \in Elt : x # e => held'[x] = held[x]
  BY <1>1 DEF HeldOK
<1>3. \A m \in List \ {l} : In(m)' = In(m)
  BY <1>1, <1>2, Apart DEF In
<1>4. In(l)' = In(l) \cup {e}
  BY <1>1, <1>2, Apart DEF In
<1> QED BY <1>1, <1>3, <1>4, Apart DEF In, HeldOK

LEMMA InsertedMembers ==
  ASSUME FieldsOK, NEW l \in List, NEW s, Holds(l, s), NEW e \in Elt, NEW n \in 1..Len(s) + 1
  PROVE  Members(Inserted(s, n, e)) = In(l) \cup {e}
<1>1. s \in Seq(Elt) /\ In(l) = Members(s)
  BY Reads DEF Holds
<1> QED BY <1>1, InsertedFacts

LEMMA CallPrependMakes ==
  ASSUME FieldsOK, HeldOK, NEW l \in List, NEW e \in Elt, NEW s, Holds(l, s),
         Puts(l, e), PrependTo(l, e), kind' = kind
  PROVE  Makes(l, Inserted(s, 1, e)) /\ HeldOK'
<1>1. e \notin In(l) /\ held[e] = NULL
  BY PutIn
<1>2. Chain(kind, Inserted(s, 1, e), head'[l], next', prev') /\ Only(l, e)
  BY <1>1, PrependKeeps
<1>3. 1 \in 1..Len(s) + 1
  BY Reads
<1>4. In(l)' = Members(Inserted(s, 1, e)) /\ \A m \in List \ {l} : In(m)' = In(m)
  <2>1. Members(Inserted(s, 1, e)) = In(l) \cup {e}
    BY <1>3, InsertedMembers
  <2> QED BY <2>1, PutIn
<1> QED BY <1>1, <1>2, <1>4, PutIn, Makings

LEMMA CallAppendMakes ==
  ASSUME FieldsOK, HeldOK, NEW l \in List, NEW e \in Elt, NEW s, Holds(l, s),
         Puts(l, e), AppendTo(l, e), kind' = kind
  PROVE  Makes(l, Inserted(s, Len(s) + 1, e)) /\ HeldOK'
<1>1. e \notin In(l) /\ held[e] = NULL
  BY PutIn
<1>2. Chain(kind, Inserted(s, Len(s) + 1, e), head'[l], next', prev') /\ Only(l, e)
  BY <1>1, AppendKeeps
<1>3. Len(s) + 1 \in 1..Len(s) + 1
  BY Reads
<1>4. In(l)' = Members(Inserted(s, Len(s) + 1, e)) /\ \A m \in List \ {l} : In(m)' = In(m)
  <2>1. Members(Inserted(s, Len(s) + 1, e)) = In(l) \cup {e}
    BY <1>3, InsertedMembers
  <2> QED BY <2>1, PutIn
<1> QED BY <1>1, <1>2, <1>4, PutIn, Makings

LEMMA CallPrependElemMakes ==
  ASSUME FieldsOK, HeldOK, NEW l \in List, NEW e \in Elt, NEW s, Holds(l, s),
         NEW n \in 1..Len(s), NEW o, o = s[n], Puts(l, e), kind' = kind,
         \/ kind = "ll" /\ LLPrependElem(l, o, e)
         \/ kind = "dl" /\ DLPrependElem(l, o, e)
         \/ kind = "cdl" /\ CDLPrependElem(l, o, e)
  PROVE  Makes(l, Inserted(s, n, e)) /\ HeldOK'
<1>1. e \notin In(l) /\ held[e] = NULL
  BY PutIn
<1>2. Chain(kind, Inserted(s, n, e), head'[l], next', prev') /\ Only(l, e)
  BY <1>1, PrependElemKeeps
<1>3. n \in 1..Len(s) + 1
  BY Reads
<1>4. In(l)' = Members(Inserted(s, n, e)) /\ \A m \in List \ {l} : In(m)' = In(m)
  <2>1. Members(Inserted(s, n, e)) = In(l) \cup {e}
    BY <1>3, InsertedMembers
  <2> QED BY <2>1, PutIn
<1> QED BY <1>1, <1>2, <1>4, PutIn, Makings

LEMMA CallAppendElemMakes ==
  ASSUME FieldsOK, HeldOK, NEW l \in List, NEW e \in Elt, NEW s, Holds(l, s),
         NEW m \in 1..Len(s), NEW o, o = s[m], NEW n, n = m + 1, Puts(l, e), kind' = kind,
         \/ kind = "ll" /\ LLAppendElem(l, o, e)
         \/ kind = "dl" /\ DLAppendElem(l, o, e)
         \/ kind = "cdl" /\ CDLAppendElem(l, o, e)
  PROVE  Makes(l, Inserted(s, n, e)) /\ HeldOK'
<1>1. e \notin In(l) /\ held[e] = NULL
  BY PutIn
<1>2. Chain(kind, Inserted(s, n, e), head'[l], next', prev') /\ Only(l, e)
  BY <1>1, AppendElemKeeps
<1>3. n \in 1..Len(s) + 1
  BY Reads
<1>4. In(l)' = Members(Inserted(s, n, e)) /\ \A k \in List \ {l} : In(k)' = In(k)
  <2>1. Members(Inserted(s, n, e)) = In(l) \cup {e}
    BY <1>3, InsertedMembers
  <2> QED BY <2>1, PutIn
<1> QED BY <1>1, <1>2, <1>4, PutIn, Makings

LEMMA CallReplaceElemMakes ==
  ASSUME FieldsOK, HeldOK, NEW l \in List, NEW e \in Elt, NEW s, Holds(l, s),
         NEW n \in 1..Len(s), NEW o, o = s[n], CallReplaceElem(l, o, e)
  PROVE  Makes(l, Replaced(s, n, e)) /\ HeldOK'
<1>1. /\ s \in Seq(Elt) /\ Distinct(s) /\ In(l) = Members(s) /\ o \in Elt /\ o \in In(l)
      /\ \A i \in 1..Len(s) : s[i] \in Elt
  BY Reads DEF Holds
<1>2. /\ held[e] = NULL /\ held' = [held EXCEPT ![o] = NULL, ![e] = l] /\ kind' = kind
      /\ \/ kind = "ll" /\ LLReplaceElem(l, o, e)
         \/ kind = "dl" /\ DLReplaceElem(l, o, e)
         \/ kind = "cdl" /\ CDLReplaceElem(l, o, e)
  BY DEF CallReplaceElem, Calls
<1>3. e \notin In(l) /\ e # o
  BY <1>1, <1>2, Apart DEF In
<1>4. Chain(kind, Replaced(s, n, e), head'[l], next', prev') /\ Only(l, e)
  BY <1>2, <1>3, ReplaceKeeps
<1>5. Members(Replaced(s, n, e)) = (In(l) \ {o}) \cup {e}
  <2>1. Members(Replaced(s, n, e)) = (Members(s) \ {s[n]}) \cup {e}
    BY <1>1, ReplacedFacts
  <2> QED BY <2>1, <1>1
<1>6. /\ held'[e] = l /\ held'[o] = NULL /\ held' \in [Elt -> List \cup {NULL}]
      /\ \A x \in Elt : x # e /\ x # o => held'[x] = held[x]
  BY <1>1, <1>2, <1>3 DEF HeldOK
<1>7. In(l)' = (In(l) \ {o}) \cup {e}
  BY <1>6, <1>1, <1>3, Apart DEF In
<1>8. \A m \in List \ {l} : In(m)' = In(m)
  <2> TAKE m \in List \ {l}
  <2>1. o \notin In(m) /\ e \notin In(m) /\ m # NULL
    BY <1>1, <1>2, Apart DEF In
  <2> QED BY <1>6, <2>1, Apart DEF In
<1>9. In(l)' = Members(Replaced(s, n, e))
  BY <1>5, <1>7
<1>10. HeldOK'
  BY <1>6 DEF HeldOK
<1> QED BY <1>2, <1>4, <1>8, <1>9, <1>10, Makings

\* DELETE by a call or in the body of a walk.
LEMMA UnlinkMakes ==
  ASSUME FieldsOK, HeldOK, NEW l \in List, NEW s, Holds(l, s),
         NEW n \in 1..Len(s), NEW o, o = s[n], Unlink(l, o), kind' = kind
  PROVE  Makes(l, Removed(s, n)) /\ HeldOK'
<1>1. /\ s \in Seq(Elt) /\ Distinct(s) /\ In(l) = Members(s) /\ o \in Elt /\ o \in In(l)
      /\ \A i \in 1..Len(s) : s[i] \in Elt
  BY Reads DEF Holds
<1>2. /\ held' = [held EXCEPT ![o] = NULL]
      /\ \/ kind = "ll" /\ LLDelete(l, o)
         \/ kind = "dl" /\ DLDelete(l, o)
         \/ kind = "cdl" /\ CDLDelete(l, o)
  BY DEF Unlink
<1>3. Chain(kind, Removed(s, n), head'[l], next', prev') /\ Only(l, o)
  BY <1>2, DeleteKeeps
<1>4. Members(Removed(s, n)) = In(l) \ {o}
  <2>1. Members(Removed(s, n)) = Members(s) \ {s[n]}
    BY <1>1, RemovedFacts
  <2> QED BY <2>1, <1>1
<1>5. /\ held'[o] = NULL /\ held' \in [Elt -> List \cup {NULL}]
      /\ \A x \in Elt : x # o => held'[x] = held[x]
  BY <1>1, <1>2 DEF HeldOK
<1>6. In(l)' = In(l) \ {o}
  BY <1>5, <1>1, Apart DEF In
<1>7. \A m \in List \ {l} : In(m)' = In(m)
  <2> TAKE m \in List \ {l}
  <2>1. o \notin In(m) /\ m # NULL
    BY <1>1, Apart DEF In
  <2> QED BY <1>5, <2>1, Apart DEF In
<1>8. In(l)' = Members(Removed(s, n))
  BY <1>4, <1>6
<1>9. HeldOK' /\ held[o] \in {NULL, l}
  BY <1>1, <1>5 DEF HeldOK, In
<1> QED BY <1>1, <1>3, <1>7, <1>8, <1>9, Makings

LEMMA CallConcatMakes ==
  ASSUME FieldsOK, HeldOK, NEW l \in List, NEW m \in List, NEW s, NEW r,
         Holds(l, s), Holds(m, r), CallConcat(l, m)
  PROVE  /\ FieldsOK' /\ HeldOK' /\ l # m /\ kind' = kind
         /\ Holds(l, s \o r)' /\ Holds(m, <<>>)'
         /\ \A k \in List \ {l, m} : \A u : Holds(k, u) => Holds(k, u)'
<1>1. /\ l # m /\ kind' = kind /\ held' = [e \in Elt |-> IF held[e] = m THEN l ELSE held[e]]
      /\ \/ kind = "ll" /\ LLConcat(l, m)
         \/ kind = "dl" /\ DLConcat(l, m)
  BY DEF CallConcat, Calls
<1>2. /\ Chain(kind, s \o r, head'[l], next', prev') /\ FieldsOK'
      /\ head'[m] = NULL /\ \A k \in List \ {l, m} : head'[k] = head[k]
      /\ \A x \in Elt \ (In(l) \cup In(m)) : next'[x] = next[x] /\ prev'[x] = prev[x]
      /\ Members(s \o r) = In(l) \cup In(m)
  BY <1>1, ConcatKeeps
<1>3. HeldOK'
  BY <1>1 DEF HeldOK
<1>4. /\ In(l)' = In(l) \cup In(m) /\ In(m)' = {}
      /\ \A k \in List \ {l, m} : In(k)' = In(k)
  BY <1>1 DEF In
<1>5. Holds(l, s \o r)'
  BY <1>1, <1>2, <1>4 DEF Holds
<1>6. Holds(m, <<>>)'
  <2>1. <<>> \in Seq(Elt) /\ Len(<<>>) = 0 /\ Members(<<>>) = {}
    BY DEF Members
  <2>2. Chain(kind', <<>>, head'[m], next', prev')
    BY <2>1, <1>2 DEF Chain, Distinct, Nexts, Prevs
  <2> QED BY <2>1, <2>2, <1>4 DEF Holds
<1>7. ASSUME NEW k \in List \ {l, m}, NEW u, Holds(k, u)
      PROVE  Holds(k, u)'
  <2>1. \A x \in In(k) : x \in Elt \ (In(l) \cup In(m))
    BY DEF In
  <2>2. \A x \in In(k) : next'[x] = next[x] /\ prev'[x] = prev[x]
    BY <2>1, <1>2
  <2> QED BY <1>7, <2>2, <1>1, <1>2, <1>4, Kept
<1> QED BY <1>1, <1>2, <1>3, <1>5, <1>6, <1>7

AllHeld == \A l \in List : \E s : Holds(l, s)

CallOK == call[1] \in Macro /\ call[2] \in List \cup {NULL} /\ call[4] \in Elt \cup {NULL}

LEMMA Made ==
  ASSUME AllHeld, NEW l \in List, NEW r, Makes(l, r)
  PROVE  FieldsOK' /\ AllHeld'
<1>1. Holds(l, r)'
  BY DEF Makes, Holds
<1>2. ASSUME NEW m \in List \ {l}
      PROVE  \E s : Holds(m, s)'
  <2>1. PICK s : Holds(m, s)
    BY DEF AllHeld
  <2> QED BY <2>1 DEF Makes
<1>3. FieldsOK'
  BY DEF Makes
<1>4. \A m \in List : \E s : Holds(m, s)'
  BY <1>1, <1>2
<1> QED BY <1>3, <1>4 DEF AllHeld

LEMMA NextKeeps ==
  ASSUME FieldsOK, HeldOK, AllHeld, Next
  PROVE  FieldsOK' /\ HeldOK' /\ AllHeld' /\ CallOK' /\ kind' = kind
<1> USE DEF Calls, CallOK, Macro
<1>1. ASSUME NEW l \in List, NEW e \in Elt, CallPrepend(l, e)
      PROVE  FieldsOK' /\ HeldOK' /\ AllHeld' /\ CallOK' /\ kind' = kind
  <2>1. PICK s : Holds(l, s)
    BY DEF AllHeld
  <2>2. Puts(l, e) /\ PrependTo(l, e) /\ kind' = kind /\ CallOK'
    BY <1>1 DEF CallPrepend
  <2>3. Makes(l, Inserted(s, 1, e)) /\ HeldOK'
    BY <2>1, <2>2, CallPrependMakes
  <2> QED BY <2>2, <2>3, Made
<1>2. ASSUME NEW l \in List, NEW e \in Elt, CallAppend(l, e)
      PROVE  FieldsOK' /\ HeldOK' /\ AllHeld' /\ CallOK' /\ kind' = kind
  <2>1. PICK s : Holds(l, s)
    BY DEF AllHeld
  <2>2. Puts(l, e) /\ AppendTo(l, e) /\ kind' = kind /\ CallOK'
    BY <1>2 DEF CallAppend
  <2>3. Makes(l, Inserted(s, Len(s) + 1, e)) /\ HeldOK'
    BY <2>1, <2>2, CallAppendMakes
  <2> QED BY <2>2, <2>3, Made
<1>3. ASSUME NEW l \in List, NEW e \in Elt, CallDelete(l, e)
      PROVE  FieldsOK' /\ HeldOK' /\ AllHeld' /\ CallOK' /\ kind' = kind
  <2>1. PICK s : Holds(l, s)
    BY DEF AllHeld
  <2>2. e \in In(l) /\ Unlink(l, e) /\ kind' = kind /\ CallOK'
    BY <1>3 DEF CallDelete
  <2>3. PICK n \in 1..Len(s) : e = s[n]
    BY <2>1, <2>2, Reads
  <2>4. Makes(l, Removed(s, n)) /\ HeldOK'
    BY <2>1, <2>2, <2>3, UnlinkMakes
  <2> QED BY <2>2, <2>4, Made
<1>4. ASSUME NEW l \in List, NEW o \in Elt \cup {NULL}, NEW e \in Elt, CallPrependElem(l, o, e)
      PROVE  FieldsOK' /\ HeldOK' /\ AllHeld' /\ CallOK' /\ kind' = kind
  <2>1. PICK s : Holds(l, s)
    BY DEF AllHeld
  <2>2. Puts(l, e) /\ kind' = kind /\ CallOK'
    BY <1>4 DEF CallPrependElem
  <2>3. CASE AppendTo(l, e)
    <3>1. Makes(l, Inserted(s, Len(s) + 1, e)) /\ HeldOK'
      BY <2>1, <2>2, <2>3, CallAppendMakes
    <3> QED BY <2>2, <3>1, Made
  <2>4. CASE /\ o \in In(l)
             /\ \/ kind = "ll" /\ LLPrependElem(l, o, e)
                \/ kind = "dl" /\ DLPrependElem(l, o, e)
                \/ kind = "cdl" /\ CDLPrependElem(l, o, e)
    <3>1. PICK n \in 1..Len(s) : o = s[n]
      BY <2>1, <2>4, Reads
    <3>2. Makes(l, Inserted(s, n, e)) /\ HeldOK'
      BY <2>1, <2>2, <2>4, <3>1, CallPrependElemMakes
    <3> QED BY <2>2, <3>2, Made
  <2> QED BY <1>4, <2>3, <2>4 DEF CallPrependElem
<1>5. ASSUME NEW l \in List, NEW o \in Elt \cup {NULL}, NEW e \in Elt, CallAppendElem(l, o, e)
      PROVE  FieldsOK' /\ HeldOK' /\ AllHeld' /\ CallOK' /\ kind' = kind
  <2>1. PICK s : Holds(l, s)
    BY DEF AllHeld
  <2>2. Puts(l, e) /\ kind' = kind /\ CallOK'
    BY <1>5 DEF CallAppendElem
  <2>3. CASE PrependTo(l, e)
    <3>1. Makes(l, Inserted(s, 1, e)) /\ HeldOK'
      BY <2>1, <2>2, <2>3, CallPrependMakes
    <3> QED BY <2>2, <3>1, Made
  <2>4. CASE /\ o \in In(l)
             /\ \/ kind = "ll" /\ LLAppendElem(l, o, e)
                \/ kind = "dl" /\ DLAppendElem(l, o, e)
                \/ kind = "cdl" /\ CDLAppendElem(l, o, e)
    <3>1. PICK n \in 1..Len(s) : o = s[n]
      BY <2>1, <2>4, Reads
    <3>2. Makes(l, Inserted(s, n + 1, e)) /\ HeldOK'
      BY <2>1, <2>2, <2>4, <3>1, CallAppendElemMakes
    <3> QED BY <2>2, <3>2, Made
  <2> QED BY <1>5, <2>3, <2>4 DEF CallAppendElem
<1>6. ASSUME NEW l \in List, NEW o \in Elt, NEW e \in Elt, CallReplaceElem(l, o, e)
      PROVE  FieldsOK' /\ HeldOK' /\ AllHeld' /\ CallOK' /\ kind' = kind
  <2>1. PICK s : Holds(l, s)
    BY DEF AllHeld
  <2>2. o \in In(l) /\ kind' = kind /\ CallOK'
    BY <1>6 DEF CallReplaceElem
  <2>3. PICK n \in 1..Len(s) : o = s[n]
    BY <2>1, <2>2, Reads
  <2>4. Makes(l, Replaced(s, n, e)) /\ HeldOK'
    BY <1>6, <2>1, <2>3, CallReplaceElemMakes
  <2> QED BY <2>2, <2>4, Made
<1>7. ASSUME NEW l \in List, NEW m \in List, CallConcat(l, m)
      PROVE  FieldsOK' /\ HeldOK' /\ AllHeld' /\ CallOK' /\ kind' = kind
  <2>1. PICK s : Holds(l, s)
    BY DEF AllHeld
  <2>2. PICK r : Holds(m, r)
    BY DEF AllHeld
  <2>3. /\ FieldsOK' /\ HeldOK' /\ l # m /\ kind' = kind
        /\ Holds(l, s \o r)' /\ Holds(m, <<>>)'
        /\ \A k \in List \ {l, m} : \A u : Holds(k, u) => Holds(k, u)'
    BY <1>7, <2>1, <2>2, CallConcatMakes
  <2>4. ASSUME NEW k \in List
        PROVE  \E u : Holds(k, u)'
    <3>1. PICK u : Holds(k, u)
      BY DEF AllHeld
    <3>2. k \in List \ {l, m} => Holds(k, u)'
      BY <2>3, <3>1
    <3> QED BY <2>3, <3>2
  <2>5. CallOK'
    BY <1>7 DEF CallConcat
  <2>6. AllHeld'
    BY <2>4 DEF AllHeld
  <2> QED BY <2>3, <2>5, <2>6
<1> QED BY <1>1, <1>2, <1>3, <1>4, <1>5, <1>6, <1>7 DEF Next

\* Lists that are sequences are well linked.
LEMMA HeldLinked ==
  ASSUME FieldsOK, HeldOK, AllHeld
  PROVE  Linked
<1>1. ASSUME NEW l \in List, head[l] # NULL
      PROVE  head[l] \in In(l)
  <2>1. PICK s : Holds(l, s)
    BY DEF AllHeld
  <2>2. Len(s) \in Nat /\ Len(s) # 0 /\ head[l] = s[1]
    BY <1>1, <2>1, Reads
  <2>3. 1 \in 1..Len(s)
    BY <2>2
  <2> QED BY <2>1, <2>2, <2>3, Reads
<1>2. ASSUME NEW e \in Elt, held[e] # NULL
      PROVE  LET first == head[held[e]] IN
             /\ kind = "cdl" => Adjacent(e, next[e]) /\ Adjacent(prev[e], e)
             /\ kind = "dl" =>
                  /\ next[e] # NULL => Adjacent(e, next[e]) /\ next[e] # first
                  /\ IF e = first
                     THEN held[prev[e]] = held[e] /\ next[prev[e]] = NULL
                     ELSE Adjacent(prev[e], e)
  <2> DEFINE l == held[e]
  <2>1. l \in List /\ e \in In(l)
    BY <1>2 DEF HeldOK, In
  <2>2. PICK s : Holds(l, s)
    BY <2>1 DEF AllHeld
  <2>3. PICK i \in 1..Len(s) : e = s[i]
    BY <2>1, <2>2, Reads
  <2> HIDE DEF l
  <2>4. /\ Len(s) \in Nat /\ head[l] = s[1]
        /\ \A j, k \in 1..Len(s) : s[j] = s[k] => j = k
        /\ \A j \in 1..Len(s) :
             /\ s[j] \in In(l) /\ s[j] # NULL
             /\ next[s[j]] = IF j < Len(s) THEN s[j + 1]
                             ELSE IF kind = "cdl" THEN s[1] ELSE NULL
             /\ kind # "ll" => prev[s[j]] = IF j > 1 THEN s[j - 1] ELSE s[Len(s)]
    BY <2>1, <2>2, <2>3, Reads
  <2>5. \A j \in 1..Len(s) : held[s[j]] = l
    BY <2>4 DEF In
  <2>6. 1 \in 1..Len(s) /\ Len(s) \in 1..Len(s) /\ i \in Nat
    BY <2>4
  <2>7. CASE i < Len(s)
    <3>1. i + 1 \in 1..Len(s) /\ next[e] = s[i + 1] /\ i + 1 > 1 /\ (i + 1) - 1 = i
      BY <2>3, <2>4, <2>6, <2>7
    <3>2. kind # "ll" => prev[s[i + 1]] = s[i]
      BY <2>4, <3>1
    <3>3. kind # "ll" => Adjacent(e, next[e])
      BY <2>3, <2>5, <3>1, <3>2 DEF Adjacent
    <3>4. next[e] # s[1]
      BY <2>4, <2>6, <3>1
    <3>5. kind # "ll" => Adjacent(e, next[e]) /\ next[e] # head[l]
      BY <2>4, <3>3, <3>4
    <3>6. CASE i = 1
      <4>1. prev[e] = s[Len(s)] \/ kind = "ll"
        BY <2>3, <2>4, <3>6
      <4>2. next[s[Len(s)]] = IF kind = "cdl" THEN s[1] ELSE NULL
        BY <2>4, <2>6
      <4> QED BY <2>3, <2>4, <2>5, <2>6, <3>5, <3>6, <4>1, <4>2 DEF Adjacent, l
    <3>7. CASE i > 1
      <4>1. i - 1 \in 1..Len(s) /\ (i - 1) + 1 = i /\ i - 1 < Len(s)
        BY <2>4, <3>7
      <4>2. next[s[i - 1]] = s[i]
        BY <2>4, <4>1
      <4>3. prev[e] = s[i - 1] \/ kind = "ll"
        BY <2>3, <2>4, <3>7
      <4>4. e # head[l]
        BY <2>3, <2>4, <2>6, <3>7
      <4> QED BY <2>3, <2>5, <3>5, <4>1, <4>2, <4>3, <4>4 DEF Adjacent, l
    <3> QED BY <2>4, <3>6, <3>7
  <2>8. CASE i = Len(s)
    <3>1. next[e] = IF kind = "cdl" THEN s[1] ELSE NULL
      BY <2>3, <2>4, <2>8
    <3>2. kind = "cdl" => prev[s[1]] = s[Len(s)]
      BY <2>4, <2>6
    <3>3. kind = "cdl" => Adjacent(e, next[e])
      BY <2>3, <2>5, <2>6, <2>8, <3>1, <3>2 DEF Adjacent
    <3>6. CASE i = 1
      <4>1. prev[e] = e \/ kind = "ll"
        BY <2>3, <2>4, <2>8, <3>6
      <4> QED BY <2>3, <2>4, <2>5, <2>6, <3>1, <3>3, <3>6, <4>1 DEF Adjacent, l
    <3>7. CASE i > 1
      <4>1. i - 1 \in 1..Len(s) /\ (i - 1) + 1 = i /\ i - 1 < Len(s)
        BY <2>4, <2>8, <3>7
      <4>2. next[s[i - 1]] = s[i]
        BY <2>4, <4>1
      <4>3. prev[e] = s[i - 1] \/ kind = "ll"
        BY <2>3, <2>4, <3>7
      <4>4. e # head[l]
        BY <2>3, <2>4, <2>6, <3>7
      <4> QED BY <2>3, <2>5, <3>1, <3>3, <4>1, <4>2, <4>3, <4>4 DEF Adjacent, l
    <3> QED BY <2>4, <3>6, <3>7
  <2> QED BY <2>3, <2>4, <2>7, <2>8
<1> QED BY <1>1, <1>2 DEF Linked

-----------------------------------------------------------------------------
(* A pass of SORT.  s is the list as it was when the pass began and t what *)
(* it has linked so far.  Of s, the elements from a to before m are those  *)
(* of the run at p that are left, and those from b on the ones from q on.  *)

LsOK ==
  ls \in [p : Elt \cup {NULL}, q : Elt \cup {NULL}, tail : Elt \cup {NULL},
          oldhead : Elt \cup {NULL}, insize : Nat, nmerges : Nat, psize : Nat, qsize : Nat]

At(s, i) == IF i <= Len(s) THEN s[i] ELSE NULL

Left(i, a, m, b) == (a <= i /\ i < m) \/ b <= i

Links(s, t, a, m, b) ==
  /\ s \in Seq(Elt) /\ Distinct(s) /\ Len(s) > 0 /\ Members(s) = In(own)
  /\ t \in Seq(Elt) /\ Distinct(t)
  /\ a \in Nat /\ m \in Nat /\ b \in Nat
  /\ 1 <= a /\ a <= m /\ m <= b /\ b <= Len(s) + 1
  /\ \A i \in 1..Len(t) : \E j \in 1..Len(s) : t[i] = s[j] /\ ~Left(j, a, m, b)
  /\ \A j \in 1..Len(s) : Left(j, a, m, b) \/ \E i \in 1..Len(t) : t[i] = s[j]
  /\ \A i \in 1..Len(s) : Left(i, a, m, b) =>
       next[s[i]] = IF i < Len(s) THEN s[i + 1] ELSE IF kind = "cdl" THEN s[1] ELSE NULL
  /\ \A i \in 1..Len(t) - 1 : next[t[i]] = t[i + 1]
  /\ kind # "ll" => \A i \in 1..Len(t) : prev[t[i]] = IF i > 1 THEN t[i - 1] ELSE NULL
  /\ head[own] = IF Len(t) = 0 THEN NULL ELSE t[1]
  /\ ls.tail = IF Len(t) = 0 THEN NULL ELSE t[Len(t)]
  /\ ls.oldhead = s[1]
  /\ ls.psize = m - a

LEMMA AfterIs ==
  ASSUME NEW s, NEW t, NEW a, NEW m, NEW b, Links(s, t, a, m, b),
         NEW i \in 1..Len(s), Left(i, a, m, b)
  PROVE  After(s[i], ls.oldhead) = At(s, i + 1)
<1>1. /\ s \in Seq(Elt) /\ Distinct(s) /\ Len(s) > 0 /\ ls.oldhead = s[1]
      /\ next[s[i]] = IF i < Len(s) THEN s[i + 1] ELSE IF kind = "cdl" THEN s[1] ELSE NULL
  BY DEF Links
<1>2. Len(s) \in Nat /\ \A j \in 1..Len(s) : s[j] \in Elt /\ s[j] # NULL
  BY <1>1, Apart
<1>3. CASE i < Len(s)
  <2>1. i + 1 \in 1..Len(s) /\ i + 1 # 1 /\ 1 \in 1..Len(s)
    BY <1>2, <1>3
  <2>2. s[i + 1] # s[1]
    BY <1>1, <2>1 DEF Distinct
  <2> QED BY <1>1, <1>2, <1>3, <2>1, <2>2 DEF After, At
<1>4. CASE i = Len(s)
  <2>1. ~(i + 1 <= Len(s)) /\ 1 \in 1..Len(s)
    BY <1>1, <1>2, <1>4
  <2> QED BY <1>1, <1>2, <1>4, <2>1 DEF After, At
<1> QED BY <1>2, <1>3, <1>4

LEMMA AppendedFacts ==
  ASSUME NEW t \in Seq(Elt), NEW e \in Elt
  PROVE  /\ Append(t, e) \in Seq(Elt) /\ Len(Append(t, e)) = Len(t) + 1 /\ Len(t) \in Nat
         /\ Append(t, e)[Len(t) + 1] = e
         /\ \A i \in 1..Len(t) : Append(t, e)[i] = t[i]
         /\ Distinct(t) /\ (\A i \in 1..Len(t) : t[i] # e) => Distinct(Append(t, e))
<1>1. /\ Append(t, e) \in Seq(Elt) /\ Len(Append(t, e)) = Len(t) + 1 /\ Len(t) \in Nat
      /\ Append(t, e)[Len(t) + 1] = e
      /\ \A i \in 1..Len(t) : Append(t, e)[i] = t[i]
  OBVIOUS
<1>2. ASSUME Distinct(t), \A i \in 1..Len(t) : t[i] # e
      PROVE  Distinct(Append(t, e))
  <2> SUFFICES ASSUME NEW i \in 1..Len(t) + 1, NEW j \in 1..Len(t) + 1,
                      Append(t, e)[i] = Append(t, e)[j]
               PROVE  i = j
    BY <1>1 DEF Distinct
  <2>1. (i \in 1..Len(t) \/ i = Len(t) + 1) /\ (j \in 1..Len(t) \/ j = Len(t) + 1)
    BY <1>1
  <2> QED BY <1>1, <1>2, <2>1 DEF Distinct
<1> QED BY <1>1, <1>2

\* e goes behind the tail.
Appends(e) ==
  /\ IF ls.tail = NULL
     THEN SetHead(own, e) /\ UNCHANGED next
     ELSE next' = [next EXCEPT ![ls.tail] = e] /\ UNCHANGED head
  /\ prev' = IF kind = "ll" THEN prev ELSE [prev EXCEPT ![e] = ls.tail]
  /\ ls'.tail = e /\ ls'.oldhead = ls.oldhead
  /\ kind' = kind /\ held' = held /\ own' = own

\* Element x of s is no longer left.
Takes(s, a, m, b, x, a2, b2) ==
  /\ x \in 1..Len(s) /\ Left(x, a, m, b)
  /\ a2 \in Nat /\ b2 \in Nat /\ 1 <= a2 /\ a2 <= m /\ m <= b2 /\ b2 <= Len(s) + 1
  /\ \A i \in 1..Len(s) : Left(i, a2, m, b2) <=> Left(i, a, m, b) /\ i # x

LEMMA TakeLinks ==
  ASSUME FieldsOK, own \in List, NEW s, NEW t, NEW a, NEW m, NEW b, Links(s, t, a, m, b),
         NEW x, NEW a2, NEW b2, Takes(s, a, m, b, x, a2, b2),
         NEW e, e = s[x], Appends(e), ls'.psize = m - a2
  PROVE  Links(s, Append(t, e), a2, m, b2)'
<1> x \in 1..Len(s) /\ Left(x, a, m, b)
  BY DEF Takes
<1> /\ a2 \in Nat /\ b2 \in Nat /\ 1 <= a2 /\ a2 <= m /\ m <= b2 /\ b2 <= Len(s) + 1
    /\ \A i \in 1..Len(s) : Left(i, a2, m, b2) <=> Left(i, a, m, b) /\ i # x
  BY DEF Takes
<1> /\ IF ls.tail = NULL
       THEN SetHead(own, e) /\ UNCHANGED next
       ELSE next' = [next EXCEPT ![ls.tail] = e] /\ UNCHANGED head
    /\ prev' = IF kind = "ll" THEN prev ELSE [prev EXCEPT ![e] = ls.tail]
    /\ ls'.tail = e /\ ls'.oldhead = ls.oldhead
    /\ kind' = kind /\ held' = held /\ own' = own
  BY DEF Appends
<1> DEFINE t2 == Append(t, e)
<1>1. /\ s \in Seq(Elt) /\ Distinct(s) /\ Len(s) > 0 /\ Members(s) = In(own)
      /\ t \in Seq(Elt) /\ Distinct(t)
      /\ a \in Nat /\ m \in Nat /\ b \in Nat
      /\ \A i \in 1..Len(t) : \E j \in 1..Len(s) : t[i] = s[j] /\ ~Left(j, a, m, b)
      /\ \A j \in 1..Len(s) : Left(j, a, m, b) \/ \E i \in 1..Len(t) : t[i] = s[j]
      /\ \A i \in 1..Len(t) - 1 : next[t[i]] = t[i + 1]
      /\ kind # "ll" => \A i \in 1..Len(t) : prev[t[i]] = IF i > 1 THEN t[i - 1] ELSE NULL
      /\ head[own] = IF Len(t) = 0 THEN NULL ELSE t[1]
      /\ ls.tail = IF Len(t) = 0 THEN NULL ELSE t[Len(t)]
      /\ ls.oldhead = s[1]
  BY DEF Links
<1>2. /\ \A i \in 1..Len(s) : Left(i, a, m, b) =>
           next[s[i]] = IF i < Len(s) THEN s[i + 1] ELSE IF kind = "cdl" THEN s[1] ELSE NULL
  BY DEF Links
<1>3. /\ Len(s) \in Nat /\ Len(t) \in Nat /\ e \in Elt
      /\ \A i \in 1..Len(s) : s[i] \in Elt
      /\ \A i \in 1..Len(t) : t[i] \in Elt /\ t[i] # NULL
  <2>1. s \in Seq(Elt) /\ t \in Seq(Elt)
    BY <1>1
  <2>2. /\ Len(s) \in Nat /\ Len(t) \in Nat
        /\ \A i \in 1..Len(s) : s[i] \in Elt
        /\ \A i \in 1..Len(t) : t[i] \in Elt
    BY <2>1
  <2> QED BY <2>2, Apart
<1>4. /\ t2 \in Seq(Elt) /\ Len(t2) = Len(t) + 1 /\ t2[Len(t) + 1] = e
      /\ \A i \in 1..Len(t) : t2[i] = t[i]
      /\ (\A i \in 1..Len(t) : t[i] # e) => Distinct(t2)
  BY <1>1, <1>3, AppendedFacts
<1> HIDE DEF t2
<1>5. \A i \in 1..Len(t) : t[i] # e /\ \A j \in 1..Len(s) : Left(j, a, m, b) => t[i] # s[j]
  BY <1>1 DEF Distinct
<1>6. Distinct(t2)
  BY <1>4, <1>5
<1>7. Members(s) = In(own)'
  BY <1>1 DEF In
<1>8. \A i \in 1..Len(t2) : \E j \in 1..Len(s) : t2[i] = s[j] /\ ~Left(j, a2, m, b2)
  <2> TAKE i \in 1..Len(t2)
  <2>1. CASE i \in 1..Len(t)
    <3>1. PICK j \in 1..Len(s) : t[i] = s[j] /\ ~Left(j, a, m, b)
      BY <1>1, <2>1
    <3>2. t2[i] = t[i]
      BY ONLY <1>4, <2>1
    <3>3. ~Left(j, a2, m, b2)
      BY <3>1
    <3> QED BY ONLY <3>1, <3>2, <3>3, j \in 1..Len(s)
  <2>2. CASE i = Len(t) + 1
    BY <1>4, <2>2
  <2> QED BY <1>3, <1>4, <2>1, <2>2
<1>9. \A j \in 1..Len(s) : Left(j, a2, m, b2) \/ \E i \in 1..Len(t2) : t2[i] = s[j]
  <2> TAKE j \in 1..Len(s)
  <2>1. CASE j = x
    BY <1>3, <1>4, <2>1
  <2>2. CASE j # x /\ ~Left(j, a, m, b)
    <3>1. PICK i \in 1..Len(t) : t[i] = s[j]
      BY <1>1, <2>2
    <3>2. i \in 1..Len(t2)
      BY <1>3, <1>4
    <3> QED BY <1>4, <3>1, <3>2
  <2> QED BY <2>1, <2>2
<1>10. \A y \in Elt : (\A i \in 1..Len(t) : y # t[i]) => next'[y] = next[y]
  <2>1. CASE ls.tail = NULL
    BY <2>1
  <2>2. CASE ls.tail # NULL
    <3>1. Len(t) \in 1..Len(t) /\ ls.tail = t[Len(t)]
      BY <1>1, <1>3, <2>2
    <3> QED BY <2>2, <3>1 DEF FieldsOK
  <2> QED BY <2>1, <2>2
<1>11. \A i \in 1..Len(s) : Left(i, a2, m, b2) =>
         next'[s[i]] = IF i < Len(s) THEN s[i + 1] ELSE IF kind' = "cdl" THEN s[1] ELSE NULL
  <2> SUFFICES ASSUME NEW i \in 1..Len(s), Left(i, a2, m, b2)
               PROVE  next'[s[i]] = IF i < Len(s) THEN s[i + 1] ELSE IF kind = "cdl" THEN s[1] ELSE NULL
    OBVIOUS
  <2>1. Left(i, a, m, b)
    OBVIOUS
  <2>2. next'[s[i]] = next[s[i]]
    BY <1>3, <1>5, <1>10, <2>1
  <2> QED BY <1>2, <2>1, <2>2
<1>12. \A i \in 1..Len(t2) - 1 : next'[t2[i]] = t2[i + 1]
  <2> TAKE i \in 1..Len(t2) - 1
  <2>1. i \in 1..Len(t) /\ Len(t) # 0 /\ Len(t) \in 1..Len(t) /\ t2[i] = t[i]
    BY <1>3, <1>4
  <2>2. ls.tail = t[Len(t)] /\ ls.tail # NULL
    BY <1>1, <1>3, <2>1
  <2>3. CASE i = Len(t)
    <3>1. next'[t[i]] = e
      BY <1>3, <2>1, <2>2, <2>3 DEF FieldsOK
    <3> QED BY <1>4, <2>1, <2>3, <3>1
  <2>4. CASE i < Len(t)
    <3>1. i \in 1..Len(t) - 1 /\ i + 1 \in 1..Len(t)
      BY <1>3, <2>1, <2>4
    <3>2. t[i] # t[Len(t)]
      BY <1>1, <2>1, <2>4, SMTT(60) DEF Distinct
    <3>3. next'[t[i]] = next[t[i]]
      BY <1>3, <2>1, <2>2, <3>2 DEF FieldsOK
    <3> QED BY <1>1, <1>4, <2>1, <3>1, <3>3
  <2> QED BY <1>3, <2>1, <2>3, <2>4
<1>13. kind' # "ll" => \A i \in 1..Len(t2) : prev'[t2[i]] = IF i > 1 THEN t2[i - 1] ELSE NULL
  <2> SUFFICES ASSUME kind # "ll", NEW i \in 1..Len(t2)
               PROVE  prev'[t2[i]] = IF i > 1 THEN t2[i - 1] ELSE NULL
    OBVIOUS
  <2>1. prev' = [prev EXCEPT ![e] = ls.tail]
    OBVIOUS
  <2>2. CASE i \in 1..Len(t)
    <3>1. prev'[t[i]] = prev[t[i]]
      BY <1>3, <1>5, <2>1, <2>2 DEF FieldsOK
    <3>2. i > 1 => i - 1 \in 1..Len(t)
      BY <1>3, <2>2
    <3>3. i > 1 => t2[i - 1] = t[i - 1]
      BY <1>4, <3>2
    <3> QED BY <1>1, <1>4, <2>2, <3>1, <3>3
  <2>3. CASE i = Len(t) + 1
    <3>1. prev'[e] = ls.tail
      BY <1>3, <2>1 DEF FieldsOK
    <3>2. i > 1 => i - 1 = Len(t) /\ Len(t) \in 1..Len(t) /\ Len(t) # 0
      BY <1>3, <2>3
    <3>3. ~(i > 1) => Len(t) = 0
      BY <1>3, <2>3
    <3>4. t2[i] = e /\ ls.tail = IF Len(t) = 0 THEN NULL ELSE t[Len(t)]
      BY ONLY <1>1, <1>4, <2>3
    <3>5. CASE i > 1
      <4>1. t2[i - 1] = t[Len(t)]
        BY ONLY <1>4, <3>2, <3>5
      <4> QED BY ONLY <3>1, <3>2, <3>4, <3>5, <4>1
    <3>6. CASE ~(i > 1)
      BY ONLY <3>1, <3>3, <3>4, <3>6
    <3> QED BY <3>5, <3>6
  <2> QED BY <1>3, <1>4, <2>2, <2>3
<1>14. head'[own] = t2[1] /\ Len(t2) # 0
  <2>1. CASE Len(t) = 0
    <3>1. head' = [head EXCEPT ![own] = e]
      BY <1>1, <2>1 DEF SetHead
    <3> QED BY <1>4, <2>1, <3>1 DEF FieldsOK
  <2>2. CASE Len(t) # 0
    <3>1. ls.tail = t[Len(t)] /\ 1 \in 1..Len(t) /\ Len(t) \in 1..Len(t)
      BY <1>1, <1>3, <2>2
    <3>2. ls.tail # NULL
      BY <1>3, <3>1
    <3> QED BY <1>1, <1>4, <2>2, <3>1, <3>2
  <2> QED BY <1>4, <2>1, <2>2
<1>15. Len(t2) # 0 /\ t2[Len(t2)] = e
  BY <1>3, <1>4
<1> QED
  BY <1>1, <1>4, <1>6, <1>7, <1>8, <1>9, <1>11, <1>12, <1>13, <1>14, <1>15 DEF Links, t2

\* A pass begins with nothing linked.
LEMMA StartLinks ==
  ASSUME FieldsOK, LsOK, own \in List, NEW s, Holds(own, s), Len(s) > 0, ls.psize = 0, StartPass
  PROVE  Links(s, <<>>, 1, 1, 1)' /\ ls'.p = At(s, 1) /\ LsOK' /\ FieldsOK'
<1>1. /\ s \in Seq(Elt) /\ Len(s) \in Nat /\ Distinct(s) /\ head[own] = s[1]
      /\ \A i \in 1..Len(s) :
           next[s[i]] = IF i < Len(s) THEN s[i + 1] ELSE IF kind = "cdl" THEN s[1] ELSE NULL
  BY Reads
<1>2. /\ ls' = [ls EXCEPT !.p = head[own], !.oldhead = head[own], !.tail = NULL, !.nmerges = 0]
      /\ head' = [head EXCEPT ![own] = NULL]
      /\ kind' = kind /\ next' = next /\ held' = held /\ own' = own
  BY DEF StartPass, SetHead
<1>3. Members(s) = In(own)'
  BY <1>2 DEF Holds, In
<1>4. /\ ls'.p = s[1] /\ ls'.oldhead = s[1] /\ ls'.tail = NULL /\ ls'.psize = 0
      /\ LsOK'
  BY <1>1, <1>2 DEF LsOK, FieldsOK
<1>5. head'[own] = NULL /\ FieldsOK'
  BY <1>2 DEF FieldsOK, StartPass
<1>6. Len(<<>>) = 0 /\ <<>> \in Seq(Elt) /\ Distinct(<<>>)
  BY DEF Distinct
<1>7. 1 <= Len(s) + 1
  BY <1>1
<1>8. \A i \in 1..Len(s) : Left(i, 1, 1, 1)
  BY DEF Left
<1>9. Links(s, <<>>, 1, 1, 1)'
  BY <1>1, <1>2, <1>3, <1>4, <1>5, <1>6, <1>7, <1>8 DEF Links
<1> QED BY <1>1, <1>4, <1>5, <1>9 DEF At

\* q goes insize elements ahead of p, or to the end.
LEMMA StartMergeLinks ==
  ASSUME LsOK, NEW s, NEW t, NEW b, Links(s, t, b, b, b), ls.p = At(s, b),
         b <= Len(s), ls.insize > 0, StartMerge,
         NEW m \in Nat,
         m = IF b + ls.insize <= Len(s) THEN b + ls.insize ELSE Len(s) + 1
  PROVE  /\ Links(s, t, b, m, m)' /\ LsOK'
         /\ ls'.p = s[b] /\ ls'.q = At(s, m)
         /\ ls'.nmerges = ls.nmerges + 1 /\ ls'.qsize = ls.insize /\ ls'.insize = ls.insize
<1> DEFINE W == ls.insize
           step(f, n) == IF n = 0 THEN ls.p
                         ELSE IF f[n - 1] = NULL THEN NULL ELSE After(f[n - 1], ls.oldhead)
           at == CHOOSE f : f = [n \in 0..W |-> step(f, n)]
           g == [n \in 0..W |-> At(s, b + n)]
<1>1. /\ s \in Seq(Elt) /\ b \in Nat /\ b >= 1 /\ ls.psize = 0
      /\ W \in Nat /\ W > 0
  BY DEF Links, LsOK
<1>2. Len(s) \in Nat /\ \A i \in 1..Len(s) : s[i] \in Elt /\ s[i] # NULL
  BY <1>1, Apart
<1>3. ls' = [ls EXCEPT !.nmerges = @ + 1, !.q = at[W],
                       !.psize = Cardinality({n \in 1..W : at[n - 1] # NULL}), !.qsize = W]
  BY DEF StartMerge
<1>4. g = [n \in 0..W |-> step(g, n)]
  <2>1. ASSUME NEW n \in 0..W
        PROVE  g[n] = step(g, n)
    <3>1. n = 0 \/ (n - 1 \in 0..W /\ n # 0 /\ b + n = (b + (n - 1)) + 1)
      BY <1>1
    <3>2. CASE n = 0
      <4>1. b + 0 = b
        BY <1>1
      <4> QED BY <3>2, <4>1
    <3>3. CASE n - 1 \in 0..W /\ n # 0 /\ b + n = (b + (n - 1)) + 1
      <4>1. g[n - 1] = At(s, b + (n - 1)) /\ g[n] = At(s, b + n)
        BY <3>3
      <4> DEFINE i == b + (n - 1)
      <4>2. i \in Nat /\ i >= 1 /\ i >= b
        BY <1>1, <3>3
      <4> HIDE DEF W, g, i
      <4>3. CASE i <= Len(s)
        <5>1. i \in 1..Len(s) /\ Left(i, b, b, b)
          BY <1>2, <4>2, <4>3 DEF Left
        <5>2. After(s[i], ls.oldhead) = At(s, i + 1)
          BY <5>1, AfterIs
        <5>3. At(s, i) = s[i] /\ s[i] # NULL
          BY <1>2, <4>3, <5>1 DEF At
        <5>4. At(s, b + n) = At(s, i + 1) /\ g[n - 1] = At(s, i)
          BY <3>3, <4>1 DEF i
        <5> QED BY <3>3, <4>1, <5>2, <5>3, <5>4
      <4>4. CASE ~(i <= Len(s))
        <5>1. ~(i + 1 <= Len(s))
          BY <1>2, <4>2, <4>4
        <5>2. At(s, i) = NULL /\ At(s, i + 1) = NULL
          BY <4>4, <5>1 DEF At
        <5>3. At(s, b + n) = At(s, i + 1) /\ g[n - 1] = At(s, i)
          BY <3>3, <4>1 DEF i
        <5> QED BY <3>3, <4>1, <5>2, <5>3
      <4> QED BY <4>3, <4>4
    <3> QED BY <3>1, <3>2, <3>3
  <2>2. g = [n \in 0..W |-> g[n]]
    OBVIOUS
  <2> HIDE DEF g, W, step
  <2> QED BY <2>1, <2>2
<1>5. at = [n \in 0..W |-> step(at, n)]
  <2> HIDE DEF g, W, step
  <2> QED BY <1>4
<1>6. \A n \in 0..W : at[n] = g[n]
  <2> DEFINE Bad == {n \in 0..W : at[n] # g[n]}
  <2>1. ASSUME Bad # {}
        PROVE  FALSE
    <3>1. Bad \in SUBSET Nat
      BY <1>1
    <3>2. PICK n \in Bad : \A k \in Bad : n <= k
      <4> HIDE DEF Bad
      <4> QED BY <2>1, <3>1, LeastNumber
    <3>3. n \in 0..W /\ at[n] # g[n] /\ at[n] = step(at, n) /\ g[n] = step(g, n)
      <4>1. n \in 0..W /\ at[n] # g[n]
        BY <3>2
      <4> HIDE DEF at, g, step, W
      <4> QED BY <1>4, <1>5, <4>1
    <3>4. n # 0 => n - 1 \in 0..W /\ n - 1 < n
      BY <1>1, <3>3
    <3>5. n # 0 => at[n - 1] = g[n - 1]
      <4> HIDE DEF at, g, W
      <4> QED BY <3>2, <3>4, <1>1
    <3>6. step(at, n) = step(g, n)
      <4> HIDE DEF at, g, W
      <4> QED BY <3>5
    <3> QED BY <3>3, <3>6
  <2> QED BY <2>1
<1>7. \A n \in 0..W : at[n] = At(s, b + n)
  <2> HIDE DEF at, W
  <2> QED BY <1>6
<1>8. m - b \in Nat /\ m - b <= W /\ m > b /\ m <= Len(s) + 1 /\ m >= 1
  BY <1>1, <1>2
<1>9. {n \in 1..W : at[n - 1] # NULL} = 1..(m - b)
  <2>1. ASSUME NEW n \in 1..W
        PROVE  at[n - 1] # NULL <=> n <= m - b
    <3>1. n - 1 \in 0..W
      BY <1>1
    <3>2. at[n - 1] = At(s, b + (n - 1))
      <4> HIDE DEF at, W
      <4> QED BY <1>7, <3>1
    <3>3. At(s, b + (n - 1)) # NULL <=> b + (n - 1) <= Len(s)
      <4>1. b + (n - 1) <= Len(s) => b + (n - 1) \in 1..Len(s)
        BY <1>1, <1>2
      <4> QED BY <1>2, <4>1 DEF At
    <3>4. b + (n - 1) <= Len(s) <=> n <= m - b
      BY <1>1, <1>2
    <3> HIDE DEF at
    <3> QED BY <3>2, <3>3, <3>4
  <2> HIDE DEF at
  <2> QED BY <1>1, <1>8, <2>1
<1>10. Cardinality({n \in 1..W : at[n - 1] # NULL}) = m - b
  <2> HIDE DEF at
  <2> QED BY <1>8, <1>9, CardinalityOfInterval
<1>11. at[W] = At(s, m)
  <2>1. at[W] = At(s, b + W)
    <3> HIDE DEF at
    <3> QED BY <1>1, <1>7
  <2>2. At(s, b + W) = At(s, m)
    BY <1>1, <1>2 DEF At
  <2> HIDE DEF at
  <2> QED BY <2>1, <2>2
<1>12. At(s, m) \in Elt \cup {NULL}
  BY <1>2, <1>8 DEF At
<1>13. /\ ls'.p = ls.p /\ ls'.q = At(s, m) /\ ls'.psize = m - b /\ ls'.qsize = W
       /\ ls'.insize = W /\ ls'.nmerges = ls.nmerges + 1
       /\ ls'.tail = ls.tail /\ ls'.oldhead = ls.oldhead /\ LsOK'
  <2>1. ls' = [ls EXCEPT !.nmerges = ls.nmerges + 1, !.q = At(s, m), !.psize = m - b, !.qsize = W]
    <3> HIDE DEF at, W
    <3> QED BY <1>3, <1>10, <1>11
  <2>2. ls.nmerges + 1 \in Nat
    BY DEF LsOK
  <2>3. W = ls.insize /\ ls.psize = 0 /\ W \in Nat /\ m - b \in Nat
    BY <1>1, <1>8
  <2> HIDE DEF at, W
  <2>4. LsOK'
    <3>1. At(s, m) \in Elt \cup {NULL} /\ m - b \in Nat /\ W \in Nat
      BY <1>12, <2>3
    <3> QED BY <2>1, <2>2, <3>1 DEF LsOK
  <2>5. /\ ls'.p = ls.p /\ ls'.q = At(s, m) /\ ls'.psize = m - b /\ ls'.qsize = W
        /\ ls'.insize = ls.insize /\ ls'.nmerges = ls.nmerges + 1
        /\ ls'.tail = ls.tail /\ ls'.oldhead = ls.oldhead
    BY <2>1 DEF LsOK
  <2> QED BY <2>3, <2>4, <2>5
<1>14. /\ head' = head /\ next' = next /\ prev' = prev /\ kind' = kind /\ held' = held
       /\ own' = own
  BY DEF StartMerge, utlist, fields
<1>15. \A i \in Nat : Left(i, b, m, m) <=> Left(i, b, b, b)
  BY <1>1, <1>8 DEF Left
<1>16. Links(s, t, b, m, m)'
  <2>1. In(own)' = In(own)
    BY <1>14 DEF In
  <2>2. \A i \in 1..Len(s) : Left(i, b, m, m) <=> Left(i, b, b, b)
    BY <1>2, <1>15
  <2> HIDE DEF at, W
  <2>3. \A i \in 1..Len(t) : \E j \in 1..Len(s) : t[i] = s[j] /\ ~Left(j, b, m, m)
    BY <2>2 DEF Links
  <2>4. \A j \in 1..Len(s) : Left(j, b, m, m) \/ \E i \in 1..Len(t) : t[i] = s[j]
    BY <2>2 DEF Links
  <2>5. \A i \in 1..Len(s) : Left(i, b, m, m) =>
       next'[s[i]] = IF i < Len(s) THEN s[i + 1] ELSE IF kind' = "cdl" THEN s[1] ELSE NULL
    BY <2>2, <1>14 DEF Links
  <2>6. /\ s \in Seq(Elt) /\ Distinct(s) /\ Len(s) > 0 /\ Members(s) = In(own)'
        /\ t \in Seq(Elt) /\ Distinct(t)
    BY <2>1 DEF Links
  <2>7. /\ \A i \in 1..Len(t) - 1 : next'[t[i]] = t[i + 1]
        /\ kind' # "ll" => \A i \in 1..Len(t) : prev'[t[i]] = IF i > 1 THEN t[i - 1] ELSE NULL
        /\ head'[own'] = IF Len(t) = 0 THEN NULL ELSE t[1]
        /\ ls'.tail = IF Len(t) = 0 THEN NULL ELSE t[Len(t)]
        /\ ls'.oldhead = s[1]
    BY <1>13, <1>14 DEF Links
  <2>8. /\ b \in Nat /\ m \in Nat /\ 1 <= b /\ b <= m /\ m <= m /\ m <= Len(s) + 1
        /\ ls'.psize = m - b
    BY <1>1, <1>8, <1>13
  <2> QED BY <2>3, <2>4, <2>5, <2>6, <2>7, <2>8 DEF Links
<1>17. ls.p = s[b]
  BY DEF At
<1> HIDE DEF at
<1> QED BY <1>13, <1>16, <1>17

\* All of s is linked: t is the list.
LEMMA EndPassLinks ==
  ASSUME FieldsOK, own \in List, NEW l, l = own, NEW s, NEW t, NEW b, Links(s, t, b, b, b),
         b = Len(s) + 1, CloseList, kind' = kind, held' = held, head' = head
  PROVE  FieldsOK' /\ Len(t) > 0 /\ Members(t) = Members(s) /\ Holds(l, t)'
<1>1. /\ s \in Seq(Elt) /\ Len(s) > 0 /\ Members(s) = In(own)
      /\ t \in Seq(Elt) /\ Distinct(t) /\ b \in Nat
      /\ \A i \in 1..Len(t) : \E j \in 1..Len(s) : t[i] = s[j]
      /\ \A j \in 1..Len(s) : Left(j, b, b, b) \/ \E i \in 1..Len(t) : t[i] = s[j]
      /\ head[own] = IF Len(t) = 0 THEN NULL ELSE t[1]
      /\ ls.tail = IF Len(t) = 0 THEN NULL ELSE t[Len(t)]
  BY DEF Links
<1>2. /\ \A i \in 1..Len(t) - 1 : next[t[i]] = t[i + 1]
      /\ kind # "ll" => \A i \in 1..Len(t) : prev[t[i]] = IF i > 1 THEN t[i - 1] ELSE NULL
  BY DEF Links
<1>3. Len(s) \in Nat /\ Len(t) \in Nat /\ 1 \in 1..Len(s)
  BY <1>1
<1>4. \A j \in 1..Len(s) : \E i \in 1..Len(t) : t[i] = s[j]
  <2>1. \A j \in 1..Len(s) : ~Left(j, b, b, b)
    BY <1>3 DEF Left
  <2> QED BY <1>1, <2>1
<1>5. Members(t) = Members(s)
  <2>1. ASSUME NEW x \in Members(t)
        PROVE  x \in Members(s)
    <3>1. PICK i \in 1..Len(t) : x = t[i]
      BY <2>1 DEF Members
    <3>2. PICK j \in 1..Len(s) : t[i] = s[j]
      BY <1>1, <3>1
    <3> QED BY <3>1, <3>2 DEF Members
  <2>2. ASSUME NEW x \in Members(s)
        PROVE  x \in Members(t)
    <3>1. PICK j \in 1..Len(s) : x = s[j]
      BY <2>2 DEF Members
    <3>2. PICK i \in 1..Len(t) : t[i] = s[j]
      BY <1>4, <3>1
    <3> QED BY <3>1, <3>2 DEF Members
  <2> QED BY <2>1, <2>2
<1>6. Len(t) > 0 /\ 1 \in 1..Len(t) /\ Len(t) \in 1..Len(t)
  <2>1. PICK i \in 1..Len(t) : t[i] = s[1]
    BY <1>3, <1>4
  <2> QED BY <1>3, <2>1
<1>7. /\ head[own] = t[1] /\ ls.tail = t[Len(t)]
      /\ \A i \in 1..Len(t) : t[i] \in Elt
  <2>1. t \in Seq(Elt)
    BY <1>1
  <2>2. \A i \in 1..Len(t) : t[i] \in Elt
    BY <2>1
  <2> QED BY <1>1, <1>6, <2>2
<1>8. /\ prev' = IF kind = "ll" THEN prev ELSE [prev EXCEPT ![t[1]] = t[Len(t)]]
      /\ next' = [next EXCEPT ![t[Len(t)]] = IF kind = "cdl" THEN t[1] ELSE NULL]
  BY <1>7 DEF CloseList
<1>9. FieldsOK'
  BY <1>6, <1>7, <1>8 DEF FieldsOK, Pointer
<1>10. Nexts(kind, t, next')
  <2> SUFFICES ASSUME NEW i \in 1..Len(t)
               PROVE  next'[t[i]] = IF i < Len(t) THEN t[i + 1] ELSE IF kind = "cdl" THEN t[1] ELSE NULL
    BY DEF Nexts
  <2>1. CASE i < Len(t)
    <3>1. i \in 1..Len(t) - 1
      BY <1>3, <2>1
    <3>2. t[i] # t[Len(t)]
      BY <1>1, <1>6, <2>1 DEF Distinct
    <3> QED BY <1>2, <1>6, <1>7, <1>8, <2>1, <3>1, <3>2 DEF FieldsOK
  <2>2. CASE i = Len(t)
    BY <1>6, <1>7, <1>8, <2>2 DEF FieldsOK
  <2> QED BY <1>3, <2>1, <2>2
<1>11. kind # "ll" => Prevs(t, prev')
  <2> SUFFICES ASSUME kind # "ll", NEW i \in 1..Len(t)
               PROVE  prev'[t[i]] = IF i > 1 THEN t[i - 1] ELSE t[Len(t)]
    BY DEF Prevs
  <2>1. CASE i > 1
    <3>1. t[i] # t[1]
      BY <1>1, <1>6, <2>1 DEF Distinct
    <3> QED BY <1>2, <1>6, <1>7, <1>8, <2>1, <3>1 DEF FieldsOK
  <2>2. CASE i = 1
    BY <1>6, <1>7, <1>8, <2>2 DEF FieldsOK
  <2> QED BY <1>3, <2>1, <2>2
<1>12. Chain(kind', t, head'[l], next', prev')
  BY <1>1, <1>3, <1>6, <1>7, <1>10, <1>11 DEF Chain
<1>13. In(l)' = Members(t)
  BY <1>1, <1>5 DEF In
<1> QED BY <1>5, <1>6, <1>9, <1>12, <1>13 DEF Holds

-----------------------------------------------------------------------------
(* The order a pass establishes.                                           *)

\* The list before the sort had x before y.
Earlier(x, y) ==
  \E n, m \in 1..Len(before) : n < m /\ before[n] = x /\ before[m] = y

\* A stable sort has x before y.
Ahead(x, y) == key[x] < key[y] \/ (key[x] = key[y] /\ Earlier(x, y))

Cut(C, i, j) == \E c \in C : i < c /\ c <= j

\* Cut before the positions C, s consists of sorted runs, each of elements
\* that were before those of the next.
InRuns(s, C) ==
  \A i, j \in 1..Len(s) :
    i < j => IF Cut(C, i, j) THEN Earlier(s[i], s[j]) ELSE Ahead(s[i], s[j])

Spaced(C, w) == \A c, d \in C : c < d => c + w <= d

Runs(s, C, w) ==
  /\ C \in SUBSET Nat /\ 1 \in C /\ Spaced(C, w)
  /\ \A c \in C : c <= Len(s) => c + w \in C
  /\ InRuns(s, C)

\* The runs linked so far are of 2 * w elements; the last begins at d.
RunsSoFar(t, D, d, w) ==
  /\ D \in SUBSET Nat /\ 1 \in D /\ d \in D /\ Spaced(D, 2 * w)
  /\ \A c \in D : 1 <= c /\ c <= d /\ (c = d \/ c + 2 * w \in D)
  /\ InRuns(t, D)

\* What is linked comes before what is left.
Crosses(s, t, f, a, m, b, w) ==
  \A i \in 1..Len(t), j \in 1..Len(s) : Left(j, a, m, b) =>
    IF i < f \/ j >= m + w THEN Earlier(t[i], s[j]) ELSE Ahead(t[i], s[j])

SortOK ==
  /\ before \in Seq(Elt) /\ Distinct(before) /\ Members(before) = In(own)
  /\ key \in [Elt -> Key]

LEMMA OrderLaws ==
  ASSUME SortOK, NEW x \in Elt, NEW y \in Elt, NEW z \in Elt
  PROVE  /\ Earlier(x, y) /\ Earlier(y, z) => Earlier(x, z)
         /\ Ahead(x, y) /\ Ahead(y, z) => Ahead(x, z)
<1>1. /\ Len(before) \in Nat
      /\ \A i, j \in 1..Len(before) : before[i] = before[j] => i = j
      /\ key[x] \in Int /\ key[y] \in Int /\ key[z] \in Int
  <2>1. /\ Len(before) \in Nat
        /\ \A i, j \in 1..Len(before) : before[i] = before[j] => i = j
    BY DEF SortOK, Distinct
  <2>2. key[x] \in Key /\ key[y] \in Key /\ key[z] \in Key
    BY DEF SortOK
  <2> QED BY <2>1, <2>2, KeyAssumption
<1>2. ASSUME Earlier(x, y), Earlier(y, z)
      PROVE  Earlier(x, z)
  <2>1. PICK n, m \in 1..Len(before) : n < m /\ before[n] = x /\ before[m] = y
    BY <1>2 DEF Earlier
  <2>2. PICK n2, m2 \in 1..Len(before) : n2 < m2 /\ before[n2] = y /\ before[m2] = z
    BY <1>2 DEF Earlier
  <2>3. m = n2
    BY <1>1, <2>1, <2>2
  <2>4. n < m2
    BY <1>1, <2>1, <2>2, <2>3
  <2> QED BY <2>1, <2>2, <2>4 DEF Earlier
<1>3. ASSUME Ahead(x, y), Ahead(y, z)
      PROVE  Ahead(x, z)
  <2>1. key[x] < key[z] \/ (key[x] = key[z] /\ Earlier(x, y) /\ Earlier(y, z))
    BY <1>1, <1>3 DEF Ahead
  <2> QED BY <1>2, <2>1 DEF Ahead
<1> QED BY <1>2, <1>3

\* The runs at p and q begin at f and m, and a and b are where they are.
Places(s, C, w, f, a, m, b) ==
  /\ f \in Nat /\ a \in Nat /\ m \in Nat /\ b \in Nat
  /\ 1 <= f /\ f <= a /\ a <= m /\ f < m /\ m <= b /\ b <= Len(s) + 1 /\ f \in C
  /\ m = f + w \/ (m < f + w /\ m = Len(s) + 1)

\* Element x is the smaller of those at a and b.
Smaller(s, a, m, b, w, x) ==
  /\ x \in 1..Len(s)
  /\ \/ /\ x = a /\ a < m
        /\ b <= Len(s) /\ b < m + w => key[s[a]] <= key[s[b]]
     \/ /\ x = b /\ b < m + w
        /\ a < m => key[s[b]] < key[s[a]]

\* The element that is taken comes before those that are left.
LEMMA TakenIsAhead ==
  ASSUME SortOK, NEW s \in Seq(Elt), NEW C, NEW w \in Nat, w > 0, Runs(s, C, w),
         NEW f, NEW a, NEW m, NEW b, Places(s, C, w, f, a, m, b),
         NEW x, Smaller(s, a, m, b, w, x),
         NEW j \in 1..Len(s), Left(j, a, m, b), j # x
  PROVE  IF j >= m + w THEN Earlier(s[x], s[j]) ELSE Ahead(s[x], s[j])
<1> /\ f \in Nat /\ a \in Nat /\ m \in Nat /\ b \in Nat
    /\ 1 <= f /\ f <= a /\ a <= m /\ f < m /\ m <= b /\ b <= Len(s) + 1 /\ f \in C
    /\ m = f + w \/ (m < f + w /\ m = Len(s) + 1)
  BY DEF Places
<1> /\ x \in 1..Len(s)
    /\ \/ /\ x = a /\ a < m
          /\ b <= Len(s) /\ b < m + w => key[s[a]] <= key[s[b]]
       \/ /\ x = b /\ b < m + w
          /\ a < m => key[s[b]] < key[s[a]]
  BY DEF Smaller
<1>1. /\ Len(s) \in Nat /\ f <= Len(s)
      /\ \A i \in 1..Len(s) : s[i] \in Elt
  OBVIOUS
<1>2. C \in SUBSET Nat /\ Spaced(C, w) /\ \A c \in C : c <= Len(s) => c + w \in C
  BY DEF Runs
<1>3. \A i, k \in 1..Len(s) :
        i < k => IF Cut(C, i, k) THEN Earlier(s[i], s[k]) ELSE Ahead(s[i], s[k])
  BY DEF Runs, InRuns
<1>4. \A c \in C : f < c => f + w <= c
  BY <1>2 DEF Spaced
<1>5. m <= Len(s) => m \in C /\ m + w \in C /\ \A c \in C : m < c => m + w <= c
  <2> HAVE m <= Len(s)
  <2>1. m = f + w /\ f + w \in C
    BY <1>1, <1>2
  <2>2. m + w \in C
    BY <1>2, <2>1
  <2> QED BY <1>2, <2>1, <2>2 DEF Spaced
\* Within the run at p, and within the run at q, the first is ahead.
<1>6. \A k \in 1..Len(s) : a < k /\ k < m => Ahead(s[a], s[k])
  <2> SUFFICES ASSUME NEW k \in 1..Len(s), a < k, k < m
               PROVE  Ahead(s[a], s[k])
    OBVIOUS
  <2>1. ~Cut(C, a, k)
    <3> SUFFICES ASSUME NEW c \in C, a < c, c <= k PROVE FALSE
      BY DEF Cut
    <3>1. c \in Nat /\ f < c
      BY <1>2
    <3>2. f + w <= c
      BY <1>4, <3>1
    <3> QED BY <3>1, <3>2
  <2>2. a \in 1..Len(s)
    BY <1>1
  <2> QED BY <1>3, <2>1, <2>2
<1>7. \A k \in 1..Len(s) : b < k /\ k < m + w => Ahead(s[b], s[k])
  <2> SUFFICES ASSUME NEW k \in 1..Len(s), b < k, k < m + w
               PROVE  Ahead(s[b], s[k])
    OBVIOUS
  <2>1. m <= Len(s) /\ b \in 1..Len(s)
    BY <1>1
  <2>2. ~Cut(C, b, k)
    <3> SUFFICES ASSUME NEW c \in C, b < c, c <= k PROVE FALSE
      BY DEF Cut
    <3>1. c \in Nat /\ m < c
      BY <1>2
    <3>2. m + w <= c
      BY <1>5, <2>1, <3>1
    <3> QED BY <3>1, <3>2
  <2> QED BY <1>3, <2>1, <2>2
<1>8. CASE j >= m + w
  <2>1. m <= Len(s) /\ x < m + w /\ x < j
    BY <1>1, <1>8
  <2>2. Cut(C, x, j)
    BY <1>5, <1>8, <2>1 DEF Cut
  <2> QED BY <1>3, <1>8, <2>1, <2>2
<1>9. CASE ~(j >= m + w) /\ x = a /\ a < m
  <2>1. CASE a <= j /\ j < m
    <3>1. a < j
      BY <1>9, <2>1
    <3> QED BY <1>6, <1>9, <2>1, <3>1
  <2>2. CASE b <= j
    <3>1. b \in 1..Len(s) /\ b < m + w /\ m <= Len(s) /\ a \in 1..Len(s) /\ a < b
      BY <1>1, <1>9, <2>2
    <3>2. Cut(C, a, b)
      BY <1>5, <1>9, <3>1 DEF Cut
    <3>3. Earlier(s[a], s[b]) 
      BY <1>3, <3>1, <3>2
    <3>4. key[s[a]] <= key[s[b]]
      BY <1>9, <3>1
    <3>5. key[s[a]] \in Int /\ key[s[b]] \in Int
      BY <1>1, <3>1, KeyAssumption DEF SortOK
    <3>6. Ahead(s[a], s[b])
      BY <3>3, <3>4, <3>5 DEF Ahead
    <3>7. CASE j = b
      BY <1>9, <3>6, <3>7
    <3>8. CASE b < j
      <4>1. Ahead(s[b], s[j])
        BY <1>7, <1>9, <3>8
      <4>2. s[a] \in Elt /\ s[b] \in Elt /\ s[j] \in Elt
        BY <1>1, <3>1
      <4> QED BY <1>9, <3>6, <4>1, <4>2, OrderLaws
    <3> QED BY <2>2, <3>7, <3>8
  <2> QED BY <2>1, <2>2 DEF Left
<1>10. CASE ~(j >= m + w) /\ x = b /\ b < m + w /\ (a < m => key[s[b]] < key[s[a]])
  <2>1. CASE b <= j
    <3>1. b < j
      BY <1>10, <2>1
    <3> QED BY <1>7, <1>10, <3>1
  <2>2. CASE a <= j /\ j < m
    <3>1. a \in 1..Len(s) /\ a < m
      BY <1>1, <2>2
    <3>2. Ahead(s[b], s[a])
      BY <1>10, <3>1 DEF Ahead
    <3>3. CASE j = a
      BY <1>10, <3>2, <3>3
    <3>4. CASE a < j
      <4>1. Ahead(s[a], s[j])
        BY <1>6, <2>2, <3>4
      <4>2. s[a] \in Elt /\ s[b] \in Elt /\ s[j] \in Elt
        BY <1>1, <1>10, <3>1
      <4> QED BY <1>10, <3>2, <4>1, <4>2, OrderLaws
    <3> QED BY <2>2, <3>3, <3>4
  <2> QED BY <2>1, <2>2 DEF Left
<1> QED BY <1>8, <1>9, <1>10

LEMMA TakeOrder ==
  ASSUME SortOK, NEW s \in Seq(Elt), NEW t \in Seq(Elt),
         NEW C, NEW D, NEW w \in Nat, w > 0, Runs(s, C, w),
         NEW f, NEW a, NEW m, NEW b, Places(s, C, w, f, a, m, b),
         RunsSoFar(t, D, f, w), Crosses(s, t, f, a, m, b, w), Len(t) = a - 1 + (b - m),
         NEW x, Smaller(s, a, m, b, w, x),
         NEW e, e = s[x], NEW a2, NEW b2, Takes(s, a, m, b, x, a2, b2)
  PROVE  RunsSoFar(Append(t, e), D, f, w) /\ Crosses(s, Append(t, e), f, a2, m, b2, w)
<1> /\ f \in Nat /\ a \in Nat /\ m \in Nat /\ b \in Nat
    /\ 1 <= f /\ f <= a /\ a <= m /\ f < m /\ m <= b /\ b <= Len(s) + 1 /\ f \in C
    /\ m = f + w \/ (m < f + w /\ m = Len(s) + 1)
  BY DEF Places
<1> /\ x \in 1..Len(s)
    /\ \/ /\ x = a /\ a < m
          /\ b <= Len(s) /\ b < m + w => key[s[a]] <= key[s[b]]
       \/ /\ x = b /\ b < m + w
          /\ a < m => key[s[b]] < key[s[a]]
  BY DEF Smaller
<1> \A i \in 1..Len(s) : Left(i, a2, m, b2) <=> Left(i, a, m, b) /\ i # x
  BY DEF Takes
<1> DEFINE t2 == Append(t, e)
<1>1. /\ Len(s) \in Nat /\ Len(t) \in Nat /\ e \in Elt
      /\ Left(x, a, m, b) /\ x < m + w /\ f <= Len(t) + 1
  <2>1. Len(s) \in Nat /\ Len(t) \in Nat /\ e \in Elt
    OBVIOUS
  <2>2. Left(x, a, m, b)
    BY DEF Left
  <2>3. x < m + w /\ f <= Len(t) + 1
    BY SMTT(60), <2>1
  <2> QED BY <2>1, <2>2, <2>3
<1>2. /\ Len(t2) = Len(t) + 1 /\ t2[Len(t) + 1] = e
      /\ \A i \in 1..Len(t) : t2[i] = t[i]
  BY <1>1, AppendedFacts
<1> HIDE DEF t2
<1>3. \A i \in 1..Len(t) : IF i < f THEN Earlier(t[i], e) ELSE Ahead(t[i], e)
  BY <1>1 DEF Crosses
<1>4. D \in SUBSET Nat /\ f \in D /\ \A c \in D : c <= f
  BY DEF RunsSoFar
<1>5. InRuns(t2, D)
  <2> SUFFICES ASSUME NEW i \in 1..Len(t) + 1, NEW j \in 1..Len(t) + 1, i < j
               PROVE  IF Cut(D, i, j) THEN Earlier(t2[i], t2[j]) ELSE Ahead(t2[i], t2[j])
    BY <1>2 DEF InRuns
  <2>1. i \in 1..Len(t) /\ t2[i] = t[i]
    BY <1>1, <1>2, SMTT(60)
  <2>2. CASE j \in 1..Len(t)
    <3>1. t2[j] = t[j]
      BY <1>2, <2>2
    <3> QED BY <2>1, <2>2, <3>1 DEF RunsSoFar, InRuns
  <2>3. CASE j = Len(t) + 1
    <3>1. Cut(D, i, j) <=> i < f
      BY <1>1, <1>4, <2>3 DEF Cut
    <3> QED BY <1>2, <1>3, <2>1, <2>3, <3>1
  <2>4. j \in 1..Len(t) \/ j = Len(t) + 1
    BY ONLY Len(t) \in Nat, j \in 1..Len(t) + 1
  <2> QED BY <2>2, <2>3, <2>4
<1>6. Crosses(s, t2, f, a2, m, b2, w)
  <2> SUFFICES ASSUME NEW i \in 1..Len(t) + 1, NEW j \in 1..Len(s), Left(j, a2, m, b2)
               PROVE  IF i < f \/ j >= m + w THEN Earlier(t2[i], s[j]) ELSE Ahead(t2[i], s[j])
    BY <1>2 DEF Crosses
  <2>1. Left(j, a, m, b) /\ j # x
    OBVIOUS
  <2>2. CASE i \in 1..Len(t)
    <3>1. t2[i] = t[i]
      BY <1>2, <2>2
    <3> QED BY <2>1, <2>2, <3>1 DEF Crosses
  <2>3. CASE i = Len(t) + 1
    <3>1. ~(i < f)
      BY <1>1, <2>3
    <3>2. IF j >= m + w THEN Earlier(s[x], s[j]) ELSE Ahead(s[x], s[j])
      BY <2>1, TakenIsAhead
    <3> QED BY <1>2, <2>3, <3>1, <3>2
  <2>4. i \in 1..Len(t) \/ i = Len(t) + 1
    BY ONLY Len(t) \in Nat, i \in 1..Len(t) + 1
  <2> QED BY <2>2, <2>3, <2>4
<1>7. RunsSoFar(t2, D, f, w)
  BY <1>5 DEF RunsSoFar
<1> QED BY <1>6, <1>7 DEF t2

\* What is linked is runs, the next of which begins at d, and so does what is left.
Merged(s, t, C, D, d, b, w) ==
  /\ RunsSoFar(t, D \cup {d}, d, w)
  /\ b <= Len(s) => b \in C /\ b = d
  /\ b <= d /\ d \in Nat
  /\ \A i \in 1..Len(t), j \in 1..Len(s) : b <= j => Earlier(t[i], s[j])

LEMMA EndMergeOrder ==
  ASSUME NEW s \in Seq(Elt), NEW t \in Seq(Elt),
         NEW C, NEW D, NEW w \in Nat, w > 0, Runs(s, C, w),
         NEW f, NEW m, NEW b, Places(s, C, w, f, m, m, b),
         RunsSoFar(t, D, f, w), Crosses(s, t, f, m, m, b, w), Len(t) = b - 1,
         b <= m + w, b <= Len(s) => b = m + w,
         NEW d, d = f + 2 * w
  PROVE  Merged(s, t, C, D, d, b, w)
<1> /\ f \in Nat /\ m \in Nat /\ b \in Nat
    /\ 1 <= f /\ f < m /\ m <= b /\ b <= Len(s) + 1 /\ f \in C
    /\ m = f + w \/ (m < f + w /\ m = Len(s) + 1)
  BY DEF Places
<1>1. Len(s) \in Nat /\ Len(t) \in Nat /\ d \in Nat
  OBVIOUS
<1>2. /\ C \in SUBSET Nat /\ \A c \in C : c <= Len(s) => c + w \in C
  BY DEF Runs
<1>3. /\ D \in SUBSET Nat /\ 1 \in D /\ f \in D
      /\ \A c, g \in D : c < g => c + 2 * w <= g
      /\ \A c \in D : 1 <= c /\ c <= f /\ (c = f \/ c + 2 * w \in D)
  BY DEF RunsSoFar, Spaced
<1>4. b <= Len(s) => b \in C /\ b = d
  <2> HAVE b <= Len(s)
  <2>1. m = f + w /\ f <= Len(s) /\ b = m + w
    BY <1>1
  <2>2. m \in C /\ m <= Len(s)
    BY <1>1, <1>2, <2>1
  <2> QED BY <1>1, <1>2, <2>1, <2>2
<1>5. b <= d
  BY <1>1
<1>6. ASSUME NEW i \in 1..Len(t), NEW j \in 1..Len(s), b <= j
      PROVE  Earlier(t[i], s[j])
  <2>1. j >= m + w /\ Left(j, m, m, b)
    BY <1>6, <1>1 DEF Left
  <2> QED BY <1>6, <2>1 DEF Crosses
<1>7. Spaced(D \cup {d}, 2 * w)
  <2> SUFFICES ASSUME NEW c \in D \cup {d}, NEW g \in D \cup {d}, c < g
               PROVE  c + 2 * w <= g
    BY DEF Spaced
  <2>1. c \in Nat /\ g \in Nat
    BY <1>1, <1>3
  <2>2. CASE g \in D
    <3>1. c \in D
      BY <1>1, <1>3, <2>1, <2>2
    <3> QED BY <1>3, <2>2, <3>1
  <2>3. CASE g = d
    <3>1. c \in D /\ c <= f
      BY <1>3, <2>3
    <3> QED BY <2>1, <2>3, <3>1
  <2> QED BY <2>2, <2>3
<1>8. InRuns(t, D \cup {d})
  <2> SUFFICES ASSUME NEW i \in 1..Len(t), NEW j \in 1..Len(t), i < j
               PROVE  IF Cut(D \cup {d}, i, j) THEN Earlier(t[i], t[j]) ELSE Ahead(t[i], t[j])
    BY DEF InRuns
  <2>1. j < d
    BY <1>1, <1>5
  <2>2. Cut(D \cup {d}, i, j) <=> Cut(D, i, j)
    BY <1>1, <1>3, <2>1 DEF Cut
  <2>3. IF Cut(D, i, j) THEN Earlier(t[i], t[j]) ELSE Ahead(t[i], t[j])
    BY DEF RunsSoFar, InRuns
  <2> QED BY <2>2, <2>3
<1>9. \A c \in D \cup {d} : 1 <= c /\ c <= d /\ (c = d \/ c + 2 * w \in D \cup {d})
  BY <1>1, <1>3
<1>10. RunsSoFar(t, D \cup {d}, d, w)
  BY <1>1, <1>3, <1>7, <1>8, <1>9 DEF RunsSoFar
<1> QED BY <1>1, <1>4, <1>5, <1>6, <1>10 DEF Merged

\* All is linked: the runs are of twice the size, or there is only one.
LEMMA EndPassOrder ==
  ASSUME NEW s \in Seq(Elt), NEW t \in Seq(Elt), NEW D, NEW w \in Nat, w > 0,
         NEW d \in Nat, RunsSoFar(t, D, d, w), Len(t) < d
  PROVE  /\ Runs(t, D, 2 * w)
         /\ D \subseteq {1, d} => \A i, j \in 1..Len(t) : i < j => Ahead(t[i], t[j])
<1>1. /\ D \in SUBSET Nat /\ 1 \in D /\ Spaced(D, 2 * w) /\ InRuns(t, D) /\ Len(t) \in Nat
      /\ \A c \in D : 1 <= c /\ c <= d /\ (c = d \/ c + 2 * w \in D)
  BY DEF RunsSoFar
<1>2. \A c \in D : c <= Len(t) => c + 2 * w \in D
  BY <1>1
<1>3. ASSUME D \subseteq {1, d}, NEW i \in 1..Len(t), NEW j \in 1..Len(t), i < j
      PROVE  Ahead(t[i], t[j])
  <2>1. ~Cut(D, i, j)
    BY <1>1, <1>3 DEF Cut
  <2> QED BY <1>1, <1>3, <2>1 DEF InRuns
<1> QED BY <1>1, <1>2, <1>3 DEF Runs

\* A list that was not sorted at all consists of runs of one.
LEMMA StartOrder ==
  ASSUME before \in Seq(Elt)
  PROVE  Runs(before, 1..Len(before) + 1, 1)
<1> DEFINE C == 1..Len(before) + 1
<1>1. Len(before) \in Nat
  OBVIOUS
<1>2. C \in SUBSET Nat /\ 1 \in C /\ Spaced(C, 1) /\ \A c \in C : c <= Len(before) => c + 1 \in C
  BY <1>1 DEF Spaced
<1>3. InRuns(before, C)
  <2> SUFFICES ASSUME NEW i \in 1..Len(before), NEW j \in 1..Len(before), i < j
               PROVE  Cut(C, i, j) /\ Earlier(before[i], before[j])
    BY DEF InRuns
  <2>1. j \in C /\ j <= j
    BY <1>1
  <2> QED BY <2>1 DEF Cut, Earlier
<1> QED BY <1>2, <1>3 DEF Runs

-----------------------------------------------------------------------------
(* The turns of SORT.                                                      *)

MergeAt(s, t, b, C, D, d) ==
  /\ Links(s, t, b, b, b) /\ ls.p = At(s, b) /\ Len(t) = b - 1
  /\ Runs(s, C, ls.insize) /\ RunsSoFar(t, D, d, ls.insize) /\ d \in Nat
  /\ b <= Len(s) => b \in C /\ b = d
  /\ b <= d
  /\ \A i \in 1..Len(t), j \in 1..Len(s) : b <= j => Earlier(t[i], s[j])
  /\ ls.nmerges = 0 => d = 1
  /\ ls.nmerges = 1 => D \subseteq {1, d}

TakeAt(s, t, f, a, m, b, C, D) ==
  /\ Links(s, t, a, m, b) /\ Len(t) = a - 1 + (b - m)
  /\ m > a => ls.p = s[a]
  /\ ls.q = At(s, b)
  /\ Runs(s, C, ls.insize) /\ RunsSoFar(t, D, f, ls.insize)
  /\ f \in Nat /\ 1 <= f /\ f <= a /\ f < m /\ f \in C
  /\ m = f + ls.insize \/ (m < f + ls.insize /\ m = Len(s) + 1)
  /\ b + ls.qsize = m + ls.insize
  /\ Crosses(s, t, f, a, m, b, ls.insize)
  /\ ls.nmerges > 0
  /\ ls.nmerges = 1 => f = 1

\* Every turn but the last of a pass leaves these as they are.
SortKeeps == kind' = kind /\ held' = held /\ own' = own /\ key' = key /\ before' = before

LEMMA SameOrder ==
  ASSUME key' = key, before' = before
  PROVE  /\ \A x, y : Earlier(x, y)' <=> Earlier(x, y)
         /\ \A x, y : Ahead(x, y)' <=> Ahead(x, y)
<1>1. \A x, y : Earlier(x, y)' <=> Earlier(x, y)
  BY DEF Earlier
<1> QED BY <1>1 DEF Ahead

LEMMA SameRuns ==
  ASSUME key' = key, before' = before, NEW s, NEW C
  PROVE  InRuns(s, C)' <=> InRuns(s, C)
BY SameOrder DEF InRuns

LEMMA StartPassTurn ==
  ASSUME FieldsOK, LsOK, SortOK, own \in List, NEW s, Holds(own, s), Len(s) > 0,
         ls.psize = 0, ls.insize > 0, NEW C, Runs(s, C, ls.insize), StartPass
  PROVE  /\ FieldsOK' /\ LsOK' /\ ls'.insize > 0
         /\ MergeAt(s, <<>>, 1, C, {1}, 1)'
<1>1. Links(s, <<>>, 1, 1, 1)' /\ ls'.p = At(s, 1) /\ LsOK' /\ FieldsOK'
  BY StartLinks
<1>2. /\ ls'.insize = ls.insize /\ ls'.nmerges = 0 /\ before' = before /\ key' = key
      /\ ls.insize \in Nat
  BY DEF StartPass, LsOK
<1>3. Runs(s, C, ls.insize)'
  BY <1>2, SameRuns DEF Runs
<1>4. RunsSoFar(<<>>, {1}, 1, ls.insize)'
  BY DEF RunsSoFar, InRuns, Spaced
<1>5. 1 \in C /\ Len(<<>>) = 0
  BY DEF Runs
<1>6. (ls.nmerges = 1 => {1} \subseteq {1, 1})' /\ (ls.nmerges = 0 => 1 = 1)'
  OBVIOUS
<1>7. MergeAt(s, <<>>, 1, C, {1}, 1)'
  BY <1>1, <1>3, <1>4, <1>5, <1>6 DEF MergeAt
<1> QED BY <1>1, <1>2, <1>7

LEMMA StartMergeTurn ==
  ASSUME FieldsOK, LsOK, SortOK, own \in List, ls.insize > 0,
         NEW s, NEW t, NEW b, NEW C, NEW D, NEW d, MergeAt(s, t, b, C, D, d), StartMerge
  PROVE  /\ FieldsOK' /\ LsOK' /\ ls'.insize > 0
         /\ \E m : TakeAt(s, t, b, b, m, m, C, D)'
<1>1. /\ Links(s, t, b, b, b) /\ ls.p = At(s, b) /\ Len(t) = b - 1
      /\ Runs(s, C, ls.insize) /\ RunsSoFar(t, D, d, ls.insize)
      /\ b <= Len(s) => b \in C /\ b = d
      /\ \A i \in 1..Len(t), j \in 1..Len(s) : b <= j => Earlier(t[i], s[j])
      /\ ls.nmerges = 0 => d = 1
  BY DEF MergeAt
<1>2. /\ s \in Seq(Elt) /\ t \in Seq(Elt) /\ b \in Nat /\ 1 <= b
  BY <1>1 DEF Links
<1>3. Len(s) \in Nat /\ Len(t) \in Nat /\ ls.insize \in Nat /\ ls.nmerges \in Nat
  BY <1>2 DEF LsOK
<1>4. b <= Len(s)
  <2>1. ls.p # NULL
    BY DEF StartMerge
  <2> QED BY <1>1, <2>1 DEF At
<1> DEFINE m == IF b + ls.insize <= Len(s) THEN b + ls.insize ELSE Len(s) + 1
<1>5. PICK n \in Nat : n = m
  BY <1>2, <1>3
<1>6. /\ Links(s, t, b, n, n)' /\ LsOK' /\ ls'.p = s[b] /\ ls'.q = At(s, n)
      /\ ls'.nmerges = ls.nmerges + 1 /\ ls'.qsize = ls.insize /\ ls'.insize = ls.insize
  BY <1>1, <1>4, <1>5, StartMergeLinks
<1>7. /\ b < n /\ (n = b + ls.insize \/ (n < b + ls.insize /\ n = Len(s) + 1))
  BY <1>2, <1>3, <1>4, <1>5
<1>8. before' = before /\ key' = key /\ FieldsOK'
  BY DEF StartMerge, utlist, fields, FieldsOK
<1>9. Runs(s, C, ls.insize)' /\ RunsSoFar(t, D, b, ls.insize)'
  BY <1>1, <1>4, <1>6, <1>8, SameRuns DEF Runs, RunsSoFar
<1>10. Crosses(s, t, b, b, n, n, ls.insize)'
  <2> SUFFICES ASSUME NEW i \in 1..Len(t), NEW j \in 1..Len(s), Left(j, b, n, n)
               PROVE  i < b /\ Earlier(t[i], s[j])'
    BY DEF Crosses
  <2>1. i < b /\ b <= j
    BY <1>1, <1>2, <1>3, <1>7 DEF Left
  <2> QED BY <1>1, <1>8, <2>1, SameOrder
<1>11. ls'.nmerges > 0 /\ (ls'.nmerges = 1 => b = 1)
  BY <1>1, <1>3, <1>4, <1>6
<1>12. Len(t) = b - 1 + (n - n) /\ n + ls'.qsize = n + ls'.insize /\ b <= b
  BY <1>1, <1>2, <1>6
<1>13. TakeAt(s, t, b, b, n, n, C, D)'
  BY <1>1, <1>2, <1>4, <1>6, <1>7, <1>9, <1>10, <1>11, <1>12 DEF TakeAt
<1> QED BY <1>3, <1>6, <1>8, <1>13

LEMMA SlotOK ==
  ASSUME NEW s \in Seq(Elt), NEW i \in Nat, i >= 1
  PROVE  At(s, i) \in Elt \cup {NULL} /\ (At(s, i) = NULL <=> i > Len(s))
<1>1. Len(s) \in Nat /\ \A j \in 1..Len(s) : s[j] \in Elt
  OBVIOUS
<1>2. CASE i <= Len(s)
  <2>1. s[i] \in Elt
    BY <1>1, <1>2
  <2> QED BY <1>1, <1>2, <2>1, Apart DEF At
<1> QED BY <1>1, <1>2 DEF At

LEMMA TakeTurn ==
  ASSUME FieldsOK, LsOK, SortOK, own \in List, ls.insize > 0,
         NEW s, NEW t, NEW f, NEW a, NEW m, NEW b, NEW C, NEW D,
         TakeAt(s, t, f, a, m, b, C, D), Take
  PROVE  /\ FieldsOK' /\ LsOK' /\ ls'.insize > 0
         /\ \E t2, a2, b2 : TakeAt(s, t2, f, a2, m, b2, C, D)'
         /\ \A l \in List \ {own} : head'[l] = head[l]
         /\ \A y \in Elt \ In(own) : next'[y] = next[y] /\ prev'[y] = prev[y]
<1>1. /\ Links(s, t, a, m, b) /\ Len(t) = a - 1 + (b - m)
      /\ m > a => ls.p = s[a]
      /\ ls.q = At(s, b)
      /\ Runs(s, C, ls.insize) /\ RunsSoFar(t, D, f, ls.insize)
      /\ f \in Nat /\ 1 <= f /\ f <= a /\ f < m /\ f \in C
      /\ m = f + ls.insize \/ (m < f + ls.insize /\ m = Len(s) + 1)
      /\ b + ls.qsize = m + ls.insize
      /\ Crosses(s, t, f, a, m, b, ls.insize)
      /\ ls.nmerges > 0 /\ (ls.nmerges = 1 => f = 1)
  BY DEF TakeAt
<1>2. /\ s \in Seq(Elt) /\ t \in Seq(Elt) /\ Members(s) = In(own)
      /\ a \in Nat /\ m \in Nat /\ b \in Nat /\ 1 <= a /\ a <= m /\ m <= b /\ b <= Len(s) + 1
      /\ ls.psize = m - a
  BY <1>1 DEF Links
<1>3. /\ Len(s) \in Nat /\ Len(t) \in Nat /\ ls.insize \in Nat /\ ls.nmerges \in Nat
      /\ ls.psize \in Nat /\ ls.qsize \in Nat
  BY <1>2 DEF LsOK
<1>4. b >= 1 /\ (ls.q = NULL <=> b > Len(s))
  <2>1. b >= 1
    BY <1>2
  <2> QED BY <1>1, <1>2, <2>1, SlotOK
<1>0. PICK e, x, a2, b2 :
        /\ e = IF FromP THEN ls.p ELSE ls.q
        /\ x = IF FromP THEN a ELSE b
        /\ a2 = IF FromP THEN a + 1 ELSE a
        /\ b2 = IF FromP THEN b ELSE b + 1
  OBVIOUS
<1>5. /\ MoreToMerge
      /\ ls' = IF FromP
               THEN [ls EXCEPT !.p = After(e, ls.oldhead), !.psize = @ - 1, !.tail = e]
               ELSE [ls EXCEPT !.q = After(e, ls.oldhead), !.qsize = @ - 1, !.tail = e]
      /\ IF ls.tail = NULL
         THEN SetHead(own, e) /\ UNCHANGED next
         ELSE next' = [next EXCEPT ![ls.tail] = e] /\ UNCHANGED head
      /\ prev' = IF kind = "ll" THEN prev ELSE [prev EXCEPT ![e] = ls.tail]
      /\ kind' = kind /\ held' = held /\ own' = own /\ key' = key /\ before' = before
  BY <1>0 DEF Take
<1>6. \/ /\ x = a /\ a < m /\ a2 = a + 1 /\ b2 = b /\ FromP
         /\ b <= Len(s) /\ b < m + ls.insize => key[s[a]] <= key[s[b]]
      \/ /\ x = b /\ b < m + ls.insize /\ b <= Len(s) /\ a2 = a /\ b2 = b + 1 /\ ~FromP
         /\ a < m => key[s[b]] < key[s[a]]
  <2>1. CASE FromP
    <3>1. ls.psize > 0 /\ (ls.qsize = 0 \/ ls.q = NULL \/ key[ls.p] <= key[ls.q])
      BY <2>1 DEF FromP
    <3>2. x = a /\ a < m /\ a2 = a + 1 /\ b2 = b /\ ls.p = s[a]
      BY <1>0, <1>1, <1>2, <2>1, <3>1
    <3>3. b <= Len(s) /\ b < m + ls.insize => key[s[a]] <= key[s[b]]
      <4> HAVE b <= Len(s) /\ b < m + ls.insize
      <4>1. ls.qsize # 0 /\ ls.q # NULL /\ ls.q = s[b]
        BY <1>1, <1>2, <1>3, <1>4, SMTT(60) DEF At
      <4> QED BY <3>1, <3>2, <4>1
    <3> QED BY <2>1, <3>2, <3>3
  <2>2. CASE ~FromP
    <3>1. ls.qsize > 0 /\ ls.q # NULL
      BY <1>3, <1>5, <2>2 DEF FromP, MoreToMerge
    <3>2. x = b /\ b < m + ls.insize /\ b <= Len(s) /\ a2 = a /\ b2 = b + 1 /\ ls.q = s[b]
      BY <1>0, <1>1, <1>2, <1>3, <1>4, <2>2, <3>1, SMTT(60) DEF At
    <3>3. a < m => key[s[b]] < key[s[a]]
      <4> HAVE a < m
      <4>1. ls.psize > 0 /\ ls.p = s[a]
        BY <1>1, <1>2
      <4>2. ~(key[ls.p] <= key[ls.q])
        BY <2>2, <3>1, <4>1 DEF FromP
      <4>3. s[a] \in Elt /\ s[b] \in Elt
        BY <1>2, <1>3, <3>2
      <4>4. key[s[a]] \in Int /\ key[s[b]] \in Int
        BY <4>3, KeyAssumption DEF SortOK
      <4> QED BY <3>2, <4>1, <4>2, <4>4
    <3> QED BY <2>2, <3>2, <3>3
  <2> QED BY <2>1, <2>2
<1>7. /\ x \in 1..Len(s) /\ Left(x, a, m, b) /\ e = s[x] /\ e \in Elt
      /\ a2 \in Nat /\ b2 \in Nat /\ 1 <= a2 /\ a2 <= m /\ m <= b2 /\ b2 <= Len(s) + 1
      /\ f <= a2
  <2>1. CASE FromP
    <3>1. x = a /\ a < m /\ ls.p = s[a] /\ e = ls.p /\ a \in 1..Len(s)
      BY <1>0, <1>1, <1>2, <1>3, <1>6, <2>1
    <3>2. Left(a, a, m, b) /\ s[a] \in Elt
      BY <1>2, <3>1 DEF Left
    <3> QED BY <1>0, <1>1, <1>2, <2>1, <3>1, <3>2
  <2>2. CASE ~FromP
    <3>1. x = b /\ ls.q = s[b] /\ e = ls.q /\ b \in 1..Len(s)
      BY <1>0, <1>1, <1>2, <1>3, <1>6, <2>2 DEF At
    <3>2. Left(b, a, m, b) /\ s[b] \in Elt
      BY <1>2, <3>1 DEF Left
    <3>3. a2 = a /\ b2 = b + 1 /\ e = ls.q
      BY <1>0, <2>2
    <3>4. a2 \in Nat /\ b2 \in Nat /\ m <= b2 /\ b2 <= Len(s) + 1
      BY <1>2, <1>3, <3>1, <3>3
    <3>5. f <= a2
      BY <1>1, <3>3
    <3> QED BY <1>2, <3>1, <3>2, <3>3, <3>4, <3>5
  <2> QED BY <2>1, <2>2
<1>8. \A i \in 1..Len(s) : Left(i, a2, m, b2) <=> Left(i, a, m, b) /\ i # x
  BY <1>2, <1>3, <1>6 DEF Left
<1>9. After(e, ls.oldhead) = At(s, x + 1)
  BY <1>1, <1>7, AfterIs
<1>10. At(s, x + 1) \in Elt \cup {NULL}
  <2>1. x + 1 \in Nat /\ x + 1 >= 1
    BY <1>2, <1>3, <1>7
  <2> QED BY <1>2, <2>1, SlotOK
<1>11. FieldsOK'
  <2>1. ls.tail \in Elt \cup {NULL}
    BY DEF LsOK
  <2> QED BY <1>5, <1>7, <2>1 DEF FieldsOK, Pointer, SetHead
<1>12. /\ LsOK' /\ ls'.tail = e /\ ls'.oldhead = ls.oldhead /\ ls'.psize = m - a2
       /\ ls'.insize = ls.insize /\ ls'.nmerges = ls.nmerges
       /\ b2 + ls'.qsize = m + ls.insize
       /\ m > a2 => ls'.p = s[a2]
       /\ ls'.q = At(s, b2)
  <2>1. CASE FromP
    <3>1. ls' = [ls EXCEPT !.p = At(s, x + 1), !.psize = ls.psize - 1, !.tail = e]
      <4> QED BY <1>5, <1>9, <2>1
    <3>2. ls.psize - 1 \in Nat /\ x = a /\ a2 = a + 1 /\ b2 = b
      BY <1>2, <1>3, <1>6, <2>1
    <3>3. /\ ls'.tail = e /\ ls'.oldhead = ls.oldhead /\ ls'.psize = ls.psize - 1
          /\ ls'.insize = ls.insize /\ ls'.nmerges = ls.nmerges /\ ls'.qsize = ls.qsize
          /\ ls'.p = At(s, x + 1) /\ ls'.q = ls.q /\ LsOK'
      <4> QED BY <1>7, <1>10, <3>1, <3>2 DEF LsOK
    <3>4. m > a + 1 => At(s, a + 1) = s[a + 1]
      BY <1>2 DEF At
    <3>5. ls'.psize = m - a2
      BY <1>2, <3>2, <3>3
    <3>6. m > a2 => ls'.p = s[a2]
      BY <3>2, <3>3, <3>4
    <3>7. b2 + ls'.qsize = m + ls.insize /\ ls'.q = At(s, b2)
      BY <1>1, <3>2, <3>3
    <3> QED BY <3>3, <3>5, <3>6, <3>7
  <2>2. CASE ~FromP
    <3>1. ls' = [ls EXCEPT !.q = At(s, x + 1), !.qsize = ls.qsize - 1, !.tail = e]
      <4> QED BY <1>5, <1>9, <2>2
    <3>2. x = b /\ a2 = a /\ b2 = b + 1 /\ b < m + ls.insize
      BY <1>6, <2>2
    <3>4. ls.qsize - 1 \in Nat
      <4>1. b + ls.qsize = m + ls.insize
        BY <1>1
      <4> QED BY <1>2, <1>3, <3>2, <4>1
    <3>3. /\ ls'.tail = e /\ ls'.oldhead = ls.oldhead /\ ls'.psize = ls.psize
          /\ ls'.insize = ls.insize /\ ls'.nmerges = ls.nmerges /\ ls'.qsize = ls.qsize - 1
          /\ ls'.q = At(s, x + 1) /\ ls'.p = ls.p /\ LsOK'
      <4> QED BY <1>7, <1>10, <3>1, <3>2, <3>4 DEF LsOK
    <3> QED BY <1>1, <1>2, <1>3, <3>2, <3>3
  <2> QED BY <2>1, <2>2
<1>21. Takes(s, a, m, b, x, a2, b2)
  BY <1>7, <1>8 DEF Takes
<1>13. Links(s, Append(t, e), a2, m, b2)'
  <2>1. Appends(e)
    BY <1>5, <1>12 DEF Appends
  <2> QED BY <1>1, <1>7, <1>12, <1>21, <2>1, TakeLinks
<1>14. RunsSoFar(Append(t, e), D, f, ls.insize) /\ Crosses(s, Append(t, e), f, a2, m, b2, ls.insize)
  <2>1. Places(s, C, ls.insize, f, a, m, b)
    BY <1>1, <1>2 DEF Places
  <2>2. Smaller(s, a, m, b, ls.insize, x)
    BY <1>6, <1>7 DEF Smaller
  <2> QED BY <1>1, <1>2, <1>3, <1>7, <1>21, <2>1, <2>2, TakeOrder
<1>15. Runs(s, C, ls.insize)' /\ RunsSoFar(Append(t, e), D, f, ls.insize)'
  BY <1>1, <1>5, <1>12, <1>14, SameRuns DEF Runs, RunsSoFar
<1>16. Crosses(s, Append(t, e), f, a2, m, b2, ls.insize)'
  BY <1>5, <1>12, <1>14, SameOrder DEF Crosses
<1>17. Len(Append(t, e)) = a2 - 1 + (b2 - m)
  <2>1. Len(Append(t, e)) = Len(t) + 1
    BY <1>2, <1>7, AppendedFacts
  <2> QED BY <1>1, <1>2, <1>3, <1>6, <2>1, SMTT(60)
<1>18. TakeAt(s, Append(t, e), f, a2, m, b2, C, D)'
  BY <1>1, <1>7, <1>12, <1>13, <1>15, <1>16, <1>17 DEF TakeAt
<1>19. e \in In(own) /\ ls.tail \in In(own) \cup {NULL}
  <2>1. e \in In(own)
    BY <1>2, <1>7 DEF Members
  <2>2. \A i \in 1..Len(t) : t[i] \in In(own)
    BY <1>1, <1>2 DEF Links, Members
  <2>3. ls.tail = IF Len(t) = 0 THEN NULL ELSE t[Len(t)]
    BY <1>1 DEF Links
  <2>4. Len(t) # 0 => Len(t) \in 1..Len(t)
    BY <1>3
  <2> QED BY <2>1, <2>2, <2>3, <2>4
<1>20. /\ \A l \in List \ {own} : head'[l] = head[l]
       /\ \A y \in Elt \ In(own) : next'[y] = next[y] /\ prev'[y] = prev[y]
  BY <1>5, <1>7, <1>19 DEF FieldsOK, SetHead
<1> QED BY <1>11, <1>12, <1>18, <1>20

LEMMA EndMergeTurn ==
  ASSUME FieldsOK, LsOK, SortOK, own \in List, ls.insize > 0,
         NEW s, NEW t, NEW f, NEW a, NEW m, NEW b, NEW C, NEW D,
         TakeAt(s, t, f, a, m, b, C, D), EndMerge
  PROVE  /\ FieldsOK' /\ LsOK' /\ ls'.insize > 0
         /\ \E d : MergeAt(s, t, b, C, D \cup {d}, d)'
<1>1. /\ Links(s, t, a, m, b) /\ Len(t) = a - 1 + (b - m) /\ ls.q = At(s, b)
      /\ Runs(s, C, ls.insize) /\ RunsSoFar(t, D, f, ls.insize)
      /\ f \in Nat /\ 1 <= f /\ f <= a /\ f < m /\ f \in C
      /\ m = f + ls.insize \/ (m < f + ls.insize /\ m = Len(s) + 1)
      /\ b + ls.qsize = m + ls.insize
      /\ Crosses(s, t, f, a, m, b, ls.insize)
      /\ ls.nmerges > 0 /\ (ls.nmerges = 1 => f = 1)
  BY DEF TakeAt
<1>2. /\ s \in Seq(Elt) /\ t \in Seq(Elt)
      /\ a \in Nat /\ m \in Nat /\ b \in Nat /\ 1 <= a /\ a <= m /\ m <= b /\ b <= Len(s) + 1
      /\ ls.psize = m - a
  BY <1>1 DEF Links
<1>3. /\ Len(s) \in Nat /\ Len(t) \in Nat /\ ls.insize \in Nat /\ ls.nmerges \in Nat
      /\ ls.psize \in Nat /\ ls.qsize \in Nat
  BY <1>2 DEF LsOK
<1>4. /\ ~MoreToMerge /\ ls' = [ls EXCEPT !.p = ls.q]
      /\ head' = head /\ next' = next /\ prev' = prev /\ kind' = kind /\ held' = held
      /\ own' = own /\ key' = key /\ before' = before
  BY DEF EndMerge, utlist, fields
<1>5. b >= 1 /\ (ls.q = NULL <=> b > Len(s))
  <2>1. b >= 1
    BY <1>2
  <2> QED BY <1>1, <1>2, <2>1, SlotOK
<1>6. a = m /\ (b <= Len(s) => ls.qsize = 0)
  BY <1>2, <1>3, <1>4, <1>5 DEF MoreToMerge
<1>7. Len(t) = b - 1 /\ b <= m + ls.insize /\ (b <= Len(s) => b = m + ls.insize)
  BY <1>1, <1>2, <1>3, <1>6
<1>8. PICK d : d = f + 2 * ls.insize
  OBVIOUS
<1>9. /\ RunsSoFar(t, D \cup {d}, d, ls.insize)
      /\ b <= Len(s) => b \in C /\ b = d
      /\ b <= d /\ d \in Nat
      /\ \A i \in 1..Len(t), j \in 1..Len(s) : b <= j => Earlier(t[i], s[j])
  <2>1. Crosses(s, t, f, m, m, b, ls.insize)
    BY <1>1, <1>6
  <2>2. Places(s, C, ls.insize, f, m, m, b)
    BY <1>1, <1>2, <1>6 DEF Places
  <2>3. /\ s \in Seq(Elt) /\ t \in Seq(Elt) /\ ls.insize \in Nat
        /\ Runs(s, C, ls.insize) /\ RunsSoFar(t, D, f, ls.insize)
    BY <1>1, <1>2, <1>3
  <2>4. Merged(s, t, C, D, d, b, ls.insize)
    BY <1>7, <1>8, <2>1, <2>2, <2>3, EndMergeOrder
  <2> QED BY <2>4 DEF Merged
<1>10. /\ LsOK' /\ ls'.p = ls.q /\ ls'.tail = ls.tail /\ ls'.oldhead = ls.oldhead
       /\ ls'.psize = 0 /\ ls'.insize = ls.insize /\ ls'.nmerges = ls.nmerges
  BY <1>2, <1>4, <1>6, SMTT(60) DEF LsOK
<1>11. Links(s, t, b, b, b)'
  <2>1. \A i \in 1..Len(s) : Left(i, b, b, b) <=> Left(i, a, m, b)
    BY <1>2, <1>3, <1>6 DEF Left
  <2>2. In(own)' = In(own)
    BY <1>4 DEF In
  <2>3. /\ \A i \in 1..Len(t) : \E j \in 1..Len(s) : t[i] = s[j] /\ ~Left(j, b, b, b)
        /\ \A j \in 1..Len(s) : Left(j, b, b, b) \/ \E i \in 1..Len(t) : t[i] = s[j]
    BY <1>1, <2>1 DEF Links
  <2>4. \A i \in 1..Len(s) : Left(i, b, b, b) =>
          next'[s[i]] = IF i < Len(s) THEN s[i + 1] ELSE IF kind' = "cdl" THEN s[1] ELSE NULL
    BY <1>1, <1>4, <2>1 DEF Links
  <2>5. /\ s \in Seq(Elt) /\ Distinct(s) /\ Len(s) > 0 /\ Members(s) = In(own)'
        /\ t \in Seq(Elt) /\ Distinct(t)
    BY <1>1, <2>2 DEF Links
  <2>6. /\ \A i \in 1..Len(t) - 1 : next'[t[i]] = t[i + 1]
        /\ kind' # "ll" => \A i \in 1..Len(t) : prev'[t[i]] = IF i > 1 THEN t[i - 1] ELSE NULL
        /\ head'[own'] = IF Len(t) = 0 THEN NULL ELSE t[1]
        /\ ls'.tail = IF Len(t) = 0 THEN NULL ELSE t[Len(t)]
        /\ ls'.oldhead = s[1]
    BY <1>1, <1>4, <1>10 DEF Links
  <2>7. /\ b \in Nat /\ 1 <= b /\ b <= b /\ b <= Len(s) + 1 /\ ls'.psize = b - b
    BY <1>2, <1>5, <1>10
  <2> QED BY <2>3, <2>4, <2>5, <2>6, <2>7 DEF Links
<1>12. Runs(s, C, ls.insize)' /\ RunsSoFar(t, D \cup {d}, d, ls.insize)'
  BY <1>1, <1>4, <1>9, <1>10, SameRuns DEF Runs, RunsSoFar
<1>13. \A i \in 1..Len(t), j \in 1..Len(s) : b <= j => Earlier(t[i], s[j])'
  BY <1>4, <1>9, SameOrder
<1>14. (ls'.nmerges = 0 => d = 1) /\ (ls'.nmerges = 1 => D \cup {d} \subseteq {1, d})
  <2>1. f = 1 => D \subseteq {1}
    BY <1>1 DEF RunsSoFar
  <2> QED BY <1>1, <1>3, <1>10, <2>1
<1>15. MergeAt(s, t, b, C, D \cup {d}, d)'
  BY <1>1, <1>7, <1>9, <1>10, <1>11, <1>12, <1>13, <1>14 DEF MergeAt
<1>16. FieldsOK'
  BY <1>4 DEF FieldsOK
<1> QED BY <1>3, <1>10, <1>15, <1>16

\* At the end of a pass the list is whole again, and in longer runs, or sorted.
LEMMA EndPassTurn ==
  ASSUME FieldsOK, LsOK, SortOK, own \in List, ls.insize > 0, NEW l, l = own,
         NEW s, NEW t, NEW b, NEW C, NEW D, NEW d, MergeAt(s, t, b, C, D, d), EndPass
  PROVE  /\ FieldsOK' /\ Holds(l, t)' /\ Len(t) > 0 /\ Members(t) = Members(s)
         /\ Runs(t, D, 2 * ls.insize)
         /\ ls.nmerges <= 1 => \A i, j \in 1..Len(t) : i < j => Ahead(t[i], t[j])
         /\ ls.psize = 0
<1>1. /\ Links(s, t, b, b, b) /\ ls.p = At(s, b) /\ Len(t) = b - 1
      /\ RunsSoFar(t, D, d, ls.insize) /\ d \in Nat /\ b <= d
      /\ ls.nmerges = 0 => d = 1
      /\ ls.nmerges = 1 => D \subseteq {1, d}
  BY DEF MergeAt
<1>2. /\ s \in Seq(Elt) /\ t \in Seq(Elt) /\ Len(s) > 0 /\ b \in Nat /\ 1 <= b /\ b <= Len(s) + 1
      /\ ls.psize = b - b
  BY <1>1 DEF Links
<1>3. Len(s) \in Nat /\ Len(t) \in Nat /\ ls.insize \in Nat /\ ls.nmerges \in Nat
  BY <1>2 DEF LsOK
<1>4. /\ ls.p = NULL /\ CloseList /\ kind' = kind /\ held' = held /\ head' = head
  BY DEF EndPass, Calls
<1>5. b = Len(s) + 1
  <2>1. b > Len(s)
    BY <1>1, <1>2, <1>4, SlotOK
  <2> QED BY <1>2, <1>3, <2>1
<1>6. FieldsOK' /\ Len(t) > 0 /\ Members(t) = Members(s) /\ Holds(l, t)'
  BY <1>1, <1>4, <1>5, EndPassLinks
<1>7. Len(t) < d
  BY <1>1, <1>2, <1>3
<1>8. /\ Runs(t, D, 2 * ls.insize)
      /\ D \subseteq {1, d} => \A i, j \in 1..Len(t) : i < j => Ahead(t[i], t[j])
  BY <1>1, <1>2, <1>3, <1>7, EndPassOrder
<1>9. ls.nmerges <= 1 => ls.nmerges = 1
  BY <1>1, <1>3, <1>6, <1>7
<1> QED BY <1>1, <1>2, <1>6, <1>8, <1>9

\* No turn of SORT writes to the other lists.
LEMMA SortFrame ==
  ASSUME FieldsOK, own \in List, LsOK,
         kind' = kind, held' = held, NEW l \in List \ {own}, NEW u, Holds(l, u),
         head'[l] = head[l],
         \A x \in Elt \ In(own) : next'[x] = next[x] /\ prev'[x] = prev[x]
  PROVE  Holds(l, u)'
<1>1. \A x \in In(l) : x \in Elt \ In(own)
  BY DEF In
<1>2. In(l)' = In(l)
  BY DEF In
<1> QED BY <1>1, <1>2, Kept

-----------------------------------------------------------------------------
(* FOREACH_SAFE and FOREACH.                                               *)

\* The elements not visited yet are in the list, each linked to the next.
Walking ==
  /\ before \in Seq(Elt) /\ Distinct(before)
  /\ visited \in Seq(Elt) /\ Len(visited) <= Len(before)
  /\ \A i \in 1..Len(visited) : visited[i] = before[i]
  /\ el = At(before, Len(visited) + 1)
  /\ \A j \in 1..Len(before) : j > Len(visited) =>
       /\ before[j] \in In(own)
       /\ j < Len(before) => next[before[j]] = before[j + 1]
       /\ j = Len(before) => IF kind = "cdl" THEN last = before[j] ELSE next[before[j]] = NULL

\* A search or count has come as far as the elements it has gone through.
Looking(s) ==
  /\ Holds(own, s)
  /\ visited \in Seq(Elt) /\ Len(visited) <= Len(s)
  /\ \A i \in 1..Len(visited) : visited[i] = s[i] /\ key[s[i]] = 1
  /\ el = At(s, Len(visited) + 1)

LEMMA WalkBegins ==
  ASSUME FieldsOK, NEW l \in List, NEW s, Holds(l, s), visited = <<>>, StartWalk(l)
  PROVE  Walking'
<1>1. /\ s \in Seq(Elt) /\ Len(s) \in Nat /\ Distinct(s)
      /\ \A i \in 1..Len(s) : s[i] \in In(l)
      /\ head[l] = IF Len(s) = 0 THEN NULL ELSE s[1]
      /\ \A i \in 1..Len(s) :
           next[s[i]] = IF i < Len(s) THEN s[i + 1]
                        ELSE IF kind = "cdl" THEN s[1] ELSE NULL
      /\ kind # "ll" => \A i \in 1..Len(s) :
                          prev[s[i]] = IF i > 1 THEN s[i - 1] ELSE s[Len(s)]
  BY Reads
<1>2. Contents(l) = s
  BY ContentsIs
<1>3. /\ own' = l /\ el' = head[l] /\ before' = s /\ visited' = <<>>
      /\ last' = IF kind = "cdl" /\ head[l] # NULL THEN prev[head[l]] ELSE NULL
      /\ next' = next /\ held' = held /\ kind' = kind
  BY <1>2 DEF StartWalk, fields, Calls
<1>4. In(l)' = In(l)
  BY <1>3 DEF In
<1>5. el' = At(s, 1)
  BY <1>1, <1>3 DEF At
<1>6. kind = "cdl" /\ Len(s) > 0 => last' = s[Len(s)]
  <2> HAVE kind = "cdl" /\ Len(s) > 0
  <2>1. 1 \in 1..Len(s) /\ ~(1 > 1) /\ head[l] = s[1]
    BY <1>1
  <2>2. s[1] # NULL
    BY <1>1, <2>1, Apart DEF In
  <2>3. prev[s[1]] = s[Len(s)]
    BY <1>1, <2>1
  <2> QED BY <1>3, <2>1, <2>2, <2>3
<1>7. \A j \in 1..Len(s) : j > 0 =>
       /\ s[j] \in In(l)'
       /\ j < Len(s) => next'[s[j]] = s[j + 1]
       /\ j = Len(s) => IF kind' = "cdl" THEN last' = s[j] ELSE next'[s[j]] = NULL
  BY <1>1, <1>3, <1>4, <1>6
<1>8. <<>> \in Seq(Elt) /\ Len(<<>>) = 0 /\ 0 <= Len(s) /\ 0 + 1 = 1 /\ 1..0 = {}
  BY <1>1
<1> QED BY <1>1, <1>3, <1>5, <1>7, <1>8 DEF Walking, In

\* DELETE writes to the next of what it deletes, and of what leads there.
LEMMA DeleteNexts ==
  ASSUME FieldsOK, NEW l \in List, NEW s, Holds(l, s),
         NEW n \in 1..Len(s), NEW o, o = s[n], Makes(l, Removed(s, n)), kind' = kind,
         NEW x \in In(l), x # o, next[x] # o
  PROVE  next'[x] = next[x]
<1>1. /\ s \in Seq(Elt) /\ Len(s) \in Nat /\ Distinct(s)
      /\ \A i \in 1..Len(s) :
           next[s[i]] = IF i < Len(s) THEN s[i + 1]
                        ELSE IF kind = "cdl" THEN s[1] ELSE NULL
  BY Reads
<1>2. PICK i \in 1..Len(s) : x = s[i]
  BY Reads, SMTT(60)
<1> DEFINE r == Removed(s, n)
<1>3. Len(r) = Len(s) - 1 /\ \A k \in 1..Len(s) - 1 : r[k] = IF k < n THEN s[k] ELSE s[k + 1]
  BY <1>1, RemovedFacts DEF Removed
<1>4. \A k \in 1..Len(r) :
        next'[r[k]] = IF k < Len(r) THEN r[k + 1] ELSE IF kind = "cdl" THEN r[1] ELSE NULL
  BY DEF Makes, Chain, Nexts
<1> HIDE DEF r
<1>5. i # n /\ n \in Nat /\ i \in Nat
  BY <1>1, <1>2
<1>6. CASE i < n
  <2>1. i \in 1..Len(r) /\ r[i] = x
    BY <1>1, <1>2, <1>3, <1>6
  <2>2. i + 1 # n
    BY <1>1, <1>2, <1>5, <1>6
  <2>3. i + 1 < n /\ i + 1 \in 1..Len(s) - 1 /\ i < Len(r) /\ i < Len(s)
    BY <1>1, <1>3, <1>5, <1>6, <2>2
  <2>4. r[i + 1] = s[i + 1]
    BY <1>3, <2>3
  <2> QED BY <1>1, <1>2, <1>4, <2>1, <2>3, <2>4
<1>7. CASE i > n
  <2>1. i - 1 \in 1..Len(r) /\ i - 1 \in 1..Len(s) - 1 /\ (i - 1) + 1 = i /\ ~(i - 1 < n)
    BY <1>1, <1>3, <1>5, <1>7
  <2>2. r[i - 1] = x
    BY <1>2, <1>3, <2>1
  <2>3. CASE i < Len(s)
    <3>1. i - 1 < Len(r) /\ i \in 1..Len(s) - 1 /\ ~(i < n)
      BY <1>1, <1>3, <1>5, <1>7, <2>3
    <3>2. r[(i - 1) + 1] = s[i + 1]
      BY <1>3, <2>1, <3>1
    <3> QED BY <1>1, <1>2, <1>4, <2>1, <2>2, <2>3, <3>1, <3>2
  <2>4. CASE i = Len(s)
    <3>1. ~(i - 1 < Len(r)) /\ ~(i < Len(s))
      BY <1>1, <1>3, <1>5, <2>4
    <3>2. next'[x] = IF kind = "cdl" THEN r[1] ELSE NULL
      BY <1>4, <2>1, <2>2, <3>1
    <3>3. next[x] = IF kind = "cdl" THEN s[1] ELSE NULL
      BY <1>1, <1>2, <3>1
    <3>4. CASE kind = "cdl"
      <4>1. n # 1
        BY <3>3, <3>4
      <4>2. 1 < n /\ 1 \in 1..Len(s) - 1
        BY <1>1, <1>5, <1>7, <2>1, <4>1
      <4>3. r[1] = s[1]
        BY <1>3, <4>2
      <4> QED BY <3>2, <3>3, <4>3
    <3> QED BY <3>2, <3>3, <3>4
  <2> QED BY <1>1, <1>2, <2>3, <2>4
<1> QED BY <1>5, <1>6, <1>7

\* One element on: what is left of the walk is as it was.
LEMMA WalkGoesOn ==
  ASSUME FieldsOK, Walking, Visit, Onwards, kind' = kind,
         \A x \in In(own) : x # el => x \in In(own)',
         \A x \in In(own) : x # el /\ next[x] # el => next'[x] = next[x]
  PROVE  Walking'
<1>1. /\ before \in Seq(Elt) /\ Distinct(before)
      /\ visited \in Seq(Elt) /\ Len(visited) <= Len(before)
      /\ \A i \in 1..Len(visited) : visited[i] = before[i]
      /\ el = At(before, Len(visited) + 1)
  BY DEF Walking
<1>2. \A j \in 1..Len(before) : j > Len(visited) =>
        /\ before[j] \in In(own)
        /\ j < Len(before) => next[before[j]] = before[j + 1]
        /\ j = Len(before) =>
             IF kind = "cdl" THEN last = before[j] ELSE next[before[j]] = NULL
  BY DEF Walking
<1>3. /\ el \in Elt /\ visited' = Append(visited, el) /\ own' = own /\ last' = last
      /\ before' = before
      /\ el' = IF kind = "cdl" /\ el = last THEN NULL ELSE next[el]
  BY DEF Visit, Onwards
<1> DEFINE k == Len(visited) + 1
<1>4. /\ Len(visited) \in Nat /\ Len(before) \in Nat /\ k \in Nat /\ k > Len(visited)
      /\ \A j \in 1..Len(before) : before[j] \in Elt /\ before[j] # NULL
  <2>1. before \in Seq(Elt) /\ visited \in Seq(Elt)
    BY <1>1
  <2>2. \A j \in 1..Len(before) : before[j] \in Elt
    BY <2>1
  <2> QED BY <2>1, <2>2, Apart
<1>5. k \in 1..Len(before) /\ el = before[k]
  <2>1. k <= Len(before)
    BY <1>1, <1>3, Apart DEF At
  <2> QED BY <1>1, <1>4, <2>1 DEF At
<1>6. /\ visited' \in Seq(Elt) /\ Len(visited') = k
      /\ \A i \in 1..k : visited'[i] = before[i]
  <2>1. /\ visited' \in Seq(Elt) /\ Len(visited') = k /\ visited'[k] = el
        /\ \A i \in 1..Len(visited) : visited'[i] = visited[i]
    BY <1>1, <1>3, AppendedFacts
  <2>2. \A i \in 1..k : i = k \/ i \in 1..Len(visited)
    BY <1>4
  <2> QED BY <1>1, <1>5, <2>1, <2>2
<1> HIDE DEF k
<1>7. el' = At(before, k + 1)
  <2>1. CASE k < Len(before)
    <3>1. next[el] = before[k + 1] /\ k + 1 <= Len(before) /\ Len(before) \in 1..Len(before)
      BY <1>2, <1>4, <1>5, <2>1
    <3>2. kind = "cdl" => el # last
      <4> HAVE kind = "cdl"
      <4>1. Len(before) > Len(visited)
        BY <1>4, <2>1
      <4>2. last = before[Len(before)]
        BY <1>2, <3>1, <4>1
      <4>3. before[k] # before[Len(before)]
        BY <1>1, <1>5, <2>1, <3>1 DEF Distinct
      <4> QED BY <1>5, <4>2, <4>3
    <3> QED BY <1>3, <3>1, <3>2 DEF At
  <2>2. CASE k = Len(before)
    <3>1. IF kind = "cdl" THEN last = before[k] ELSE next[before[k]] = NULL
      BY <1>2, <1>4, <1>5, <2>2
    <3>2. ~(k + 1 <= Len(before))
      BY <1>4, <2>2
    <3> QED BY <1>3, <1>5, <3>1, <3>2 DEF At
  <2> QED BY <1>4, <1>5, <2>1, <2>2
<1>8. ASSUME NEW j \in 1..Len(before), j > k
      PROVE  /\ before[j] \in In(own)'
             /\ j < Len(before) => next'[before[j]] = before[j + 1]
             /\ j = Len(before) =>
                  IF kind' = "cdl" THEN last' = before[j] ELSE next'[before[j]] = NULL
  <2>1. j > Len(visited) /\ before[j] # el
    BY <1>1, <1>4, <1>5, <1>8 DEF Distinct
  <2>2. /\ before[j] \in In(own)
        /\ j < Len(before) => next[before[j]] = before[j + 1]
        /\ j = Len(before) =>
             IF kind = "cdl" THEN last = before[j] ELSE next[before[j]] = NULL
    BY <1>2, <2>1
  <2>3. before[j] \in In(own)'
    BY <2>1, <2>2
  <2>4. j < Len(before) => next'[before[j]] = before[j + 1]
    <3> HAVE j < Len(before)
    <3>1. j + 1 \in 1..Len(before) /\ j + 1 # k
      BY <1>4, <1>5, <1>8
    <3>2. before[j + 1] # el
      BY <1>1, <1>5, <3>1 DEF Distinct
    <3> QED BY <2>1, <2>2, <3>2
  <2>5. j = Len(before) /\ kind # "cdl" => next'[before[j]] = NULL
    BY <1>3, <2>1, <2>2, Apart
  <2> QED BY <1>3, <2>2, <2>3, <2>4, <2>5
<1>9. /\ Len(visited') <= Len(before') /\ el' = At(before', Len(visited') + 1)
      /\ \A i \in 1..Len(visited') : visited'[i] = before'[i]
      /\ before' \in Seq(Elt) /\ Distinct(before')
  BY <1>1, <1>3, <1>4, <1>5, <1>6, <1>7
<1>10. \A j \in 1..Len(before') : j > Len(visited') =>
       /\ before'[j] \in In(own)'
       /\ j < Len(before') => next'[before'[j]] = before'[j + 1]
       /\ j = Len(before') =>
            IF kind' = "cdl" THEN last' = before'[j] ELSE next'[before'[j]] = NULL
  BY <1>3, <1>6, <1>8
<1> QED BY <1>6, <1>9, <1>10 DEF Walking

LEMMA WalkedIsIn ==
  ASSUME Walking, el \in Elt
  PROVE  el \in In(own)
<1>1. /\ before \in Seq(Elt) /\ visited \in Seq(Elt)
      /\ el = At(before, Len(visited) + 1)
      /\ \A j \in 1..Len(before) : j > Len(visited) => before[j] \in In(own)
  BY DEF Walking
<1>2. Len(visited) + 1 \in 1..Len(before) /\ Len(visited) + 1 > Len(visited)
  BY <1>1, Apart DEF At
<1> QED BY <1>1, <1>2 DEF At

LEMMA LookBegins ==
  ASSUME FieldsOK, NEW l \in List, NEW s, Holds(l, s), visited = <<>>, StartFor(l)
  PROVE  Looking(s)'
<1>1. /\ s \in Seq(Elt) /\ Len(s) \in Nat
      /\ head[l] = IF Len(s) = 0 THEN NULL ELSE s[1]
  BY Reads
<1>2. /\ own' = l /\ el' = head[l] /\ visited' = <<>>
      /\ head' = head /\ next' = next /\ prev' = prev /\ held' = held /\ kind' = kind
  BY DEF StartFor, fields, Calls
<1>3. Holds(l, s)'
  BY <1>2 DEF Holds, In
<1>4. Holds(own, s)'
  BY <1>2, <1>3 DEF Holds, In
<1>5. el' = At(s, 1)
  BY <1>1, <1>2 DEF At
<1>6. <<>> \in Seq(Elt) /\ Len(<<>>) = 0 /\ 0 <= Len(s) /\ 0 + 1 = 1 /\ 1..0 = {}
  BY <1>1
<1> QED BY <1>2, <1>4, <1>5, <1>6 DEF Looking

LEMMA LookGoesOn ==
  ASSUME FieldsOK, own \in List, NEW s, Looking(s), ForOnwards
  PROVE  Looking(s)'
<1>1. /\ Holds(own, s) /\ visited \in Seq(Elt) /\ Len(visited) <= Len(s)
      /\ \A i \in 1..Len(visited) : visited[i] = s[i] /\ key[s[i]] = 1
      /\ el = At(s, Len(visited) + 1)
  BY DEF Looking
<1>2. /\ s \in Seq(Elt) /\ Len(s) \in Nat /\ Distinct(s)
      /\ \A i \in 1..Len(s) : s[i] \in Elt /\ s[i] # NULL
      /\ head[own] = IF Len(s) = 0 THEN NULL ELSE s[1]
      /\ \A i \in 1..Len(s) :
           next[s[i]] = IF i < Len(s) THEN s[i + 1]
                        ELSE IF kind = "cdl" THEN s[1] ELSE NULL
  BY <1>1, Reads
<1>3. /\ el # NULL /\ key[el] = 1 /\ el' = After(el, head[own])
      /\ visited' = Append(visited, el) /\ own' = own /\ key' = key
      /\ head' = head /\ next' = next /\ prev' = prev /\ held' = held /\ kind' = kind
  BY DEF ForOnwards, utlist, fields
<1>4. Holds(own, s)'
  BY <1>1, <1>3 DEF Holds, In
<1> DEFINE k == Len(visited) + 1
<1>5. k \in 1..Len(s) /\ el = s[k] /\ k \in Nat /\ Len(visited) \in Nat
  <2>1. Len(visited) \in Nat
    BY <1>1
  <2>2. k <= Len(s)
    BY <1>1, <1>3 DEF At
  <2> QED BY <1>1, <1>2, <2>1, <2>2 DEF At
<1>6. /\ visited' \in Seq(Elt) /\ Len(visited') = k
      /\ \A i \in 1..k : visited'[i] = s[i] /\ key'[s[i]] = 1
  <2>1. el \in Elt
    BY <1>2, <1>5
  <2>2. /\ visited' \in Seq(Elt) /\ Len(visited') = k /\ visited'[k] = el
        /\ \A i \in 1..Len(visited) : visited'[i] = visited[i]
    BY <1>1, <1>3, <2>1, AppendedFacts
  <2>3. \A i \in 1..k : i = k \/ i \in 1..Len(visited)
    BY <1>5
  <2> QED BY <1>1, <1>3, <1>5, <2>2, <2>3
<1> HIDE DEF k
<1>7. el' = At(s, k + 1)
  <2>1. CASE k < Len(s)
    <3>1. k + 1 \in 1..Len(s) /\ 1 \in 1..Len(s) /\ next[el] = s[k + 1] /\ head[own] = s[1]
      BY <1>2, <1>5, <2>1
    <3>2. s[k + 1] # s[1]
      BY <1>2, <1>5, <3>1 DEF Distinct
    <3> QED BY <1>2, <1>3, <3>1, <3>2 DEF At, After
  <2>2. CASE k = Len(s)
    <3>1. ~(k + 1 <= Len(s)) /\ head[own] = s[1]
         /\ next[el] = IF kind = "cdl" THEN s[1] ELSE NULL
      BY <1>2, <1>5, <2>2
    <3> QED BY <1>3, <3>1 DEF At, After
  <2> QED BY <1>2, <1>5, <2>1, <2>2
<1> QED BY <1>4, <1>5, <1>6, <1>7 DEF Looking

-----------------------------------------------------------------------------
(* The inductive invariant.                                                *)

Base ==
  /\ kind \in {"ll", "dl", "cdl"} /\ FieldsOK /\ HeldOK /\ CallOK /\ LsOK
  /\ pc \in {"idle", "pass", "merge", "take", "walk", "search", "count"}
  /\ pc # "idle" => own \in List
  /\ key \in [Elt -> Key]
  /\ pc = "search" => key \in [Elt -> {1, 2}]
  /\ pc \in {"idle", "walk", "count"} => \A e \in Elt : key[e] = 1
  /\ pc \notin {"walk", "search", "count"} => visited = <<>>

Whole == \A l \in List : (Sorting /\ l = own) \/ \E s : Holds(l, s)

InPass ==
  /\ pc = "pass" => \E s, C : /\ Holds(own, s) /\ Len(s) > 0
                              /\ Runs(s, C, ls.insize) /\ ls.psize = 0
  /\ pc = "merge" => \E s, t, b, C, D, d : MergeAt(s, t, b, C, D, d)
  /\ pc = "take" => \E s, t, f, a, m, b, C, D : TakeAt(s, t, f, a, m, b, C, D)

InLoop ==
  /\ Sorting => SortOK /\ ls.insize > 0
  /\ InPass
  /\ pc = "walk" => Walking
  /\ pc \in {"search", "count"} => \E s : Looking(s)

Inv == Base /\ Whole /\ InLoop

LEMMA NoElements ==
  ASSUME LoopsInit, NEW l \in List
  PROVE  Holds(l, <<>>)
<1>1. <<>> \in Seq(Elt) /\ Len(<<>>) = 0 /\ Members(<<>>) = {}
  BY DEF Members
<1>2. Chain(kind, <<>>, head[l], next, prev)
  BY <1>1 DEF LoopsInit, Init, Chain, Distinct, Nexts, Prevs
<1>3. In(l) = {}
  BY Apart DEF LoopsInit, Init, In
<1> QED BY <1>1, <1>2, <1>3 DEF Holds

LEMMA InvInit == LoopsInit => Inv
<1> SUFFICES ASSUME LoopsInit PROVE Inv
  OBVIOUS
<1>1. /\ kind \in {"ll", "dl", "cdl"} /\ FieldsOK /\ HeldOK /\ CallOK
  BY DEF LoopsInit, Init, FieldsOK, HeldOK, CallOK, Pointer, Macro
<1>2. LsOK
  BY DEF LoopsInit, LsOK, Idle
<1>3. Base
  BY <1>1, <1>2, KeyAssumption DEF LoopsInit, Base
<1>4. \A l \in List : Holds(l, <<>>)
  BY NoElements
<1>5. Whole
  BY <1>4 DEF Whole
<1>6. InLoop
  BY DEF LoopsInit, InLoop, InPass, Sorting
<1> QED BY <1>3, <1>5, <1>6 DEF Inv

LEMMA Resets ==
  ASSUME Reset
  PROVE  /\ LsOK' /\ pc' = "idle" /\ InLoop' /\ ~Sorting'
         /\ key' \in [Elt -> Key] /\ (\A e \in Elt : key'[e] = 1) /\ visited' = <<>>
<1>1. LsOK'
  BY DEF Reset, LsOK, Idle
<1> QED BY <1>1, KeyAssumption DEF Reset, InLoop, InPass, Sorting

\* What leaves the memory as it is.
LEMMA SameLists ==
  ASSUME head' = head, next' = next, prev' = prev, held' = held, kind' = kind
  PROVE  /\ \A l, s : Holds(l, s)' <=> Holds(l, s)
         /\ FieldsOK' <=> FieldsOK
         /\ HeldOK' <=> HeldOK
<1>1. \A l : In(l)' = In(l)
  BY DEF In
<1> QED BY <1>1 DEF Holds, FieldsOK, HeldOK

LEMMA InvCall ==
  ASSUME Inv, Call
  PROVE  Inv'
<1>1. pc = "idle" /\ Next /\ pc' = pc /\ own' = own /\ key' = key /\ ls' = ls /\ visited' = visited
  BY DEF Call, locals
<1>2. Base /\ Whole
  BY DEF Inv
<1>3. AllHeld
  BY <1>1, <1>2 DEF Whole, AllHeld, Sorting
<1>4. FieldsOK' /\ HeldOK' /\ AllHeld' /\ CallOK' /\ kind' = kind
  BY <1>1, <1>2, <1>3, NextKeeps DEF Base
<1>5. Base'
  BY <1>1, <1>2, <1>4 DEF Base, LsOK
<1>6. Whole'
  BY <1>4 DEF Whole, AllHeld
<1>7. InLoop'
  BY <1>1 DEF InLoop, InPass, Sorting
<1> QED BY <1>5, <1>6, <1>7 DEF Inv

\* A loop begins or ends, or a step of one reads only.
LEMMA ReadOnly ==
  ASSUME Base, Whole, ~Sorting, head' = head, next' = next, prev' = prev, held' = held,
         kind' = kind
  PROVE  FieldsOK' /\ HeldOK' /\ Whole'
<1>1. /\ \A l, s : Holds(l, s)' <=> Holds(l, s)
      /\ FieldsOK' /\ HeldOK'
  BY SameLists DEF Base
<1>2. \A l \in List : \E s : Holds(l, s)
  BY DEF Whole
<1>3. \A l \in List : \E s : Holds(l, s)'
  BY <1>1, <1>2
<1> QED BY <1>1, <1>3 DEF Whole

LEMMA InvSortEmpty ==
  ASSUME Inv, NEW l \in List, SortEmpty(l)
  PROVE  Inv'
<1>1. /\ pc = "idle" /\ pc' = pc /\ own' = own /\ key' = key /\ ls' = ls /\ visited' = visited
      /\ head' = head /\ next' = next /\ prev' = prev /\ held' = held /\ kind' = kind
      /\ call' = <<"sort", l, key, NULL>>
  BY DEF SortEmpty, locals, fields, Calls
<1>2. Base /\ Whole /\ ~Sorting
  BY <1>1 DEF Inv, Sorting
<1>3. FieldsOK' /\ HeldOK' /\ Whole'
  BY <1>1, <1>2, ReadOnly
<1>4. CallOK'
  BY <1>1 DEF CallOK, Macro
<1>5. Base'
  BY <1>1, <1>2, <1>3, <1>4 DEF Base, LsOK
<1>6. InLoop'
  BY <1>1 DEF InLoop, InPass, Sorting
<1> QED BY <1>3, <1>5, <1>6 DEF Inv

LEMMA InvStartSort ==
  ASSUME Inv, NEW l \in List, StartSort(l)
  PROVE  Inv'
<1>1. /\ pc = "idle" /\ head[l] # NULL /\ pc' = "pass" /\ own' = l
      /\ \E k \in [In(l) -> Key] :
           key' = [e \in Elt |-> IF e \in In(l) THEN k[e] ELSE 1]
      /\ ls' = [Idle EXCEPT !.insize = 1] /\ before' = Contents(l) /\ visited' = visited
      /\ head' = head /\ next' = next /\ prev' = prev /\ held' = held /\ kind' = kind
      /\ call' = <<"none", NULL, NULL, NULL>>
  BY DEF StartSort, fields, Calls
<1>2. Base /\ Whole /\ ~Sorting
  BY <1>1 DEF Inv, Sorting
<1>3. FieldsOK' /\ HeldOK' /\ Whole'
  BY <1>1, <1>2, ReadOnly
<1>4. CallOK'
  BY <1>1 DEF CallOK, Macro
<1>5. key' \in [Elt -> Key]
  <2>1. PICK k \in [In(l) -> Key] :
          key' = [e \in Elt |-> IF e \in In(l) THEN k[e] ELSE 1]
    BY <1>1
  <2> QED BY <2>1, KeyAssumption
<1>6. LsOK' /\ ls'.insize = 1 /\ ls'.psize = 0
  BY <1>1 DEF LsOK, Idle
<1>7. Base'
  BY <1>1, <1>2, <1>3, <1>4, <1>5, <1>6 DEF Base
<1>8. PICK s : Holds(l, s)
  BY <1>2 DEF Whole
<1>9. before' = s /\ s \in Seq(Elt) /\ Distinct(s) /\ Len(s) > 0 /\ Members(s) = In(l)
  <2>1. /\ s \in Seq(Elt) /\ Len(s) \in Nat /\ Distinct(s)
        /\ head[l] = IF Len(s) = 0 THEN NULL ELSE s[1]
    BY <1>2, <1>8, Reads DEF Base
  <2>2. Contents(l) = s
    BY <1>2, <1>8, ContentsIs DEF Base
  <2> QED BY <1>1, <1>8, <2>1, <2>2 DEF Holds
<1>10. SortOK'
  BY <1>1, <1>5, <1>9 DEF SortOK, In
<1>11. Runs(s, 1..Len(s) + 1, 1)'
  <2>1. (before \in Seq(Elt) => Runs(before, 1..Len(before) + 1, 1))'
    <3>1. before \in Seq(Elt) => Runs(before, 1..Len(before) + 1, 1)
      BY StartOrder
    <3> QED BY StartOrder, PTL
  <2> QED BY <1>9, <2>1
<1>12. Holds(own, s)'
  BY <1>1, <1>8 DEF Holds, In
<1>13. InLoop'
  BY <1>1, <1>6, <1>9, <1>10, <1>11, <1>12 DEF InLoop, InPass, Sorting
<1> QED BY <1>3, <1>7, <1>13 DEF Inv

LEMMA InvStartWalk ==
  ASSUME Inv, NEW l \in List, StartWalk(l)
  PROVE  Inv'
<1>1. /\ pc = "idle" /\ pc' = "walk" /\ own' = l /\ key' = key /\ ls' = ls /\ visited' = visited
      /\ head' = head /\ next' = next /\ prev' = prev /\ held' = held /\ kind' = kind
      /\ call' = <<"none", NULL, NULL, NULL>>
  BY DEF StartWalk, fields, Calls
<1>2. Base /\ Whole /\ ~Sorting
  BY <1>1 DEF Inv, Sorting
<1>3. FieldsOK' /\ HeldOK' /\ Whole'
  BY <1>1, <1>2, ReadOnly
<1>4. CallOK'
  BY <1>1 DEF CallOK, Macro
<1>5. Base'
  BY <1>1, <1>2, <1>3, <1>4 DEF Base, LsOK
<1>6. PICK s : Holds(l, s)
  BY <1>2 DEF Whole
<1>7. Walking'
  BY <1>1, <1>2, <1>6, WalkBegins DEF Base
<1>8. InLoop'
  BY <1>1, <1>7 DEF InLoop, InPass, Sorting
<1> QED BY <1>3, <1>5, <1>8 DEF Inv

LEMMA InvStartFor ==
  ASSUME Inv, NEW l \in List, StartFor(l)
  PROVE  Inv'
<1>1. /\ pc = "idle" /\ pc' \in {"search", "count"} /\ own' = l
      /\ \/ pc' = "search" /\ \E wanted \in SUBSET In(l) :
                                key' = [e \in Elt |-> IF e \in wanted THEN 2 ELSE 1]
         \/ pc' = "count" /\ key' = key
      /\ ls' = ls /\ visited' = visited
      /\ head' = head /\ next' = next /\ prev' = prev /\ held' = held /\ kind' = kind
      /\ call' = <<"none", NULL, NULL, NULL>>
  BY DEF StartFor, fields, Calls
<1>2. Base /\ Whole /\ ~Sorting
  BY <1>1 DEF Inv, Sorting
<1>3. FieldsOK' /\ HeldOK' /\ Whole'
  BY <1>1, <1>2, ReadOnly
<1>4. CallOK'
  BY <1>1 DEF CallOK, Macro
<1>5. /\ key' \in [Elt -> Key]
      /\ pc' = "search" => key' \in [Elt -> {1, 2}]
      /\ pc' = "count" => \A e \in Elt : key'[e] = 1
  <2>1. CASE pc' = "search"
    <3>1. PICK wanted \in SUBSET In(l) : key' = [e \in Elt |-> IF e \in wanted THEN 2 ELSE 1]
      BY <1>1, <2>1
    <3> QED BY <2>1, <3>1, KeyAssumption
  <2>2. CASE pc' = "count"
    BY <1>1, <1>2, <2>2 DEF Base
  <2> QED BY <1>1, <2>1, <2>2
<1>6. Base'
  BY <1>1, <1>2, <1>3, <1>4, <1>5 DEF Base, LsOK
<1>7. PICK s : Holds(l, s)
  BY <1>2 DEF Whole
<1>8. Looking(s)'
  BY <1>1, <1>2, <1>7, LookBegins DEF Base
<1>9. InLoop'
  BY <1>1, <1>8 DEF InLoop, InPass, Sorting
<1> QED BY <1>3, <1>6, <1>9 DEF Inv

LEMMA InvFor ==
  ASSUME Inv, ForOnwards \/ EndSearch \/ EndCount
  PROVE  Inv'
<1>1. /\ pc \in {"search", "count"}
      /\ head' = head /\ next' = next /\ prev' = prev /\ held' = held /\ kind' = kind
  BY DEF ForOnwards, EndSearch, EndCount, utlist, fields, Calls
<1>2. Base /\ Whole /\ ~Sorting /\ own \in List
  BY <1>1 DEF Inv, Sorting, Base
<1>3. FieldsOK' /\ HeldOK' /\ Whole'
  BY <1>1, <1>2, ReadOnly
<1>4. PICK s : Looking(s)
  BY <1>1 DEF Inv, InLoop
<1>5. CASE ForOnwards
  <2>1. Looking(s)'
    BY <1>2, <1>4, <1>5, LookGoesOn DEF Base
  <2>2. /\ pc' = pc /\ own' = own /\ key' = key /\ ls' = ls /\ call' = call
    BY <1>5 DEF ForOnwards, utlist
  <2>3. Base'
    BY <1>1, <1>2, <1>3, <2>2 DEF Base, LsOK, CallOK
  <2>4. InLoop'
    BY <1>1, <2>1, <2>2 DEF InLoop, InPass, Sorting
  <2> QED BY <1>3, <2>3, <2>4 DEF Inv
<1>6. CASE EndSearch \/ EndCount
  <2>1. Reset
    BY <1>6 DEF EndSearch, EndCount
  <2>2. CallOK'
    <3>1. CASE EndSearch
      <4>1. el \in Elt \cup {NULL}
        <5>1. /\ Holds(own, s) /\ visited \in Seq(Elt) /\ el = At(s, Len(visited) + 1)
          BY <1>4 DEF Looking
        <5>2. s \in Seq(Elt)
          BY <1>2, <5>1, Reads DEF Base
        <5>3. Len(visited) + 1 \in Nat /\ Len(visited) + 1 >= 1
          BY <5>1
        <5> QED BY <5>1, <5>2, <5>3, SlotOK
      <4> QED BY <1>2, <3>1, <4>1 DEF EndSearch, Calls, CallOK, Macro
    <3>2. CASE EndCount
      BY <1>2, <3>2 DEF EndCount, Calls, CallOK, Macro
    <3> QED BY <1>6, <3>1, <3>2
  <2>3. Base'
    BY <1>1, <1>2, <1>3, <2>1, <2>2, Resets DEF Base
  <2> QED BY <1>3, <2>1, <2>3, Resets DEF Inv
<1> QED BY <1>5, <1>6

LEMMA InvVisit ==
  ASSUME Inv, VisitOnly \/ VisitAndDelete \/ EndWalk
  PROVE  Inv'
<1>1. pc = "walk" /\ kind' = kind
  BY DEF VisitOnly, VisitAndDelete, EndWalk, Visit, utlist, Calls
<1>2. Base /\ Whole /\ ~Sorting /\ own \in List /\ Walking /\ FieldsOK /\ HeldOK
  BY <1>1 DEF Inv, Sorting, Base, InLoop
<1>3. CASE VisitOnly
  <2>1. /\ Visit /\ Onwards
        /\ head' = head /\ next' = next /\ prev' = prev /\ held' = held /\ call' = call
        /\ pc' = pc /\ own' = own /\ key' = key /\ ls' = ls
    BY <1>3 DEF VisitOnly, Visit, utlist, fields
  <2>2. FieldsOK' /\ HeldOK' /\ Whole'
    BY <1>1, <1>2, <2>1, ReadOnly
  <2>3. Walking'
    <3>1. In(own)' = In(own)
      BY <2>1 DEF In
    <3> QED BY <1>1, <1>2, <2>1, <3>1, WalkGoesOn
  <2>4. Base'
    BY <1>1, <1>2, <2>1, <2>2 DEF Base, LsOK, CallOK
  <2>5. InLoop'
    BY <1>1, <2>1, <2>3 DEF InLoop, InPass, Sorting
  <2> QED BY <2>2, <2>4, <2>5 DEF Inv
<1>4. CASE VisitAndDelete
  <2>1. /\ Visit /\ Onwards /\ Unlink(own, el) /\ call' = <<"delete", own, el, NULL>>
        /\ pc' = pc /\ own' = own /\ key' = key /\ ls' = ls /\ el \in Elt
    BY <1>4 DEF VisitAndDelete, Visit, Calls
  <2>2. el \in In(own)
    BY <1>2, <2>1, WalkedIsIn
  <2>3. PICK l, o : l = own /\ o = el
    OBVIOUS
  <2>4. PICK s : Holds(l, s)
    BY <1>2, <2>3 DEF Whole
  <2>5. PICK n \in 1..Len(s) : o = s[n]
    BY <1>2, <2>2, <2>3, <2>4, Reads
  <2>6. Makes(l, Removed(s, n)) /\ HeldOK'
    BY <1>1, <1>2, <2>1, <2>3, <2>4, <2>5, UnlinkMakes
  <2>7. FieldsOK' /\ AllHeld'
    <3>1. AllHeld
      BY <1>2 DEF Whole, AllHeld
    <3> QED BY <1>2, <2>3, <2>6, <3>1, Made
  <2>8. \A x \in In(own) : x # el /\ next[x] # el => next'[x] = next[x]
    BY <1>1, <1>2, <2>3, <2>4, <2>5, <2>6, DeleteNexts
  <2>9. \A x \in In(own) : x # el => x \in In(own)'
    <3>1. held' = [held EXCEPT ![el] = NULL]
      BY <2>1 DEF Unlink
    <3> QED BY <1>2, <2>1, <3>1 DEF In, HeldOK
  <2>10. Walking'
    BY <1>1, <1>2, <2>1, <2>8, <2>9, WalkGoesOn
  <2>11. CallOK'
    BY <1>2, <2>1 DEF CallOK, Macro
  <2>12. Base'
    BY <1>1, <1>2, <2>1, <2>6, <2>7, <2>11 DEF Base, LsOK
  <2>13. Whole' /\ InLoop'
    BY <1>1, <2>1, <2>7, <2>10 DEF InLoop, InPass, Sorting, Whole, AllHeld
  <2> QED BY <2>12, <2>13 DEF Inv
<1>5. CASE EndWalk
  <2>1. Reset /\ head' = head /\ next' = next /\ prev' = prev /\ held' = held /\ call' = call
    BY <1>5 DEF EndWalk, utlist, fields
  <2>2. FieldsOK' /\ HeldOK' /\ Whole'
    BY <1>1, <1>2, <2>1, ReadOnly
  <2>3. Base'
    BY <1>1, <1>2, <2>1, <2>2, Resets DEF Base, CallOK
  <2> QED BY <2>1, <2>2, <2>3, Resets DEF Inv
<1> QED BY <1>3, <1>4, <1>5

\* What a turn of SORT leaves alone.
SortTurn ==
  /\ SortKeeps /\ call' = call /\ visited' = visited
  /\ \A l \in List \ {own} : head'[l] = head[l]
  /\ \A x \in Elt \ In(own) : next'[x] = next[x] /\ prev'[x] = prev[x]

LEMMA InvSortTurn ==
  ASSUME Inv, Sorting, pc' \in {"merge", "take"}, SortTurn, FieldsOK', LsOK',
         ls'.insize > 0, InPass'
  PROVE  Inv'
<1>1. Base /\ Whole /\ own \in List /\ FieldsOK /\ HeldOK /\ LsOK /\ SortOK
  BY DEF Inv, Base, InLoop, Sorting
<1>2. SortKeeps /\ call' = call /\ visited' = visited
  BY DEF SortTurn
<1>3. Base'
  <2>1. HeldOK' /\ CallOK'
    BY <1>1, <1>2 DEF SortKeeps, HeldOK, CallOK, Base
  <2>2. visited = <<>>
    BY DEF Inv, Base, Sorting
  <2> QED BY <1>1, <1>2, <2>1, <2>2 DEF SortKeeps, Base
<1>4. Whole'
  <2>1. ASSUME NEW l \in List \ {own}
        PROVE  \E u : Holds(l, u)'
    <3>1. PICK u : Holds(l, u)
      BY <1>1 DEF Whole
    <3>2. Holds(l, u)'
      BY <1>1, <1>2, <3>1, SortFrame DEF SortTurn, SortKeeps
    <3> QED BY <3>2
  <2> QED BY <1>2, <2>1 DEF Whole, Sorting, SortKeeps
<1>5. SortOK'
  BY <1>1, <1>2 DEF SortKeeps, SortOK, In
<1>6. InLoop'
  BY <1>5 DEF InLoop
<1> QED BY <1>3, <1>4, <1>6 DEF Inv

LEMMA InvStartPass ==
  ASSUME Inv, StartPass
  PROVE  Inv'
<1>1. pc = "pass" /\ pc' = "merge" /\ Sorting
  BY DEF StartPass, Sorting
<1>2. FieldsOK /\ LsOK /\ SortOK /\ own \in List /\ ls.insize > 0
  BY <1>1 DEF Inv, Base, InLoop
<1>3. PICK s, C : Holds(own, s) /\ Len(s) > 0 /\ Runs(s, C, ls.insize) /\ ls.psize = 0
  BY <1>1 DEF Inv, InLoop, InPass
<1>4. FieldsOK' /\ LsOK' /\ ls'.insize > 0 /\ MergeAt(s, <<>>, 1, C, {1}, 1)'
  BY <1>2, <1>3, StartPassTurn
<1>5. SortTurn
  BY <1>2 DEF StartPass, SortTurn, SortKeeps, SetHead, FieldsOK
<1>6. InPass'
  BY <1>1, <1>4 DEF InPass
<1> QED BY <1>1, <1>4, <1>5, <1>6, InvSortTurn

LEMMA InvStartMerge ==
  ASSUME Inv, StartMerge
  PROVE  Inv'
<1>1. pc = "merge" /\ pc' = "take" /\ Sorting
  BY DEF StartMerge, Sorting
<1>2. FieldsOK /\ LsOK /\ SortOK /\ own \in List /\ ls.insize > 0
  BY <1>1 DEF Inv, Base, InLoop
<1>3. PICK s, t, b, C, D, d : MergeAt(s, t, b, C, D, d)
  BY <1>1 DEF Inv, InLoop, InPass
<1>4. /\ FieldsOK' /\ LsOK' /\ ls'.insize > 0
      /\ \E m : TakeAt(s, t, b, b, m, m, C, D)'
  BY <1>2, <1>3, StartMergeTurn
<1>5. SortTurn
  BY DEF StartMerge, SortTurn, SortKeeps, utlist, fields
<1>6. InPass'
  BY <1>1, <1>4 DEF InPass
<1> QED BY <1>1, <1>4, <1>5, <1>6, InvSortTurn

LEMMA TakeFrame ==
  ASSUME Inv, Take
  PROVE  SortTurn /\ FieldsOK' /\ LsOK' /\ ls'.insize > 0 /\ InPass'
<1>1. pc = "take" /\ pc' = "take" /\ Sorting
  BY DEF Take, Sorting
<1>2. FieldsOK /\ LsOK /\ SortOK /\ own \in List /\ ls.insize > 0
  BY <1>1 DEF Inv, Base, InLoop
<1>3. PICK s, t, f, a, m, b, C, D : TakeAt(s, t, f, a, m, b, C, D)
  BY <1>1 DEF Inv, InLoop, InPass
<1>4. /\ FieldsOK' /\ LsOK' /\ ls'.insize > 0
      /\ \E t2, a2, b2 : TakeAt(s, t2, f, a2, m, b2, C, D)'
      /\ \A l \in List \ {own} : head'[l] = head[l]
      /\ \A y \in Elt \ In(own) : next'[y] = next[y] /\ prev'[y] = prev[y]
  BY <1>2, <1>3, TakeTurn
<1>5. SortTurn
  BY <1>4 DEF Take, SortTurn, SortKeeps
<1>6. InPass'
  BY <1>1, <1>4 DEF InPass
<1> QED BY <1>4, <1>5, <1>6

LEMMA InvTake ==
  ASSUME Inv, Take
  PROVE  Inv'
<1>1. pc' \in {"merge", "take"} /\ Sorting
  BY DEF Take, Sorting
<1> QED BY <1>1, TakeFrame, InvSortTurn

LEMMA InvEndMerge ==
  ASSUME Inv, EndMerge
  PROVE  Inv'
<1>1. pc = "take" /\ pc' = "merge" /\ Sorting
  BY DEF EndMerge, Sorting
<1>2. FieldsOK /\ LsOK /\ SortOK /\ own \in List /\ ls.insize > 0
  BY <1>1 DEF Inv, Base, InLoop
<1>3. PICK s, t, f, a, m, b, C, D : TakeAt(s, t, f, a, m, b, C, D)
  BY <1>1 DEF Inv, InLoop, InPass
<1>4. /\ FieldsOK' /\ LsOK' /\ ls'.insize > 0
      /\ \E d : MergeAt(s, t, b, C, D \cup {d}, d)'
  BY <1>2, <1>3, EndMergeTurn
<1>5. SortTurn
  BY DEF EndMerge, SortTurn, SortKeeps, utlist, fields
<1>6. InPass'
  BY <1>1, <1>4 DEF InPass
<1> QED BY <1>1, <1>4, <1>5, <1>6, InvSortTurn

\* What the last turn of a pass makes of the lists.
LEMMA PassEnds ==
  ASSUME Inv, EndPass
  PROVE  /\ FieldsOK' /\ HeldOK' /\ AllHeld' /\ kind' = kind /\ held' = held
         /\ \A l \in List \ {own} : \A u : Holds(l, u) => Holds(l, u)'
         /\ \E t, D : /\ \A l : l = own => Holds(l, t)'
                      /\ t \in Seq(Elt) /\ Len(t) > 0 /\ Members(t) = In(own)
                      /\ Runs(t, D, 2 * ls.insize)
                      /\ ls.nmerges <= 1 =>
                           \A i, j \in 1..Len(t) : i < j => Ahead(t[i], t[j])
         /\ ls.psize = 0
<1>1. pc = "merge" /\ Sorting /\ kind' = kind /\ held' = held /\ head' = head /\ CloseList
  BY DEF EndPass, Sorting, Calls
<1>2. FieldsOK /\ LsOK /\ SortOK /\ own \in List /\ ls.insize > 0 /\ HeldOK /\ Whole
  BY <1>1 DEF Inv, Base, InLoop
<1>3. PICK s, t, b, C, D, d : MergeAt(s, t, b, C, D, d)
  BY <1>1 DEF Inv, InLoop, InPass
<1>4. PICK own0 : own0 = own
  OBVIOUS
<1>5. /\ FieldsOK' /\ Holds(own0, t)' /\ Len(t) > 0 /\ Members(t) = Members(s)
      /\ Runs(t, D, 2 * ls.insize)
      /\ ls.nmerges <= 1 => \A i, j \in 1..Len(t) : i < j => Ahead(t[i], t[j])
      /\ ls.psize = 0
  BY <1>2, <1>3, <1>4, EndPassTurn
<1>6. t \in Seq(Elt) /\ Members(t) = In(own)
  BY <1>3, <1>5 DEF MergeAt, Links
<1>7. /\ prev' = IF kind = "ll" THEN prev ELSE [prev EXCEPT ![head[own]] = ls.tail]
      /\ next' = [next EXCEPT ![ls.tail] = IF kind = "cdl" THEN head[own] ELSE NULL]
  BY <1>1 DEF CloseList
<1>8. head[own] \in In(own) /\ ls.tail \in In(own)
  <2>1. /\ head[own] = IF Len(t) = 0 THEN NULL ELSE t[1]
        /\ ls.tail = IF Len(t) = 0 THEN NULL ELSE t[Len(t)]
    BY <1>3 DEF MergeAt, Links
  <2>2. 1 \in 1..Len(t) /\ Len(t) \in 1..Len(t)
    BY <1>5, <1>6
  <2> QED BY <1>6, <2>1, <2>2 DEF Members
<1>9. \A x \in Elt \ In(own) : next'[x] = next[x] /\ prev'[x] = prev[x]
  BY <1>2, <1>7, <1>8 DEF FieldsOK
<1>10. ASSUME NEW l \in List \ {own}, NEW u, Holds(l, u)
       PROVE  Holds(l, u)'
  BY <1>1, <1>2, <1>9, <1>10, SortFrame
<1>11. AllHeld'
  <2>1. ASSUME NEW l \in List
        PROVE  \E u : Holds(l, u)'
    <3>1. CASE l = own
      BY <1>4, <1>5, <3>1
    <3>2. CASE l # own
      <4>1. PICK u : Holds(l, u)
        BY <1>2, <3>2 DEF Whole
      <4> QED BY <1>10, <3>2, <4>1
    <3> QED BY <3>1, <3>2
  <2> QED BY <2>1 DEF AllHeld
<1>12. HeldOK'
  BY <1>1, <1>2 DEF HeldOK
<1>13. \A l : l = own => Holds(l, t)'
  BY <1>4, <1>5
<1> QED BY <1>1, <1>5, <1>6, <1>10, <1>11, <1>12, <1>13

LEMMA InvEndPass ==
  ASSUME Inv, EndPass
  PROVE  Inv'
<1>1. /\ FieldsOK' /\ HeldOK' /\ AllHeld' /\ kind' = kind /\ held' = held
      /\ ls.psize = 0
  BY PassEnds
<1>2. pc = "merge" /\ Sorting /\ Base /\ own \in List /\ SortOK /\ ls.insize > 0
  BY DEF EndPass, Sorting, Inv, Base, InLoop
<1>3. Whole'
  BY <1>1 DEF AllHeld, Whole
<1>4. CASE LastPass
  <2>1. Reset /\ call' = <<"sort", own, key, NULL>>
    BY <1>4 DEF EndPass, Calls
  <2>2. CallOK'
    BY <1>2, <2>1 DEF CallOK, Macro
  <2>3. Base'
    BY <1>1, <1>2, <2>1, <2>2, Resets DEF Base
  <2> QED BY <1>3, <2>1, <2>3, Resets DEF Inv
<1>5. CASE ~LastPass
  <2>1. /\ pc' = "pass" /\ ls' = [ls EXCEPT !.insize = Wider]
        /\ call' = call /\ own' = own /\ key' = key /\ visited' = visited /\ before' = before
    BY <1>5 DEF EndPass
  <2>2. ls.insize \in Nat /\ 2 * ls.insize \in Nat /\ 2 * ls.insize > 0
    BY <1>2 DEF Base, LsOK
  <2>3. LsOK' /\ ls'.insize = 2 * ls.insize /\ ls'.psize = 0
    BY <1>1, <1>2, <2>1, <2>2 DEF Base, LsOK, Wider
  <2>4. CallOK'
    BY <1>2, <2>1 DEF Base, CallOK
  <2>5. Base'
    <3>1. visited = <<>>
      BY <1>2 DEF Base
    <3> QED BY <1>1, <1>2, <2>1, <2>3, <2>4, <3>1 DEF Base
  <2>6. PICK t, D : /\ \A l : l = own => Holds(l, t)'
                    /\ t \in Seq(Elt) /\ Len(t) > 0 /\ Members(t) = In(own)
                    /\ Runs(t, D, 2 * ls.insize)
    BY PassEnds
  <2>7. Holds(own, t)'
    <3>1. PICK l : l = own
      OBVIOUS
    <3>2. Holds(l, t)'
      BY <2>6, <3>1
    <3> QED BY <2>1, <3>1, <3>2 DEF Holds, In
  <2>8. Runs(t, D, ls.insize)'
    BY <2>1, <2>3, <2>6, SameRuns DEF Runs
  <2>9. SortOK'
    BY <1>1, <1>2, <2>1 DEF SortOK, In
  <2>10. InLoop'
    BY <2>1, <2>2, <2>3, <2>6, <2>7, <2>8, <2>9 DEF InLoop, InPass, Sorting
  <2> QED BY <1>3, <2>5, <2>10 DEF Inv
<1> QED BY <1>4, <1>5

LEMMA InvNext == Inv /\ [LoopsNext]_vars => Inv'
<1> SUFFICES ASSUME Inv, [LoopsNext]_vars
             PROVE  Inv'
  OBVIOUS
<1>1. CASE Call
  BY <1>1, InvCall
<1>2. CASE \E l \in List : SortEmpty(l) \/ StartSort(l) \/ StartWalk(l) \/ StartFor(l)
  BY <1>2, InvSortEmpty, InvStartSort, InvStartWalk, InvStartFor
<1>3. CASE StartPass \/ StartMerge \/ Take \/ EndMerge \/ EndPass
  BY <1>3, InvStartPass, InvStartMerge, InvTake, InvEndMerge, InvEndPass
<1>4. CASE VisitOnly \/ VisitAndDelete \/ EndWalk
  BY <1>4, InvVisit
<1>5. CASE ForOnwards \/ EndSearch \/ EndCount
  BY <1>5, InvFor
<1>6. CASE UNCHANGED vars
  <2>1. /\ head' = head /\ next' = next /\ prev' = prev /\ held' = held /\ kind' = kind
        /\ call' = call /\ pc' = pc /\ own' = own /\ key' = key /\ ls' = ls /\ el' = el
        /\ last' = last /\ visited' = visited /\ before' = before
    BY <1>6 DEF vars, utlist, fields, locals
  <2>2. /\ FieldsOK' /\ HeldOK'
        /\ \A l, s : Holds(l, s)' <=> Holds(l, s)
        /\ \A l \in List : (Sorting /\ l = own) \/ \E s : Holds(l, s)
    BY <2>1, SameLists DEF Inv, Base, Whole
  <2>3. Base'
    BY <2>1, <2>2 DEF Inv, Base, CallOK, LsOK
  <2>4. Whole'
    BY <2>1, <2>2 DEF Whole, Sorting
  <2>5. /\ \A s, C : InRuns(s, C)' <=> InRuns(s, C)
        /\ \A x, y : Earlier(x, y)' <=> Earlier(x, y)
        /\ \A x, y : Ahead(x, y)' <=> Ahead(x, y)
    BY <2>1, SameOrder, SameRuns
  <2>6. \A s, C : Runs(s, C, ls.insize)' <=> Runs(s, C, ls.insize)
    BY <2>1, <2>5 DEF Runs
  <2>7. \A t, D, d : RunsSoFar(t, D, d, ls.insize)' <=> RunsSoFar(t, D, d, ls.insize)
    BY <2>1, <2>5 DEF RunsSoFar
  <2>8. \A s, t, a, m, b : Links(s, t, a, m, b)' <=> Links(s, t, a, m, b)
    BY <2>1 DEF Links, In
  <2>9. \A s, t, f, a, m, b :
          Crosses(s, t, f, a, m, b, ls.insize)' <=> Crosses(s, t, f, a, m, b, ls.insize)
    BY <2>1, <2>5 DEF Crosses
  <2>10. \A s : Holds(own, s)' <=> Holds(own, s)
    BY <2>1 DEF Holds, In
  <2>11. \A s, t, b, C, D, d : MergeAt(s, t, b, C, D, d)' <=> MergeAt(s, t, b, C, D, d)
    BY <2>1, <2>5, <2>6, <2>7, <2>8 DEF MergeAt
  <2>12. \A s, t, f, a, m, b, C, D :
           TakeAt(s, t, f, a, m, b, C, D)' <=> TakeAt(s, t, f, a, m, b, C, D)
    BY <2>1, <2>6, <2>7, <2>8, <2>9 DEF TakeAt
  <2>13. InPass'
    BY <2>1, <2>6, <2>10, <2>11, <2>12 DEF Inv, InLoop, InPass
  <2>14. \A s : Looking(s)' <=> Looking(s)
    BY <2>1, <2>10 DEF Looking
  <2>15. Walking' <=> Walking
    BY <2>1 DEF Walking, In
  <2>16. SortOK' <=> SortOK
    BY <2>1 DEF SortOK, In
  <2>17. InLoop'
    BY <2>1, <2>13, <2>14, <2>15, <2>16 DEF Inv, InLoop, Sorting
  <2> QED BY <2>3, <2>4, <2>17 DEF Inv
<1> QED BY <1>1, <1>2, <1>3, <1>4, <1>5, <1>6 DEF LoopsNext, Turn

LEMMA InvAlways == LoopsSpec => []Inv
BY InvInit, InvNext, PTL DEF LoopsSpec

\* Between sorts the lists are well linked, whatever the macros did to them,
\* and during one every field holds a pointer.
THEOREM UtlistLinkedWhenUsed == LoopsSpec => []LinkedWhenUsed
<1>1. Inv => LinkedWhenUsed
  <2> SUFFICES ASSUME Inv PROVE LinkedWhenUsed
    OBVIOUS
  <2>1. TypeOK
    BY DEF Inv, Base, TypeOK, FieldsOK, HeldOK, CallOK
  <2>2. ~Sorting => AllHeld
    BY DEF Inv, Whole, AllHeld
  <2>3. FieldsOK /\ HeldOK
    BY DEF Inv, Base
  <2> QED BY <2>1, <2>2, <2>3, HeldLinked DEF LinkedWhenUsed
<1> QED BY <1>1, InvAlways, PTL

\* The body of a FOREACH_SAFE gets each element that the list had when the
\* loop began, in order, whichever it deletes.
THEOREM UtlistWalkComplete == LoopsSpec => []WalkComplete
<1>1. Inv => WalkComplete
  <2> SUFFICES ASSUME Inv, pc = "walk"
               PROVE  /\ before = visited \o (IF el = NULL THEN <<>>
                                   ELSE SubSeq(before, Len(visited) + 1, Len(before)))
                      /\ el # NULL => Len(visited) < Len(before) /\ el = before[Len(visited) + 1]
    BY DEF WalkComplete
  <2>1. /\ before \in Seq(Elt) /\ visited \in Seq(Elt) /\ Len(visited) <= Len(before)
        /\ \A i \in 1..Len(visited) : visited[i] = before[i]
        /\ el = At(before, Len(visited) + 1)
    BY DEF Inv, InLoop, Walking
  <2>2. Len(before) \in Nat /\ Len(visited) \in Nat
    BY <2>1
  <2>3. Len(visited) + 1 \in Nat /\ Len(visited) + 1 >= 1
    BY <2>2
  <2>4. el = NULL <=> Len(visited) + 1 > Len(before)
    BY <2>1, <2>3, SlotOK
  <2>5. el # NULL => Len(visited) < Len(before) /\ el = before[Len(visited) + 1]
    BY <2>1, <2>2, <2>4 DEF At
  <2>6. CASE el = NULL
    <3>1. Len(visited) = Len(before)
      BY <2>1, <2>2, <2>4, <2>6
    <3>2. visited = before
      BY <2>1, <3>1, SeqEqual
    <3> QED BY <2>1, <2>6, <3>2
  <2>7. CASE el # NULL
    <3> DEFINE r == SubSeq(before, Len(visited) + 1, Len(before))
    <3>1. /\ r \in Seq(Elt) /\ Len(r) = Len(before) - Len(visited)
          /\ \A i \in 1..Len(before) - Len(visited) : r[i] = before[Len(visited) + i]
      BY <2>1, <2>2, <2>5, <2>7
    <3> HIDE DEF r
    <3>2. /\ visited \o r \in Seq(Elt) /\ Len(visited \o r) = Len(before)
          /\ \A i \in 1..Len(before) : (visited \o r)[i] = before[i]
      BY <2>1, <2>2, <3>1
    <3>3. visited \o r = before
      BY <2>1, <3>2, SeqEqual
    <3> QED BY <2>5, <2>7, <3>3 DEF r
  <2> QED BY <2>6, <2>7
<1> QED BY <1>1, InvAlways, PTL

-----------------------------------------------------------------------------
(* What the caller sees: the sequences of Lists.                           *)

Shown == [l \in List |-> IF Sorting /\ l = own THEN before ELSE Contents(l)]

\* The caller takes l for s.
Shows(l, s) == IF Sorting /\ l = own THEN s = before ELSE Holds(l, s)

LEMMA ShownIs == \A l \in List : \A s : FieldsOK /\ Shows(l, s) => Shown[l] = s
BY ContentsIs DEF Shows, Shown

LEMMA ShownThen == \A l \in List : \A s : FieldsOK' /\ Shows(l, s)' => Shown'[l] = s
<1>1. (\A l \in List : \A s : FieldsOK /\ Shows(l, s) => Shown[l] = s)'
  BY ShownIs, PTL
<1> QED BY <1>1

\* Where every list is a sequence before a step and after it.
LEMMA NoneChanges ==
  ASSUME FieldsOK, FieldsOK', \A l \in List : \E u : Shows(l, u) /\ Shows(l, u)'
  PROVE  Shown' = Shown
<1>1. \A l \in List : Shown'[l] = Shown[l]
  BY ShownIs, ShownThen
<1> QED BY <1>1 DEF Shown

LEMMA OneChanges ==
  ASSUME FieldsOK, FieldsOK', NEW l \in List, NEW s, NEW r, Shows(l, s), Shows(l, r)',
         \A m \in List \ {l} : \E u : Shows(m, u) /\ Shows(m, u)'
  PROVE  Shown[l] = s /\ Shown' = [Shown EXCEPT ![l] = r]
<1>1. Shown[l] = s /\ Shown'[l] = r
  BY ShownIs, ShownThen
<1>2. \A m \in List \ {l} : Shown'[m] = Shown[m]
  BY ShownIs, ShownThen
<1>3. Shown = [m \in List |-> Shown[m]] /\ Shown' = [m \in List |-> Shown'[m]]
  BY DEF Shown
<1> QED BY <1>1, <1>2, <1>3

\* The sequences of the lemmas above, and the operators of Lists.
LEMMA SequenceForms ==
  ASSUME NEW s \in Seq(Elt), NEW e \in Elt
  PROVE  /\ Inserted(s, 1, e) = <<e>> \o s
         /\ Inserted(s, Len(s) + 1, e) = Append(s, e)
         /\ \A n \in 1..Len(s) + 1 :
              Inserted(s, n, e) = SubSeq(s, 1, n - 1) \o <<e>> \o SubSeq(s, n, Len(s))
         /\ \A n \in 1..Len(s) :
              Removed(s, n) = SubSeq(s, 1, n - 1) \o SubSeq(s, n + 1, Len(s))
         /\ \A n \in 1..Len(s) : Replaced(s, n, e) = [s EXCEPT ![n] = e]
<1>1. Len(s) \in Nat /\ DOMAIN s = 1..Len(s) /\ \A i \in 1..Len(s) : s[i] \in Elt
  BY LenProperties
<1>2. ASSUME NEW n \in 1..Len(s) + 1
      PROVE  /\ Inserted(s, n, e) \in Seq(Elt) /\ Len(Inserted(s, n, e)) = Len(s) + 1
             /\ \A i \in 1..Len(s) + 1 : Inserted(s, n, e)[i] =
                  IF i < n THEN s[i] ELSE IF i = n THEN e ELSE s[i - 1]
  BY InsertedFacts DEF Inserted
<1>3. ASSUME NEW n \in 1..Len(s) + 1
      PROVE  Inserted(s, n, e) = SubSeq(s, 1, n - 1) \o <<e>> \o SubSeq(s, n, Len(s))
  <2> DEFINE a == SubSeq(s, 1, n - 1)
             b == SubSeq(s, n, Len(s))
  <2>1. a \in Seq(Elt) /\ Len(a) = n - 1 /\ \A i \in 1..n - 1 : a[i] = s[i]
    BY <1>1
  <2>2. /\ b \in Seq(Elt) /\ Len(b) = Len(s) - n + 1
        /\ \A i \in 1..Len(s) - n + 1 : b[i] = s[n + i - 1]
    BY <1>1
  <2> HIDE DEF a, b
  <2>3. /\ a \o <<e>> \in Seq(Elt) /\ Len(a \o <<e>>) = n
        /\ \A i \in 1..n : (a \o <<e>>)[i] = IF i < n THEN s[i] ELSE e
    BY <2>1
  <2> DEFINE c == a \o <<e>>
  <2> HIDE DEF c
  <2>4. /\ c \o b \in Seq(Elt) /\ Len(c \o b) = Len(s) + 1
        /\ \A i \in 1..Len(s) + 1 : (c \o b)[i] =
             IF i < n THEN s[i] ELSE IF i = n THEN e ELSE s[i - 1]
    <3>1. c \in Seq(Elt) /\ Len(c) = n /\ \A i \in 1..n : c[i] = IF i < n THEN s[i] ELSE e
      BY <2>3 DEF c
    <3>2. n \in Nat /\ n + (Len(s) - n + 1) = Len(s) + 1
      BY <1>1
    <3>3. /\ c \o b \in Seq(Elt) /\ Len(c \o b) = Len(s) + 1
          /\ \A i \in 1..Len(s) + 1 : (c \o b)[i] = IF i <= n THEN c[i] ELSE b[i - n]
      <4>1. /\ c \o b \in Seq(Elt) /\ Len(c \o b) = Len(c) + Len(b)
            /\ \A i \in 1..Len(c) + Len(b) :
                 (c \o b)[i] = IF i <= Len(c) THEN c[i] ELSE b[i - Len(c)]
        BY <2>2, <3>1, ConcatProperties
      <4>2. Len(c) = n /\ Len(c) + Len(b) = Len(s) + 1
        BY <2>2, <3>1, <3>2
      <4> QED BY <4>1, <4>2
    <3>4. \A i \in 1..Len(s) + 1 : i <= n => i \in 1..n
      BY <1>1
    <3>5. ASSUME NEW i \in 1..Len(s) + 1, i > n
          PROVE  b[i - n] = s[i - 1]
      <4>1. i - n \in 1..Len(s) - n + 1 /\ n + (i - n) - 1 = i - 1
        BY <1>1, <3>5
      <4> QED BY <2>2, <4>1
    <3>6. ASSUME NEW i \in 1..Len(s) + 1
          PROVE  (c \o b)[i] = IF i < n THEN s[i] ELSE IF i = n THEN e ELSE s[i - 1]
      <4>1. i <= n \/ i > n
        BY <3>2
      <4>2. CASE i <= n
        BY <3>1, <3>2, <3>3, <3>4, <4>2
      <4>3. CASE i > n
        <5>1. (c \o b)[i] = b[i - n] /\ ~(i < n) /\ i # n
          BY <3>2, <3>3, <4>3
        <5> QED BY <3>5, <4>3, <5>1
      <4> QED BY <4>1, <4>2, <4>3
    <3> QED BY <3>3, <3>6
  <2>5. Inserted(s, n, e) = c \o b
    <3>1. Len(Inserted(s, n, e)) = Len(c \o b)
      BY <1>2, <2>4
    <3>2. ASSUME NEW i \in 1..Len(Inserted(s, n, e))
          PROVE  Inserted(s, n, e)[i] = (c \o b)[i]
      <4>1. i \in 1..Len(s) + 1
        BY <1>2, <3>2
      <4> QED BY <1>2, <2>4, <4>1
    <3>3. Inserted(s, n, e) \in Seq(Elt) /\ c \o b \in Seq(Elt)
      BY <1>2, <2>4
    <3> QED BY ONLY <3>1, <3>2, <3>3, SeqEqual
  <2> QED BY <2>5 DEF a, b, c
<1>4. Inserted(s, 1, e) = <<e>> \o s
  <2>1. /\ <<e>> \o s \in Seq(Elt) /\ Len(<<e>> \o s) = Len(s) + 1
        /\ \A i \in 1..Len(s) + 1 : (<<e>> \o s)[i] = IF i = 1 THEN e ELSE s[i - 1]
    BY <1>1
  <2>2. 1 \in 1..Len(s) + 1
    BY <1>1
  <2> QED BY <1>2, <2>1, <2>2, SeqEqual
<1>5. Inserted(s, Len(s) + 1, e) = Append(s, e)
  <2>1. /\ Append(s, e) \in Seq(Elt) /\ Len(Append(s, e)) = Len(s) + 1
        /\ \A i \in 1..Len(s) + 1 : Append(s, e)[i] = IF i = Len(s) + 1 THEN e ELSE s[i]
    BY <1>1
  <2>2. Len(s) + 1 \in 1..Len(s) + 1
    BY <1>1
  <2> QED BY <1>1, <1>2, <2>1, <2>2, SeqEqual
<1>6. ASSUME NEW n \in 1..Len(s)
      PROVE  Removed(s, n) = SubSeq(s, 1, n - 1) \o SubSeq(s, n + 1, Len(s))
  <2> DEFINE a == SubSeq(s, 1, n - 1)
             b == SubSeq(s, n + 1, Len(s))
  <2>1. a \in Seq(Elt) /\ Len(a) = n - 1 /\ \A i \in 1..n - 1 : a[i] = s[i]
    BY <1>1
  <2>2. b \in Seq(Elt) /\ Len(b) = Len(s) - n /\ \A i \in 1..Len(s) - n : b[i] = s[n + i]
    <3>1. n + 1 \in Nat /\ Len(s) - (n + 1) + 1 = Len(s) - n /\ Len(s) - n \in Nat
      BY <1>1
    <3>2. /\ b \in Seq(Elt) /\ Len(b) = Len(s) - n
          /\ \A i \in 1..Len(s) - n : b[i] = s[(n + 1) + i - 1]
      <4>1. \A i \in n + 1..Len(s) : s[i] \in Elt
        BY <1>1
      <4>2. /\ b \in Seq(Elt) /\ Len(b) = IF n + 1 <= Len(s) THEN Len(s) - (n + 1) + 1 ELSE 0
            /\ \A i \in 1..Len(s) - (n + 1) + 1 : b[i] = s[(n + 1) + i - 1]
        BY <1>1, <3>1, <4>1, SubSeqProperties
      <4>3. n + 1 <= Len(s) \/ (~(n + 1 <= Len(s)) /\ Len(s) - n = 0)
        <5>1. Len(s) \in Nat
          BY <1>1
        <5> QED BY <5>1
      <4>4. Len(b) = Len(s) - n
        BY <3>1, <4>2, <4>3
      <4> QED BY <3>1, <4>2, <4>4
    <3>3. \A i \in 1..Len(s) - n : (n + 1) + i - 1 = n + i
      BY <1>1
    <3> QED BY <3>2, <3>3
  <2> HIDE DEF a, b
  <2>3. /\ a \o b \in Seq(Elt) /\ Len(a \o b) = Len(s) - 1
        /\ \A i \in 1..Len(s) - 1 : (a \o b)[i] = IF i < n THEN s[i] ELSE s[i + 1]
    <3>1. (n - 1) + (Len(s) - n) = Len(s) - 1 /\ n - 1 \in Nat /\ n \in Nat
      BY <1>1
    <3>2. /\ a \o b \in Seq(Elt) /\ Len(a \o b) = Len(s) - 1
          /\ \A i \in 1..Len(s) - 1 : (a \o b)[i] = IF i <= n - 1 THEN a[i] ELSE b[i - (n - 1)]
      BY <2>1, <2>2, <3>1
    <3>3. ASSUME NEW i \in 1..Len(s) - 1
          PROVE  (a \o b)[i] = IF i < n THEN s[i] ELSE s[i + 1]
      <4>1. CASE i < n
        <5>1. i \in 1..n - 1 /\ i <= n - 1
          BY <3>1, <4>1
        <5> QED BY <2>1, <3>2, <4>1, <5>1
      <4>2. CASE i >= n
        <5>1. /\ i - (n - 1) \in 1..Len(s) - n /\ ~(i <= n - 1) /\ ~(i < n)
              /\ n + (i - (n - 1)) = i + 1
          BY <1>1, <3>1, <4>2
        <5> QED BY <2>2, <3>2, <5>1
      <4>3. i < n \/ i >= n
        BY <3>1
      <4> QED BY <4>1, <4>2, <4>3
    <3> QED BY <3>2, <3>3
  <2>4. Removed(s, n) \in [1..Len(s) - 1 -> Elt] /\ Len(s) - 1 \in Nat
    BY <1>1 DEF Removed
  <2>5. Removed(s, n) \in Seq(Elt) /\ Len(Removed(s, n)) = Len(s) - 1
    BY <2>4, FunctionIsSeq
  <2>6. \A i \in 1..Len(s) - 1 : Removed(s, n)[i] = IF i < n THEN s[i] ELSE s[i + 1]
    BY DEF Removed
  <2>7. Removed(s, n) = a \o b
    BY <2>3, <2>5, <2>6, SeqEqual
  <2> QED BY <2>7 DEF a, b
<1>7. \A n \in 1..Len(s) : Replaced(s, n, e) = [s EXCEPT ![n] = e]
  BY <1>1 DEF Replaced
<1> QED BY <1>3, <1>4, <1>5, <1>6, <1>7

\* A call of the caller between two loops.
LEMMA MadeShown ==
  ASSUME FieldsOK, AllHeld, ~Sorting, ~Sorting', NEW l \in List, NEW s, Holds(l, s),
         NEW r, Makes(l, r)
  PROVE  Shown[l] = s /\ Shown' = [Shown EXCEPT ![l] = r]
<1>1. Shows(l, s) /\ Shows(l, r)' /\ FieldsOK'
  BY DEF Shows, Makes, Holds
<1>2. \A m \in List \ {l} : \E u : Shows(m, u) /\ Shows(m, u)'
  BY DEF Shows, Makes, AllHeld
<1> QED BY <1>1, <1>2, OneChanges

LEMMA ShownMembers ==
  ASSUME FieldsOK, AllHeld, ~Sorting, NEW l \in List
  PROVE  Abstract!Range(Shown[l]) = In(l) /\ Shown[l] \in Seq(Elt) /\ Holds(l, Shown[l])
<1>1. PICK s : Holds(l, s)
  BY DEF AllHeld
<1>2. Shown[l] = s
  BY <1>1, ShownIs DEF Shows
<1>3. s \in Seq(Elt) /\ In(l) = Members(s) /\ DOMAIN s = 1..Len(s)
  BY <1>1, Reads, LenProperties DEF Holds
<1>4. Abstract!Range(s) = In(l)
  BY <1>3 DEF Abstract!Range, Members
<1> QED BY <1>1, <1>2, <1>3, <1>4

LEMMA NotLinked ==
  ASSUME FieldsOK, AllHeld, ~Sorting, NEW e \in Elt, held[e] = NULL
  PROVE  Abstract!Unused(e)
<1>1. \A l \in List : e \notin Abstract!Range(Shown[l])
  BY ShownMembers, Apart DEF In
<1> QED BY <1>1 DEF Abstract!Unused, Shown

\* DELETE, by a call or in the body of a walk.
LEMMA DeletionShows ==
  ASSUME FieldsOK, AllHeld, ~Sorting, ~Sorting', NEW l \in List, NEW s, Holds(l, s),
         NEW n \in 1..Len(s), NEW o, o = s[n], Makes(l, Removed(s, n)),
         call' = <<"delete", l, o, NULL>>
  PROVE  Abstract!Delete(l, o)
<1>1. s \in Seq(Elt) /\ DOMAIN s = 1..Len(s) /\ s[n] \in Elt
  BY Reads, LenProperties
<1>2. Removed(s, n) = Abstract!RemoveAt(s, n)
  BY <1>1, SequenceForms DEF Abstract!RemoveAt
<1>3. Shown[l] = s /\ Shown' = [Shown EXCEPT ![l] = Abstract!RemoveAt(s, n)]
  BY <1>2, MadeShown
<1> QED BY <1>1, <1>3 DEF Abstract!Delete, Abstract!Becomes, Shown

LEMMA CallShows ==
  ASSUME FieldsOK, HeldOK, AllHeld, ~Sorting, ~Sorting', Next
  PROVE  Abstract!Next
<1> USE DEF Calls
<1>1. ASSUME NEW l \in List, NEW e \in Elt, CallPrepend(l, e)
      PROVE  Abstract!PushFront(l, e)
  <2>1. PICK s : Holds(l, s)
    BY DEF AllHeld
  <2>2. Puts(l, e) /\ PrependTo(l, e) /\ kind' = kind /\ call' = <<"prepend", l, NULL, e>>
    BY <1>1 DEF CallPrepend
  <2>3. Makes(l, Inserted(s, 1, e)) /\ held[e] = NULL
    BY <2>1, <2>2, CallPrependMakes DEF Puts
  <2>4. Inserted(s, 1, e) = <<e>> \o s
    BY <2>1, Reads, SequenceForms
  <2>5. Shown[l] = s /\ Shown' = [Shown EXCEPT ![l] = <<e>> \o s]
    BY <2>1, <2>3, <2>4, MadeShown
  <2> QED BY <2>2, <2>3, <2>5, NotLinked
          DEF Abstract!PushFront, Abstract!Becomes, Shown
<1>2. ASSUME NEW l \in List, NEW e \in Elt, CallAppend(l, e)
      PROVE  Abstract!PushBack(l, e)
  <2>1. PICK s : Holds(l, s)
    BY DEF AllHeld
  <2>2. Puts(l, e) /\ AppendTo(l, e) /\ kind' = kind /\ call' = <<"append", l, NULL, e>>
    BY <1>2 DEF CallAppend
  <2>3. Makes(l, Inserted(s, Len(s) + 1, e)) /\ held[e] = NULL
    BY <2>1, <2>2, CallAppendMakes DEF Puts
  <2>4. Inserted(s, Len(s) + 1, e) = Append(s, e)
    BY <2>1, Reads, SequenceForms
  <2>5. Shown[l] = s /\ Shown' = [Shown EXCEPT ![l] = Append(s, e)]
    BY <2>1, <2>3, <2>4, MadeShown
  <2> QED BY <2>2, <2>3, <2>5, NotLinked
          DEF Abstract!PushBack, Abstract!Becomes, Shown
<1>3. ASSUME NEW l \in List, NEW e \in Elt, CallDelete(l, e)
      PROVE  Abstract!Delete(l, e)
  <2>1. PICK s : Holds(l, s)
    BY DEF AllHeld
  <2>2. e \in In(l) /\ Unlink(l, e) /\ kind' = kind /\ call' = <<"delete", l, e, NULL>>
    BY <1>3 DEF CallDelete
  <2>3. PICK n \in 1..Len(s) : e = s[n]
    BY <2>1, <2>2, Reads
  <2>4. Makes(l, Removed(s, n))
    BY <2>1, <2>2, <2>3, UnlinkMakes
  <2> QED BY <2>1, <2>2, <2>3, <2>4, DeletionShows
<1>4. ASSUME NEW l \in List, NEW o \in Elt \cup {NULL}, NEW e \in Elt, CallPrependElem(l, o, e)
      PROVE  Abstract!PrependElem(l, o, e)
  <2>1. PICK s : Holds(l, s)
    BY DEF AllHeld
  <2>2. Puts(l, e) /\ kind' = kind /\ call' = <<"prepend_elem", l, o, e>> /\ held[e] = NULL
    BY <1>4 DEF CallPrependElem, Puts
  <2>3. s \in Seq(Elt) /\ DOMAIN s = 1..Len(s)
    BY <2>1, Reads, LenProperties
  <2>4. CASE o = NULL /\ AppendTo(l, e)
    <3>1. Makes(l, Inserted(s, Len(s) + 1, e))
      BY <2>1, <2>2, <2>4, CallAppendMakes
    <3>2. Inserted(s, Len(s) + 1, e) = Append(s, e)
      BY <2>3, SequenceForms
    <3>3. Shown[l] = s /\ Shown' = [Shown EXCEPT ![l] = Append(s, e)]
      BY <2>1, <3>1, <3>2, MadeShown
    <3> QED BY <2>2, <2>4, <3>3, NotLinked
            DEF Abstract!PrependElem, Abstract!Becomes, Shown
  <2>5. CASE /\ o \in In(l)
             /\ \/ kind = "ll" /\ LLPrependElem(l, o, e)
                \/ kind = "dl" /\ DLPrependElem(l, o, e)
                \/ kind = "cdl" /\ CDLPrependElem(l, o, e)
    <3>1. PICK n \in 1..Len(s) : o = s[n]
      BY <2>1, <2>5, Reads
    <3>2. Makes(l, Inserted(s, n, e))
      BY <2>1, <2>2, <2>5, <3>1, CallPrependElemMakes
    <3>3. n \in 1..Len(s) + 1
      BY <2>3
    <3>4. Inserted(s, n, e) = Abstract!InsertAt(s, n, e)
      BY <2>3, <3>3, SequenceForms DEF Abstract!InsertAt
    <3>5. Shown[l] = s /\ Shown' = [Shown EXCEPT ![l] = Abstract!InsertAt(s, n, e)]
      BY <2>1, <3>2, <3>4, MadeShown
    <3> QED BY <2>2, <2>3, <3>1, <3>5, NotLinked
            DEF Abstract!PrependElem, Abstract!Becomes, Shown
  <2> QED BY <1>4, <2>4, <2>5 DEF CallPrependElem
<1>5. ASSUME NEW l \in List, NEW o \in Elt \cup {NULL}, NEW e \in Elt, CallAppendElem(l, o, e)
      PROVE  Abstract!AppendElem(l, o, e)
  <2>1. PICK s : Holds(l, s)
    BY DEF AllHeld
  <2>2. Puts(l, e) /\ kind' = kind /\ call' = <<"append_elem", l, o, e>> /\ held[e] = NULL
    BY <1>5 DEF CallAppendElem, Puts
  <2>3. s \in Seq(Elt) /\ DOMAIN s = 1..Len(s)
    BY <2>1, Reads, LenProperties
  <2>4. CASE o = NULL /\ PrependTo(l, e)
    <3>1. Makes(l, Inserted(s, 1, e))
      BY <2>1, <2>2, <2>4, CallPrependMakes
    <3>2. Inserted(s, 1, e) = <<e>> \o s
      BY <2>3, SequenceForms
    <3>3. Shown[l] = s /\ Shown' = [Shown EXCEPT ![l] = <<e>> \o s]
      BY <2>1, <3>1, <3>2, MadeShown
    <3> QED BY <2>2, <2>4, <3>3, NotLinked
            DEF Abstract!AppendElem, Abstract!Becomes, Shown
  <2>5. CASE /\ o \in In(l)
             /\ \/ kind = "ll" /\ LLAppendElem(l, o, e)
                \/ kind = "dl" /\ DLAppendElem(l, o, e)
                \/ kind = "cdl" /\ CDLAppendElem(l, o, e)
    <3>1. PICK n \in 1..Len(s) : o = s[n]
      BY <2>1, <2>5, Reads
    <3>2. Makes(l, Inserted(s, n + 1, e))
      BY <2>1, <2>2, <2>5, <3>1, CallAppendElemMakes
    <3>3. n + 1 \in 1..Len(s) + 1
      BY <2>3
    <3>4. Inserted(s, n + 1, e) = Abstract!InsertAt(s, n + 1, e)
      BY <2>3, <3>3, SequenceForms DEF Abstract!InsertAt
    <3>5. Shown[l] = s /\ Shown' = [Shown EXCEPT ![l] = Abstract!InsertAt(s, n + 1, e)]
      BY <2>1, <3>2, <3>4, MadeShown
    <3> QED BY <2>2, <2>3, <3>1, <3>5, NotLinked
            DEF Abstract!AppendElem, Abstract!Becomes, Shown
  <2> QED BY <1>5, <2>4, <2>5 DEF CallAppendElem
<1>6. ASSUME NEW l \in List, NEW o \in Elt, NEW e \in Elt, CallReplaceElem(l, o, e)
      PROVE  Abstract!Replace(l, o, e)
  <2>1. PICK s : Holds(l, s)
    BY DEF AllHeld
  <2>2. o \in In(l) /\ held[e] = NULL /\ call' = <<"replace", l, o, e>>
    BY <1>6 DEF CallReplaceElem
  <2>3. s \in Seq(Elt) /\ DOMAIN s = 1..Len(s)
    BY <2>1, Reads, LenProperties
  <2>4. PICK n \in 1..Len(s) : o = s[n]
    BY <2>1, <2>2, Reads
  <2>5. Makes(l, Replaced(s, n, e))
    BY <1>6, <2>1, <2>4, CallReplaceElemMakes
  <2>6. Replaced(s, n, e) = Abstract!ReplaceAt(s, n, e)
    BY <2>3, SequenceForms DEF Abstract!ReplaceAt
  <2>7. Shown[l] = s /\ Shown' = [Shown EXCEPT ![l] = Abstract!ReplaceAt(s, n, e)]
    BY <2>1, <2>5, <2>6, MadeShown
  <2> QED BY <2>2, <2>3, <2>4, <2>7, NotLinked
          DEF Abstract!Replace, Abstract!Becomes, Shown
<1>7. ASSUME NEW l \in List, NEW m \in List, CallConcat(l, m)
      PROVE  Abstract!Concat(l, m)
  <2>1. PICK s : Holds(l, s)
    BY DEF AllHeld
  <2>2. PICK r : Holds(m, r)
    BY DEF AllHeld
  <2>3. /\ FieldsOK' /\ l # m /\ call' = <<"concat", l, m, NULL>>
        /\ Holds(l, s \o r)' /\ Holds(m, <<>>)'
        /\ \A k \in List \ {l, m} : \A u : Holds(k, u) => Holds(k, u)'
    BY <1>7, <2>1, <2>2, CallConcatMakes DEF CallConcat
  <2>4. Shown[l] = s /\ Shown[m] = r /\ Shown'[l] = s \o r /\ Shown'[m] = <<>>
    BY <2>1, <2>2, <2>3, ShownIs, ShownThen DEF Shows
  <2>5. ASSUME NEW k \in List \ {l, m}
        PROVE  Shown'[k] = Shown[k]
    <3>1. PICK u : Holds(k, u)
      BY DEF AllHeld
    <3>2. Holds(k, u)'
      BY <2>3, <3>1
    <3> QED BY <2>3, <3>1, <3>2, ShownIs, ShownThen DEF Shows
  <2>6. Shown = [k \in List |-> Shown[k]] /\ Shown' = [k \in List |-> Shown'[k]]
    BY DEF Shown
  <2>7. Shown' = [Shown EXCEPT ![l] = Shown[l] \o Shown[m], ![m] = <<>>]
    BY <2>3, <2>4, <2>5, <2>6
  <2> QED BY <2>3, <2>7 DEF Abstract!Concat, Shown
<1> QED BY <1>1, <1>2, <1>3, <1>4, <1>5, <1>6, <1>7 DEF Next, Abstract!Next

\* What reads only shows the lists as they were.
LEMMA ReadingShows ==
  ASSUME FieldsOK, AllHeld, ~Sorting, ~Sorting', head' = head, next' = next, prev' = prev,
         held' = held, kind' = kind
  PROVE  Shown' = Shown
<1>1. FieldsOK' /\ \A l, s : Holds(l, s)' <=> Holds(l, s)
  BY SameLists
<1>2. \A l \in List : \E u : Shows(l, u) /\ Shows(l, u)'
  BY <1>1 DEF AllHeld, Shows
<1> QED BY <1>1, <1>2, NoneChanges

LEMMA MembersCount ==
  ASSUME NEW s \in Seq(Elt), Distinct(s)
  PROVE  Cardinality(Members(s)) = Len(s)
<1>1. s \in [1..Len(s) -> Members(s)] /\ Len(s) \in Nat /\ DOMAIN s = 1..Len(s)
  BY LenProperties DEF Members
<1>2. s \in Surjection(1..Len(s), Members(s)) /\ s \in Injection(1..Len(s), Members(s))
  BY <1>1 DEF Surjection, Injection, IsInjective, Members, Distinct
<1>3. IsFiniteSet(1..Len(s)) /\ Cardinality(1..Len(s)) = Len(s)
  BY <1>1, FS_Interval, CardinalityOfInterval
<1> QED BY <1>2, <1>3, FS_Surjection

LEMMA SameCardinality ==
  ASSUME NEW S
  PROVE  Abstract!Cardinality(S) = Cardinality(S)
BY DEF Abstract!Cardinality, Cardinality

\* A sequence of the elements before, each ahead of those after it, is what
\* Lists means by sorted.
LEMMA SortedShows ==
  ASSUME SortOK, NEW t \in Seq(Elt), Distinct(t), Members(t) = In(own),
         \A i, j \in 1..Len(t) : i < j => Ahead(t[i], t[j])
  PROVE  /\ t \in Abstract!SetToSeqs(Abstract!Range(before))
         /\ Abstract!Sorted(before, key, t)
<1>1. before \in Seq(Elt) /\ Members(before) = In(own) /\ DOMAIN before = 1..Len(before)
  BY LenProperties DEF SortOK
<1>2. Abstract!Range(before) = In(own)
  BY <1>1 DEF Abstract!Range, Members
<1>3. Cardinality(In(own)) = Len(t)
  BY MembersCount
<1>4. t \in [1..Len(t) -> In(own)] /\ DOMAIN t = 1..Len(t)
  BY LenProperties DEF Members
<1>5. t \in Abstract!SetToSeqs(Abstract!Range(before))
  <2>1. \A i, j \in 1..Len(t) : i # j => t[i] # t[j]
    BY DEF Distinct
  <2>2. Abstract!SetToSeqs(In(own)) =
          {f \in [1..Len(t) -> In(own)] : \A i, j \in 1..Len(t) : i # j => f[i] # f[j]}
    BY <1>3, SameCardinality DEF Abstract!SetToSeqs
  <2> QED BY <1>2, <1>4, <2>1, <2>2
<1>6. ASSUME NEW i \in 1..Len(t), NEW j \in 1..Len(t), i < j
      PROVE  \/ key[t[i]] < key[t[j]]
             \/ /\ key[t[i]] = key[t[j]]
                /\ \E n, m \in DOMAIN before : n < m /\ before[n] = t[i] /\ before[m] = t[j]
  <2>1. Ahead(t[i], t[j])
    BY <1>6
  <2> QED BY <2>1, <1>1 DEF Ahead, Earlier
<1> QED BY <1>4, <1>5, <1>6 DEF Abstract!Sorted

LEMMA SortEmptyShows ==
  ASSUME Inv, NEW l \in List, SortEmpty(l)
  PROVE  Abstract!Next
<1>1. /\ pc = "idle" /\ pc' = pc /\ head[l] = NULL
      /\ head' = head /\ next' = next /\ prev' = prev /\ held' = held /\ kind' = kind
      /\ call' = <<"sort", l, key, NULL>>
  BY DEF SortEmpty, fields, Calls
<1>2. Base /\ AllHeld /\ ~Sorting /\ ~Sorting' /\ FieldsOK
  BY <1>1 DEF Inv, Base, Whole, AllHeld, Sorting
<1>3. Shown' = Shown
  BY <1>1, <1>2, ReadingShows
<1>4. Shown[l] = <<>>
  <2>1. PICK s : Holds(l, s)
    BY <1>2 DEF AllHeld
  <2>2. /\ s \in Seq(Elt) /\ Len(s) \in Nat /\ \A i \in 1..Len(s) : s[i] \in Elt
        /\ head[l] = IF Len(s) = 0 THEN NULL ELSE s[1]
    BY <1>2, <2>1, Reads
  <2>3. Len(s) = 0
    <3>1. Len(s) # 0 => 1 \in 1..Len(s)
      BY <2>2
    <3> QED BY <1>1, <2>2, <3>1, Apart
  <2> QED BY <1>2, <2>1, <2>2, <2>3, ShownIs DEF Shows
<1>5. <<>> \in Abstract!SetToSeqs(Abstract!Range(<<>>))
  <2>1. Abstract!Range(<<>>) = {}
    BY DEF Abstract!Range
  <2>2. Cardinality({}) = 0
    BY FS_EmptySet
  <2>3. <<>> \in [1..0 -> {}] /\ 1..0 = {}
    OBVIOUS
  <2>4. Abstract!SetToSeqs({}) =
          {f \in [1..0 -> {}] : \A i, j \in 1..0 : i # j => f[i] # f[j]}
    BY <2>2, SameCardinality DEF Abstract!SetToSeqs
  <2>5. \A i, j \in 1..0 : i # j => <<>>[i] # <<>>[j]
    BY <2>3
  <2> QED BY <2>1, <2>3, <2>4, <2>5
<1>6. Abstract!Sorted(<<>>, key, <<>>)
  BY <1>5 DEF Abstract!Sorted
<1>7. Shown' = [Shown EXCEPT ![l] = <<>>]
  <2>1. Shown = [m \in List |-> Shown[m]]
    BY DEF Shown
  <2> QED BY <1>3, <1>4, <2>1
<1>8. Abstract!Sort(l, key)
  BY <1>1, <1>4, <1>5, <1>6, <1>7 DEF Abstract!Sort, Abstract!Becomes, Shown
<1>9. key \in [Elt -> Key]
  BY <1>2 DEF Base
<1> QED BY <1>8, <1>9 DEF Abstract!Next

LEMMA StartsShow ==
  ASSUME Inv, NEW l \in List, StartSort(l) \/ StartWalk(l) \/ StartFor(l)
  PROVE  Abstract!Next
<1>1. /\ pc = "idle" /\ call' = <<"none", NULL, NULL, NULL>>
      /\ head' = head /\ next' = next /\ prev' = prev /\ held' = held /\ kind' = kind
  BY DEF StartSort, StartWalk, StartFor, fields, Calls
<1>2. AllHeld /\ ~Sorting /\ FieldsOK
  BY <1>1 DEF Inv, Base, Whole, AllHeld, Sorting
<1>3. CASE StartSort(l)
  <2>1. own' = l /\ before' = Contents(l)
    BY <1>3 DEF StartSort
  <2>2. FieldsOK' /\ \A m, s : Holds(m, s)' <=> Holds(m, s)
    BY <1>1, <1>2, SameLists
  <2>3. ASSUME NEW m \in List
        PROVE  \E u : Shows(m, u) /\ Shows(m, u)'
    <3>1. PICK u : Holds(m, u)
      BY <1>2 DEF AllHeld
    <3>2. Contents(m) = u
      BY <1>2, <3>1, ContentsIs
    <3> QED BY <1>2, <2>1, <2>2, <3>1, <3>2 DEF Shows
  <2>4. Shown' = Shown
    BY <1>2, <2>2, <2>3, NoneChanges
  <2> QED BY <1>1, <2>4 DEF Abstract!Next, Abstract!Enter, Shown
<1>4. CASE StartWalk(l) \/ StartFor(l)
  <2>1. ~Sorting'
    BY <1>4 DEF StartWalk, StartFor, Sorting
  <2>2. Shown' = Shown
    BY <1>1, <1>2, <2>1, ReadingShows
  <2> QED BY <1>1, <2>2 DEF Abstract!Next, Abstract!Enter, Shown
<1> QED BY <1>3, <1>4

LEMMA LooksShow ==
  ASSUME Inv, ForOnwards \/ EndSearch \/ EndCount
  PROVE  Abstract!Next \/ (Shown' = Shown /\ call' = call)
<1>1. /\ pc \in {"search", "count"} /\ pc' \in {"search", "count", "idle"}
      /\ head' = head /\ next' = next /\ prev' = prev /\ held' = held /\ kind' = kind
  BY DEF ForOnwards, EndSearch, EndCount, utlist, fields, Calls, Reset
<1>2. /\ Base /\ AllHeld /\ ~Sorting /\ ~Sorting' /\ FieldsOK /\ own \in List
  BY <1>1 DEF Inv, Base, Whole, AllHeld, Sorting
<1>3. Shown' = Shown
  BY <1>1, <1>2, ReadingShows
<1>4. PICK s : Looking(s)
  BY <1>1 DEF Inv, InLoop
<1>5. /\ Holds(own, s) /\ visited \in Seq(Elt) /\ Len(visited) <= Len(s)
      /\ \A i \in 1..Len(visited) : visited[i] = s[i] /\ key[s[i]] = 1
      /\ el = At(s, Len(visited) + 1)
  BY <1>4 DEF Looking
<1>6. s \in Seq(Elt) /\ Len(s) \in Nat /\ DOMAIN s = 1..Len(s) /\ Len(visited) \in Nat
  BY <1>2, <1>5, Reads, LenProperties
<1>7. Shown[own] = s
  BY <1>2, <1>5, ShownIs DEF Shows
<1>8. el \in Elt \cup {NULL} /\ (el = NULL <=> Len(visited) + 1 > Len(s))
  <2>1. Len(visited) + 1 \in Nat /\ Len(visited) + 1 >= 1
    BY <1>6
  <2> QED BY <1>5, <1>6, <2>1, SlotOK
<1>9. CASE ForOnwards
  BY <1>3, <1>9 DEF ForOnwards, utlist
<1>10. CASE EndSearch
  <2>1. /\ call' = <<"search", own, key, el>> /\ (el # NULL => key[el] = 2)
        /\ key \in [Elt -> {1, 2}]
    BY <1>2, <1>10 DEF EndSearch, Calls, Base
  <2>2. CASE el = NULL
    <3>1. ASSUME NEW i \in 1..Len(s)
          PROVE  key[s[i]] # 2
      <4>1. i \in 1..Len(visited)
        BY <1>6, <1>8, <2>2
      <4> QED BY <1>5, <4>1
    <3>2. Abstract!Search(own, key, el)
      BY <1>3, <1>6, <1>7, <2>1, <2>2, <3>1 DEF Abstract!Search, Shown
    <3> QED BY <1>2, <1>8, <2>1, <3>2 DEF Abstract!Next
  <2>3. CASE el # NULL
    <3>1. PICK i : i = Len(visited) + 1
      OBVIOUS
    <3>2. i \in 1..Len(s) /\ el = s[i]
      BY <1>5, <1>6, <1>8, <2>3, <3>1 DEF At
    <3>3. ASSUME NEW j \in 1..i - 1
          PROVE  key[s[j]] # 2
      <4>1. j \in 1..Len(visited)
        BY <1>6, <3>1
      <4> QED BY <1>5, <4>1
    <3>4. Abstract!Search(own, key, el)
      BY <1>3, <1>6, <1>7, <2>1, <2>3, <3>2, <3>3 DEF Abstract!Search, Shown
    <3> QED BY <1>2, <1>8, <2>1, <3>4 DEF Abstract!Next
  <2> QED BY <2>2, <2>3
<1>11. CASE EndCount
  <2>1. call' = <<"count", own, Len(visited), NULL>> /\ el = NULL
    BY <1>11 DEF EndCount, Calls
  <2>2. Len(visited) = Len(s)
    BY <1>5, <1>6, <1>8, <2>1
  <2>3. Abstract!Count(own)
    BY <1>3, <1>7, <2>1, <2>2 DEF Abstract!Count, Shown
  <2> QED BY <1>2, <2>3 DEF Abstract!Next
<1> QED BY <1>9, <1>10, <1>11

LEMMA WalksShow ==
  ASSUME Inv, VisitOnly \/ VisitAndDelete \/ EndWalk
  PROVE  Abstract!Next \/ (Shown' = Shown /\ call' = call)
<1>1. pc = "walk" /\ pc' \in {"walk", "idle"} /\ kind' = kind
  BY DEF VisitOnly, VisitAndDelete, EndWalk, Visit, utlist, Calls, Reset
<1>2. /\ AllHeld /\ ~Sorting /\ ~Sorting' /\ FieldsOK /\ HeldOK /\ own \in List /\ Walking
  BY <1>1 DEF Inv, Base, Whole, AllHeld, Sorting, InLoop
<1>3. CASE VisitOnly \/ EndWalk
  <2>1. head' = head /\ next' = next /\ prev' = prev /\ held' = held /\ call' = call
    BY <1>3 DEF VisitOnly, EndWalk, utlist, fields
  <2> QED BY <1>1, <1>2, <2>1, ReadingShows
<1>4. CASE VisitAndDelete
  <2>1. Unlink(own, el) /\ call' = <<"delete", own, el, NULL>> /\ el \in Elt
    BY <1>4 DEF VisitAndDelete, Visit, Calls
  <2>2. el \in In(own)
    BY <1>2, <2>1, WalkedIsIn
  <2>3. PICK l, o : l = own /\ o = el
    OBVIOUS
  <2>4. PICK s : Holds(l, s)
    BY <1>2, <2>3 DEF AllHeld
  <2>5. PICK n \in 1..Len(s) : o = s[n]
    BY <1>2, <2>2, <2>3, <2>4, Reads
  <2>6. Makes(l, Removed(s, n))
    BY <1>1, <1>2, <2>1, <2>3, <2>4, <2>5, UnlinkMakes
  <2>7. Abstract!Delete(l, o)
    BY <1>2, <2>1, <2>3, <2>4, <2>5, <2>6, DeletionShows
  <2> QED BY <1>2, <2>1, <2>3, <2>7 DEF Abstract!Next
<1> QED BY <1>3, <1>4

\* A turn of SORT but the last: the caller's list is the one it gave.
LEMMA TurnHides ==
  ASSUME Inv, Sorting, Sorting', SortTurn, FieldsOK'
  PROVE  Shown' = Shown /\ call' = call
<1>1. Base /\ Whole /\ own \in List /\ FieldsOK /\ LsOK
  BY DEF Inv, Base, Sorting
<1>2. /\ kind' = kind /\ held' = held /\ own' = own /\ before' = before /\ call' = call
  BY DEF SortTurn, SortKeeps
<1>3. ASSUME NEW l \in List
      PROVE  \E u : Shows(l, u) /\ Shows(l, u)'
  <2>1. CASE l = own
    BY <1>2, <2>1 DEF Shows
  <2>2. CASE l # own
    <3>1. PICK u : Holds(l, u)
      BY <1>1, <2>2 DEF Whole
    <3>2. Holds(l, u)'
      BY <1>1, <1>2, <2>2, <3>1, SortFrame DEF SortTurn
    <3> QED BY <1>2, <2>2, <3>1, <3>2 DEF Shows
  <2> QED BY <2>1, <2>2
<1> QED BY <1>1, <1>2, <1>3, NoneChanges

LEMMA TurnsShow ==
  ASSUME Inv, StartPass \/ StartMerge \/ Take \/ EndMerge
  PROVE  Shown' = Shown /\ call' = call
<1>1. Sorting /\ Sorting'
  BY DEF StartPass, StartMerge, Take, EndMerge, Sorting
<1>2. SortTurn /\ FieldsOK'
  <2>1. CASE StartPass
    <3>1. Inv'
      BY <2>1, InvStartPass
    <3> QED BY <2>1, <3>1 DEF Inv, Base, StartPass, SortTurn, SortKeeps, SetHead, FieldsOK
  <2>2. CASE StartMerge \/ EndMerge
    <3>1. Inv'
      BY <2>2, InvStartMerge, InvEndMerge
    <3> QED BY <2>2, <3>1
            DEF Inv, Base, StartMerge, EndMerge, SortTurn, SortKeeps, utlist, fields
  <2>3. CASE Take
    BY <2>3, TakeFrame
  <2> QED BY <2>1, <2>2, <2>3
<1> QED BY <1>1, <1>2, TurnHides

LEMMA EndPassShows ==
  ASSUME Inv, EndPass
  PROVE  Abstract!Next \/ (Shown' = Shown /\ call' = call)
<1>1. /\ Base /\ FieldsOK /\ FieldsOK' /\ Sorting /\ SortOK /\ Whole /\ own \in List
      /\ key \in [Elt -> Key]
  BY PassEnds DEF EndPass, Inv, Base, InLoop, Sorting
<1>2. \A m \in List \ {own} : \E u : Holds(m, u) /\ Holds(m, u)'
  BY <1>1, PassEnds DEF Whole
<1>3. CASE ~LastPass
  <2>1. Sorting' /\ own' = own /\ before' = before /\ call' = call
    BY <1>3 DEF EndPass, Sorting
  <2>2. ASSUME NEW l \in List
        PROVE  \E u : Shows(l, u) /\ Shows(l, u)'
    BY <1>1, <1>2, <2>1 DEF Shows
  <2>3. Shown' = Shown
    BY <1>1, <2>2, NoneChanges
  <2> QED BY <2>1, <2>3
<1>4. CASE LastPass
  <2>1. ~Sorting' /\ call' = <<"sort", own, key, NULL>>
    BY <1>4 DEF EndPass, Reset, Sorting, Calls
  <2>2. PICK t, D : /\ \A l : l = own => Holds(l, t)'
                    /\ t \in Seq(Elt) /\ Len(t) > 0 /\ Members(t) = In(own)
                    /\ Runs(t, D, 2 * ls.insize)
                    /\ ls.nmerges <= 1 => \A i, j \in 1..Len(t) : i < j => Ahead(t[i], t[j])
    BY PassEnds
  <2>3. PICK l : l = own
    OBVIOUS
  <2>4. Holds(l, t)' /\ Distinct(t)
    BY <2>2, <2>3 DEF Holds, Chain
  <2>5. \A i, j \in 1..Len(t) : i < j => Ahead(t[i], t[j])
    BY <1>4, <2>2 DEF LastPass
  <2>6. /\ t \in Abstract!SetToSeqs(Abstract!Range(before))
        /\ Abstract!Sorted(before, key, t)
    BY <1>1, <2>2, <2>4, <2>5, SortedShows
  <2>7. Shown[l] = before /\ Shown' = [Shown EXCEPT ![l] = t]
    <3>1. Shows(l, before) /\ Shows(l, t)'
      BY <1>1, <2>1, <2>3, <2>4 DEF Shows
    <3>2. \A m \in List \ {l} : \E u : Shows(m, u) /\ Shows(m, u)'
      BY <1>2, <2>1, <2>3 DEF Shows
    <3> QED BY <1>1, <2>3, <3>1, <3>2, OneChanges
  <2>8. Abstract!Sort(l, key)
    BY <2>1, <2>3, <2>6, <2>7 DEF Abstract!Sort, Abstract!Becomes, Shown
  <2> QED BY <1>1, <2>3, <2>8 DEF Abstract!Next
<1> QED BY <1>3, <1>4

LEMMA StepShows ==
  ASSUME Inv, [LoopsNext]_vars
  PROVE  Abstract!Next \/ (Shown' = Shown /\ call' = call)
<1>1. CASE Call
  <2>1. pc = "idle" /\ pc' = "idle" /\ Next
    BY <1>1 DEF Call
  <2>2. FieldsOK /\ HeldOK /\ AllHeld /\ ~Sorting /\ ~Sorting'
    BY <2>1 DEF Inv, Base, Whole, AllHeld, Sorting
  <2> QED BY <2>1, <2>2, CallShows
<1>2. CASE \E l \in List : SortEmpty(l) \/ StartSort(l) \/ StartWalk(l) \/ StartFor(l)
  BY <1>2, SortEmptyShows, StartsShow
<1>3. CASE StartPass \/ StartMerge \/ Take \/ EndMerge \/ EndPass
  BY <1>3, TurnsShow, EndPassShows
<1>4. CASE VisitOnly \/ VisitAndDelete \/ EndWalk
  BY <1>4, WalksShow
<1>5. CASE ForOnwards \/ EndSearch \/ EndCount
  BY <1>5, LooksShow
<1>6. CASE UNCHANGED vars
  <2>1. /\ head' = head /\ next' = next /\ kind' = kind /\ call' = call /\ pc' = pc
        /\ own' = own /\ before' = before
    BY <1>6 DEF vars, utlist, fields, locals
  <2> QED BY <2>1 DEF Shown, Sorting, Contents, After
<1> QED BY <1>1, <1>2, <1>3, <1>4, <1>5, <1>6 DEF LoopsNext, Turn

LEMMA InitShows == LoopsInit => Abstract!Init
<1> SUFFICES ASSUME LoopsInit PROVE Abstract!Init
  OBVIOUS
<1>1. FieldsOK /\ ~Sorting
  BY InvInit DEF LoopsInit, Inv, Base, Sorting
<1>2. \A l \in List : Shown[l] = <<>>
  BY <1>1, NoElements, ShownIs DEF Shows
<1> QED BY <1>2 DEF Abstract!Init, Shown, LoopsInit, Init

\* Every macro does to the sequence what its name says, SORT after all its
\* turns and whatever a body deletes, and nothing shows in between.
THEOREM UtlistRefinesLists == LoopsSpec => RefinesLists
<1>1. LoopsInit => Abstract!Init
  BY InitShows
<1>2. Inv /\ [LoopsNext]_vars => [Abstract!Next]_<<Shown, call>>
  BY StepShows
<1> QED BY <1>1, <1>2, InvAlways, PTL DEF LoopsSpec, RefinesLists, Abstract!Spec, Shown
=============================================================================
