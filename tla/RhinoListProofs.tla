--------------------------- MODULE RhinoListProofs ---------------------------
(***************************************************************************)
(* What the list operations of RhinoList do to the entries of a list, to   *)
(* their order and to their uniqueness.                                    *)
(***************************************************************************)
EXTENDS RhinoList, TLAPS, WellFoundedInduction, SequenceTheorems

(* Every nonempty set of naturals has a least element. *)
LEMMA LeastNat ==
  ASSUME NEW S \in SUBSET Nat, S # {}
  PROVE  \E n \in S : \A m \in S : n <= m
<1> DEFINE R == OpToRel(<, Nat)
<1>1. IsWellFoundedOn(R, Nat)
  BY NatLessThanWellFounded
<1>2. \A x, y \in Nat : x < y => <<x, y>> \in R
  BY DEF OpToRel
<1> HIDE DEF R
<1>3. PICK x \in S : \A y \in S : ~ (<<y, x>> \in R)
  BY <1>1, WFMin
<1>4. ASSUME NEW y \in S PROVE x <= y
  <2>1. x \in Nat /\ y \in Nat
    OBVIOUS
  <2>2. <<y, x>> \notin R
    BY <1>3
  <2> QED BY <1>2, <2>1, <2>2
<1> QED BY <1>4

(* klist_rm takes out one position and moves the rest up. *)
LEMMA RemoveAtIndex ==
  ASSUME NEW S, NEW s \in Seq(S), NEW i \in 1 .. Len(s)
  PROVE  /\ RemoveAt(s, i) \in Seq(S)
         /\ Len(RemoveAt(s, i)) = Len(s) - 1
         /\ \A j \in 1 .. Len(s) - 1 :
              RemoveAt(s, i)[j] = IF j < i THEN s[j] ELSE s[j + 1]
<1> DEFINE a == SubSeq(s, 1, i - 1)
           b == SubSeq(s, i + 1, Len(s))
<1>1. Len(s) \in Nat
  BY LenProperties
<1>2. /\ a \in Seq(S) /\ Len(a) = i - 1
      /\ \A j \in 1 .. i - 1 : a[j] = s[j]
  BY <1>1, SubSeqProperties
<1>3. /\ b \in Seq(S) /\ Len(b) = Len(s) - i
      /\ \A j \in 1 .. Len(s) - i : b[j] = s[i + j]
  BY <1>1, SubSeqProperties
<1> HIDE DEF a, b
<1> DEFINE r == a \o b
<1>4. /\ r \in Seq(S) /\ Len(r) = Len(a) + Len(b)
      /\ \A j \in 1 .. Len(a) + Len(b) :
           r[j] = IF j <= Len(a) THEN a[j] ELSE b[j - Len(a)]
  BY <1>2, <1>3, ConcatProperties
<1>9. RemoveAt(s, i) = r
  BY DEF RemoveAt, a, b
<1> HIDE DEF r
<1>10. /\ Len(r) = Len(s) - 1
       /\ \A j \in 1 .. Len(s) - 1 :
            r[j] = IF j <= i - 1 THEN a[j] ELSE b[j - (i - 1)]
  <2>1. Len(a) + Len(b) = Len(s) - 1
    BY <1>1, <1>2, <1>3
  <2> QED BY <2>1, <1>2, <1>4
<1>5. ASSUME NEW j \in 1 .. Len(s) - 1
      PROVE  r[j] = IF j < i THEN s[j] ELSE s[j + 1]
  <2>1. CASE j < i
    BY <2>1, <1>1, <1>2, <1>10
  <2>2. CASE j >= i
    <3>1. /\ j - (i - 1) \in 1 .. Len(s) - i
          /\ i + (j - (i - 1)) = j + 1
          /\ ~(j <= i - 1)
      BY <2>2, <1>1
    <3>2. r[j] = b[j - (i - 1)]
      BY <3>1, <1>10
    <3>3. b[j - (i - 1)] = s[i + (j - (i - 1))]
      BY <3>1, <1>3
    <3> QED BY <2>2, <1>1, <3>1, <3>2, <3>3
  <2> QED BY <1>1, <2>1, <2>2
<1> QED BY <1>4, <1>5, <1>9, <1>10

(* klist_insert makes room at one position. *)
LEMMA InsertAtIndex ==
  ASSUME NEW S, NEW s \in Seq(S), NEW i \in 1 .. Len(s) + 1, NEW e \in S
  PROVE  /\ InsertAt(s, i, e) \in Seq(S)
         /\ Len(InsertAt(s, i, e)) = Len(s) + 1
         /\ \A j \in 1 .. Len(s) + 1 :
              InsertAt(s, i, e)[j] = IF j < i THEN s[j]
                                     ELSE IF j = i THEN e ELSE s[j - 1]
<1> DEFINE a == SubSeq(s, 1, i - 1)
           b == SubSeq(s, i, Len(s))
           c == a \o <<e>>
<1>1. Len(s) \in Nat
  BY LenProperties
<1>2. /\ a \in Seq(S) /\ Len(a) = i - 1
      /\ \A j \in 1 .. i - 1 : a[j] = s[j]
  BY <1>1, SubSeqProperties
<1>3. /\ b \in Seq(S) /\ Len(b) = Len(s) - i + 1
      /\ \A j \in 1 .. Len(s) - i + 1 : b[j] = s[i + j - 1]
  BY <1>1, SubSeqProperties
<1>4. /\ <<e>> \in Seq(S) /\ Len(<<e>>) = 1 /\ <<e>>[1] = e
  OBVIOUS
<1> HIDE DEF a, b
<1>5. /\ c \in Seq(S) /\ Len(c) = i
      /\ \A j \in 1 .. i : c[j] = IF j < i THEN s[j] ELSE e
  BY <1>1, <1>2, <1>4, ConcatProperties
<1> HIDE DEF c
<1> DEFINE r == c \o b
<1>6. /\ r \in Seq(S) /\ Len(r) = Len(c) + Len(b)
      /\ \A j \in 1 .. Len(c) + Len(b) :
           r[j] = IF j <= Len(c) THEN c[j] ELSE b[j - Len(c)]
  BY <1>3, <1>5, ConcatProperties
<1>9. InsertAt(s, i, e) = r
  BY DEF InsertAt, a, b, c
<1> HIDE DEF r
<1>10. /\ Len(r) = Len(s) + 1
       /\ \A j \in 1 .. Len(s) + 1 : r[j] = IF j <= i THEN c[j] ELSE b[j - i]
  <2>1. Len(c) + Len(b) = Len(s) + 1
    BY <1>1, <1>3, <1>5
  <2> QED BY <2>1, <1>5, <1>6
<1>7. ASSUME NEW j \in 1 .. Len(s) + 1
      PROVE  r[j] = IF j < i THEN s[j] ELSE IF j = i THEN e ELSE s[j - 1]
  <2>1. CASE j <= i
    BY <2>1, <1>1, <1>5, <1>10
  <2>2. CASE j > i
    <3>1. j - i \in 1 .. Len(s) - i + 1 /\ i + (j - i) - 1 = j - 1
      BY <2>2, <1>1
    <3>2. r[j] = b[j - i]
      BY <2>2, <1>1, <1>10
    <3>3. b[j - i] = s[i + (j - i) - 1]
      BY <3>1, <1>3
    <3> QED BY <2>2, <1>1, <3>1, <3>2, <3>3
  <2> QED BY <1>1, <2>1, <2>2
<1> QED BY <1>6, <1>7, <1>9, <1>10

(* klist_rm of an entry: the others stay, in their order. *)
LEMMA KlistRm ==
  ASSUME NEW S, NEW s \in Seq(S), NEW e \in ToSet(s)
  PROVE  /\ klist_rm(s, e) \in Seq(S)
         /\ Len(klist_rm(s, e)) = Len(s) - 1
         /\ Linear(s) => /\ ToSet(klist_rm(s, e)) = ToSet(s) \ {e}
                         /\ Linear(klist_rm(s, e))
<1> DEFINE i == CHOOSE k \in 1 .. Len(s) : s[k] = e
           r == RemoveAt(s, i)
<1>1. Len(s) \in Nat /\ DOMAIN s = 1 .. Len(s)
  BY LenProperties
<1>2. i \in 1 .. Len(s) /\ s[i] = e
  BY <1>1 DEF ToSet
<1> HIDE DEF i
<1>3. /\ r \in Seq(S) /\ Len(r) = Len(s) - 1
      /\ \A j \in 1 .. Len(s) - 1 : r[j] = IF j < i THEN s[j] ELSE s[j + 1]
  BY <1>2, RemoveAtIndex
<1> HIDE DEF r
<1>4. ASSUME Linear(s) PROVE ToSet(r) = ToSet(s) \ {e} /\ Linear(r)
  <2>1. DOMAIN r = 1 .. Len(s) - 1
    BY <1>3, LenProperties
  <2>2. ASSUME NEW j \in 1 .. Len(s) - 1 PROVE r[j] \in ToSet(s) \ {e}
    <3>0. \A k \in 1 .. Len(s) : k # i => s[k] # e /\ s[k] \in ToSet(s)
      BY <1>1, <1>2, <1>4 DEF ToSet, Linear
    <3>1. CASE j < i
      <4>1. j \in 1 .. Len(s) /\ j # i /\ r[j] = s[j]
        BY <3>1, <1>1, <1>2, <1>3
      <4> QED BY <3>0, <4>1
    <3>2. CASE j >= i
      <4>1. j + 1 \in 1 .. Len(s) /\ j + 1 # i /\ r[j] = s[j + 1]
        BY <3>2, <1>1, <1>2, <1>3
      <4> QED BY <3>0, <4>1
    <3> QED BY <1>1, <1>2, <3>1, <3>2
  <2>3. ASSUME NEW k \in 1 .. Len(s), s[k] # e
        PROVE  \E j \in 1 .. Len(s) - 1 : r[j] = s[k]
    <3>1. CASE k < i
      BY <3>1, <1>1, <1>2, <1>3
    <3>2. CASE k > i
      <4>1. k - 1 \in 1 .. Len(s) - 1 /\ ~(k - 1 < i) /\ k - 1 + 1 = k
        BY <3>2, <1>1, <1>2
      <4> QED BY <4>1, <1>3
    <3> QED BY <2>3, <1>1, <1>2, <3>1, <3>2
  <2>4. ToSet(r) = ToSet(s) \ {e}
    <3>1. ToSet(r) \subseteq ToSet(s) \ {e}
      BY <2>1, <2>2 DEF ToSet
    <3>2. ASSUME NEW x \in ToSet(s), x # e PROVE x \in ToSet(r)
      <4>1. PICK k \in 1 .. Len(s) : s[k] = x
        BY <1>1, <3>2 DEF ToSet
      <4> QED BY <4>1, <2>1, <2>3, <3>2 DEF ToSet
    <3> QED BY <3>1, <3>2
  <2>5. Linear(r)
    <3> SUFFICES ASSUME NEW j \in 1 .. Len(s) - 1, NEW k \in 1 .. Len(s) - 1,
                        r[j] = r[k]
                 PROVE  j = k
      BY <1>3 DEF Linear
    <3> DEFINE j1 == IF j < i THEN j ELSE j + 1
               k1 == IF k < i THEN k ELSE k + 1
    <3>1. j1 \in 1 .. Len(s) /\ k1 \in 1 .. Len(s) /\ s[j1] = s[k1]
      BY <1>1, <1>2, <1>3
    <3>2. j1 = k1
      BY <3>1, <1>4 DEF Linear
    <3> QED BY <3>2, <1>2
  <2> QED BY <2>4, <2>5
<1> QED BY <1>3, <1>4 DEF klist_rm, i, r

(* Where the walk of pend_list_add and tick_list_pri_insert stops. *)
LEMMA FirstAboveExists ==
  ASSUME NEW S, NEW s \in Seq(S), NEW key, \A e \in S : key[e] \in Int,
         NEW v \in Int
  PROVE  LET i == FirstAbove(s, key, v) IN
           /\ i \in 1 .. Len(s) + 1
           /\ \A j \in 1 .. i - 1 : key[s[j]] <= v
           /\ i <= Len(s) => key[s[i]] > v
<1> DEFINE A == {j \in 1 .. Len(s) : key[s[j]] > v} \cup {Len(s) + 1}
           P(i) == /\ \A j \in 1 .. i - 1 : key[s[j]] <= v
                   /\ i <= Len(s) => key[s[i]] > v
<1>1. Len(s) \in Nat
  BY LenProperties
<1>2. \A j \in 1 .. Len(s) : key[s[j]] \in Int
  BY ElementOfSeq
<1>3. A \in SUBSET Nat /\ A # {}
  BY <1>1
<1>4. PICK n \in A : \A k \in A : n <= k
  BY <1>3, LeastNat
<1>5. n \in 1 .. Len(s) + 1
  BY <1>1
<1>6. ASSUME NEW j \in 1 .. n - 1 PROVE key[s[j]] <= v
  <2>1. j \in 1 .. Len(s) /\ j < n
    BY <1>1, <1>5
  <2>2. j \notin A
    BY <2>1, <1>4, <1>1, <1>5
  <2> QED BY <2>1, <2>2, <1>2
<1>7. n <= Len(s) => key[s[n]] > v
  BY <1>1
<1>8. \E i \in 1 .. Len(s) + 1 : P(i)
  BY <1>5, <1>6, <1>7
<1> QED BY <1>8 DEF FirstAbove

(* What an insertion does, at whatever place. *)
LEMMA InsertAtEntries ==
  ASSUME NEW S, NEW s \in Seq(S), NEW i \in 1 .. Len(s) + 1, NEW e \in S
  PROVE  /\ InsertAt(s, i, e) \in Seq(S)
         /\ ToSet(InsertAt(s, i, e)) = ToSet(s) \cup {e}
         /\ Linear(s) /\ e \notin ToSet(s) => Linear(InsertAt(s, i, e))
<1> DEFINE r == InsertAt(s, i, e)
           n == Len(s)
<1>1. n \in Nat /\ DOMAIN s = 1 .. n
  BY LenProperties
<1>2. i \in 1 .. n + 1
  OBVIOUS
<1>3. /\ r \in Seq(S) /\ Len(r) = n + 1
      /\ \A j \in 1 .. n + 1 :
           r[j] = IF j < i THEN s[j] ELSE IF j = i THEN e ELSE s[j - 1]
  <2>1. r \in Seq(S)
    BY InsertAtIndex
  <2>2. Len(r) = n + 1
    BY InsertAtIndex
  <2>3. ASSUME NEW j \in 1 .. n + 1
        PROVE  r[j] = IF j < i THEN s[j] ELSE IF j = i THEN e ELSE s[j - 1]
    BY InsertAtIndex
  <2> QED BY <2>1, <2>2, <2>3
<1>4. DOMAIN r = 1 .. n + 1
  BY <1>3, LenProperties
<1> HIDE DEF r
<1>6. ASSUME NEW j \in 1 .. n + 1 PROVE r[j] \in ToSet(s) \cup {e}
  <2>1. CASE j < i
    <3>1. j \in 1 .. n /\ r[j] = s[j]
      BY <2>1, <1>1, <1>2, <1>3
    <3> QED BY <3>1, <1>1 DEF ToSet
  <2>2. CASE j = i
    BY <2>2, <1>1, <1>2, <1>3
  <2>3. CASE j > i
    <3>1. j - 1 \in 1 .. n /\ r[j] = s[j - 1]
      BY <2>3, <1>1, <1>2, <1>3
    <3> QED BY <3>1, <1>1 DEF ToSet
  <2> QED BY <1>1, <1>2, <2>1, <2>2, <2>3
<1>7. ASSUME NEW j \in 1 .. n PROVE s[j] \in ToSet(r)
  <2>1. CASE j < i
    <3>1. j \in 1 .. n + 1 /\ r[j] = s[j]
      BY <2>1, <1>1, <1>2, <1>3
    <3> QED BY <3>1, <1>4 DEF ToSet
  <2>2. CASE j >= i
    <3>1. j + 1 \in 1 .. n + 1 /\ ~(j + 1 < i) /\ j + 1 # i /\ j + 1 - 1 = j
      BY <2>2, <1>1, <1>2
    <3>2. r[j + 1] = s[j]
      BY <3>1, <1>3
    <3> QED BY <3>1, <3>2, <1>4 DEF ToSet
  <2> QED BY <1>1, <1>2, <2>1, <2>2
<1>8. ToSet(r) = ToSet(s) \cup {e}
  <2>1. r[i] = e
    BY <1>1, <1>2, <1>3
  <2>2. e \in ToSet(r)
    BY <2>1, <1>1, <1>2, <1>4 DEF ToSet
  <2>3. ToSet(s) \cup {e} \subseteq ToSet(r)
    BY <2>2, <1>1, <1>7 DEF ToSet
  <2>4. ToSet(r) \subseteq ToSet(s) \cup {e}
    BY <1>4, <1>6 DEF ToSet
  <2> QED BY <2>3, <2>4
<1>9. ASSUME Linear(s), e \notin ToSet(s) PROVE Linear(r)
  <2> SUFFICES ASSUME NEW j \in 1 .. n + 1, NEW k \in 1 .. n + 1, r[j] = r[k]
               PROVE  j = k
    BY <1>3 DEF Linear
  <2>1. \A x \in 1 .. n + 1 : x # i => /\ (IF x < i THEN x ELSE x - 1) \in 1 .. n
                                      /\ r[x] = s[IF x < i THEN x ELSE x - 1]
    BY <1>1, <1>2, <1>3
  <2>2. \A x \in 1 .. n + 1 : x # i => r[x] # e
    BY <2>1, <1>1, <1>9 DEF ToSet
  <2>3. r[i] = e
    BY <1>1, <1>2, <1>3
  <2>4. CASE j = i \/ k = i
    BY <2>2, <2>3, <2>4
  <2>5. CASE j # i /\ k # i
    <3>1. (IF j < i THEN j ELSE j - 1) = (IF k < i THEN k ELSE k - 1)
      BY <2>1, <2>5, <1>9 DEF Linear
    <3> QED BY <3>1, <2>5, <1>1, <1>2
  <2> QED BY <2>4, <2>5
<1> QED BY <1>3, <1>8, <1>9 DEF r

(* The insertion loop adds the entry and keeps the order of the keys. *)
LEMMA SortedInsertProperties ==
  ASSUME NEW S, NEW s \in Seq(S), NEW e \in S, NEW key,
         \A x \in S : key[x] \in Int
  PROVE  /\ SortedInsert(s, e, key) \in Seq(S)
         /\ ToSet(SortedInsert(s, e, key)) = ToSet(s) \cup {e}
         /\ Linear(s) /\ e \notin ToSet(s) => Linear(SortedInsert(s, e, key))
         /\ Sorted(s, key) => Sorted(SortedInsert(s, e, key), key)
<1> DEFINE i == FirstAbove(s, key, key[e])
           r == InsertAt(s, i, e)
           n == Len(s)
<1>1. n \in Nat /\ DOMAIN s = 1 .. n
  BY LenProperties
<1>2. /\ i \in 1 .. n + 1
      /\ \A j \in 1 .. i - 1 : key[s[j]] <= key[e]
      /\ i <= n => key[s[i]] > key[e]
  BY FirstAboveExists
<1> HIDE DEF i
<1>3. /\ r \in Seq(S) /\ Len(r) = n + 1
      /\ \A j \in 1 .. n + 1 :
           r[j] = IF j < i THEN s[j] ELSE IF j = i THEN e ELSE s[j - 1]
  BY <1>2, InsertAtIndex
<1>4. DOMAIN r = 1 .. n + 1
  BY <1>3, LenProperties
<1>5. r = SortedInsert(s, e, key)
  BY DEF SortedInsert, i
<1> HIDE DEF r
<1>6. ToSet(r) = ToSet(s) \cup {e} /\ (Linear(s) /\ e \notin ToSet(s) => Linear(r))
  BY <1>2, InsertAtEntries DEF r
<1>7. ASSUME Sorted(s, key) PROVE Sorted(r, key)
  <2> SUFFICES ASSUME NEW j \in 1 .. n + 1, NEW k \in 1 .. n + 1, j <= k
               PROVE  key[r[j]] <= key[r[k]]
    BY <1>3 DEF Sorted
  <2> DEFINE K(x) == key[s[x]]
  <2>1. \A x \in 1 .. n : K(x) \in Int
    BY ElementOfSeq
  <2>2. \A x, y \in 1 .. n : x <= y => K(x) <= K(y)
    BY <1>7 DEF Sorted
  <2>3. key[e] \in Int
    OBVIOUS
  <2>4. \A x \in 1 .. n : x >= i => key[e] <= K(x)
    <3> TAKE x \in 1 .. n
    <3> HAVE x >= i
    <3>1. i \in 1 .. n
      BY <1>1, <1>2
    <3>2. K(i) <= K(x) /\ key[e] < K(i)
      BY <3>1, <2>2, <1>1, <1>2
    <3> QED BY <3>1, <3>2, <2>1, <2>3
  <2>5. \A x \in 1 .. n : x < i => K(x) <= key[e]
    BY <1>1, <1>2
  <2>6. \A x \in 1 .. n + 1 : x < i => x \in 1 .. n /\ key[r[x]] = K(x)
    BY <1>1, <1>2, <1>3
  <2>7. \A x \in 1 .. n + 1 : x > i => x - 1 \in 1 .. n /\ key[r[x]] = K(x - 1)
    BY <1>1, <1>2, <1>3
  <2>8. key[r[i]] = key[e]
    BY <1>1, <1>2, <1>3
  <2> HIDE DEF K
  <2>9. CASE j < i /\ k < i
    BY <2>9, <2>2, <2>6
  <2>10. CASE j < i /\ k = i
    BY <2>10, <2>5, <2>6, <2>8
  <2>11. CASE j < i /\ k > i
    <3>1. j <= k - 1
      BY <2>11, <1>1, <1>2
    <3> QED BY <3>1, <2>11, <2>2, <2>6, <2>7
  <2>12. CASE j = i /\ k = i
    BY <2>12, <2>3, <2>8
  <2>13. CASE j = i /\ k > i
    <3>1. k - 1 >= i
      BY <2>13, <1>1, <1>2
    <3> QED BY <3>1, <2>13, <2>4, <2>7, <2>8
  <2>14. CASE j > i /\ k > i
    <3>1. j - 1 <= k - 1
      BY <2>14, <1>1, <1>2
    <3> QED BY <3>1, <2>14, <2>2, <2>7
  <2> QED BY <1>1, <1>2, <2>9, <2>10, <2>11, <2>12, <2>13, <2>14
<1> QED BY <1>3, <1>5, <1>6, <1>7

(* A list that loses an entry stays in order. *)
LEMMA KlistRmSorted ==
  ASSUME NEW S, NEW s \in Seq(S), NEW e \in ToSet(s), NEW key, Sorted(s, key)
  PROVE  Sorted(klist_rm(s, e), key)
<1> DEFINE i == CHOOSE k \in 1 .. Len(s) : s[k] = e
           r == RemoveAt(s, i)
<1>1. Len(s) \in Nat /\ DOMAIN s = 1 .. Len(s)
  BY LenProperties
<1>2. i \in 1 .. Len(s)
  BY <1>1 DEF ToSet
<1> HIDE DEF i
<1>3. /\ Len(r) = Len(s) - 1
      /\ \A j \in 1 .. Len(s) - 1 : r[j] = IF j < i THEN s[j] ELSE s[j + 1]
  BY <1>2, RemoveAtIndex
<1>4. r = klist_rm(s, e)
  BY DEF klist_rm, i
<1> HIDE DEF r
<1>5. ASSUME NEW j \in 1 .. Len(s) - 1, NEW k \in 1 .. Len(s) - 1, j <= k
      PROVE  key[r[j]] <= key[r[k]]
  <2> DEFINE j1 == IF j < i THEN j ELSE j + 1
             k1 == IF k < i THEN k ELSE k + 1
  <2>1. j1 \in 1 .. Len(s) /\ k1 \in 1 .. Len(s) /\ j1 <= k1
    BY <1>1, <1>2, <1>5
  <2>2. r[j] = s[j1] /\ r[k] = s[k1]
    BY <1>1, <1>2, <1>3
  <2> QED BY <2>1, <2>2 DEF Sorted
<1> QED BY <1>3, <1>4, <1>5 DEF Sorted

(* Appending an entry, putting one in front, and taking the first one off. *)
LEMMA AppendEntry ==
  ASSUME NEW S, NEW s \in Seq(S), NEW e \in S
  PROVE  /\ Append(s, e) \in Seq(S)
         /\ Append(s, e) # <<>>
         /\ ToSet(Append(s, e)) = ToSet(s) \cup {e}
         /\ Linear(s) /\ e \notin ToSet(s) => Linear(Append(s, e))
<1> DEFINE r == Append(s, e)
           n == Len(s)
<1>1. n \in Nat /\ DOMAIN s = 1 .. n
  BY LenProperties
<1>2. /\ r \in Seq(S) /\ r # <<>> /\ Len(r) = n + 1
      /\ r[n + 1] = e
      /\ \A j \in 1 .. n : r[j] = s[j]
  BY AppendProperties
<1>3. DOMAIN r = 1 .. n + 1
  BY <1>2, LenProperties
<1> HIDE DEF r
<1>4. \A j \in 1 .. n + 1 : j = n + 1 \/ j \in 1 .. n
  BY <1>1
<1>5. ToSet(r) = ToSet(s) \cup {e}
  <2>1. \A j \in 1 .. n + 1 : r[j] \in ToSet(s) \cup {e}
    BY <1>1, <1>2, <1>4 DEF ToSet
  <2>2. \A j \in 1 .. n : j \in 1 .. n + 1
    BY <1>1
  <2>3. n + 1 \in 1 .. n + 1
    BY <1>1
  <2> QED BY <1>1, <1>2, <1>3, <2>1, <2>2, <2>3 DEF ToSet
<1>6. ASSUME Linear(s), e \notin ToSet(s) PROVE Linear(r)
  <2>1. \A j \in 1 .. n : r[j] # e
    BY <1>1, <1>2, <1>6 DEF ToSet
  <2> QED BY <1>2, <1>4, <1>6, <2>1 DEF Linear
<1> QED BY <1>2, <1>5, <1>6 DEF r

(* An entry put in front of a list. *)
LEMMA PutInFront ==
  ASSUME NEW S, NEW s \in Seq(S), NEW e \in S
  PROVE  /\ <<e>> \o s \in Seq(S)
         /\ <<e>> \o s # <<>>
         /\ ToSet(<<e>> \o s) = ToSet(s) \cup {e}
         /\ Linear(s) /\ e \notin ToSet(s) => Linear(<<e>> \o s)
<1> DEFINE r == <<e>> \o s
           n == Len(s)
<1>1. n \in Nat /\ DOMAIN s = 1 .. n
  BY LenProperties
<1>2. <<e>> \in Seq(S) /\ Len(<<e>>) = 1 /\ <<e>>[1] = e
  OBVIOUS
<1>3. /\ r \in Seq(S) /\ Len(r) = 1 + n
      /\ \A j \in 1 .. 1 + n : r[j] = IF j <= 1 THEN <<e>>[j] ELSE s[j - 1]
  BY <1>2, ConcatProperties
<1>4. DOMAIN r = 1 .. 1 + n /\ r # <<>>
  BY <1>1, <1>3, LenProperties
<1> HIDE DEF r
<1>5. r[1] = e
  BY <1>1, <1>2, <1>3
<1>6. \A j \in 1 .. n : j + 1 \in 1 .. 1 + n /\ r[j + 1] = s[j]
  BY <1>1, <1>3
<1>7. \A j \in 1 .. 1 + n : j = 1 \/ (j - 1 \in 1 .. n /\ r[j] = s[j - 1])
  BY <1>1, <1>3
<1>8. ToSet(r) = ToSet(s) \cup {e}
  <2>1. \A j \in 1 .. 1 + n : r[j] \in ToSet(s) \cup {e}
    BY <1>1, <1>5, <1>7 DEF ToSet
  <2>2. ToSet(r) \subseteq ToSet(s) \cup {e}
    BY <1>4, <2>1 DEF ToSet
  <2>3. e \in ToSet(r)
    <3>1. 1 \in 1 .. 1 + n
      BY <1>1
    <3> QED BY <1>4, <1>5, <3>1 DEF ToSet
  <2>4. ToSet(s) \subseteq ToSet(r)
    BY <1>1, <1>4, <1>6 DEF ToSet
  <2> QED BY <2>2, <2>3, <2>4
<1>9. ASSUME Linear(s), e \notin ToSet(s) PROVE Linear(r)
  <2> SUFFICES ASSUME NEW j \in 1 .. 1 + n, NEW k \in 1 .. 1 + n, r[j] = r[k]
               PROVE  j = k
    BY <1>3 DEF Linear
  <2>1. \A x \in 1 .. n : s[x] # e
    BY <1>1, <1>9 DEF ToSet
  <2>2. CASE j = 1 \/ k = 1
    BY <2>1, <2>2, <1>5, <1>7
  <2>3. CASE j # 1 /\ k # 1
    <3>1. j - 1 = k - 1
      BY <2>3, <1>7, <1>9 DEF Linear
    <3> QED BY <3>1, <1>1
  <2> QED BY <2>2, <2>3
<1> QED BY <1>3, <1>4, <1>8, <1>9 DEF r

(* The first entry of a list, and the list without it. *)
LEMMA FirstEntry ==
  ASSUME NEW S, NEW s \in Seq(S), s # <<>>
  PROVE  /\ Head(s) \in S
         /\ Head(s) \in ToSet(s)
         /\ Tail(s) \in Seq(S)
         /\ Linear(s) => /\ ToSet(Tail(s)) = ToSet(s) \ {Head(s)}
                         /\ Linear(Tail(s))
<1> DEFINE n == Len(s)
           r == Tail(s)
<1>1. n \in Nat /\ DOMAIN s = 1 .. n /\ n >= 1
  BY LenProperties, EmptySeq
<1>2. Head(s) = s[1] /\ Head(s) \in S
  BY HeadTailProperties, <1>1, ElementOfSeq
<1>3. Head(s) \in ToSet(s)
  BY <1>1, <1>2 DEF ToSet
<1>4. /\ r \in Seq(S) /\ Len(r) = n - 1
      /\ \A j \in 1 .. n - 1 : r[j] = s[j + 1]
  BY HeadTailProperties
<1>5. DOMAIN r = 1 .. n - 1
  BY <1>4, LenProperties
<1> HIDE DEF r
<1>6. ASSUME Linear(s) PROVE ToSet(r) = ToSet(s) \ {Head(s)} /\ Linear(r)
  <2>1. \A j \in 1 .. n - 1 : j + 1 \in 1 .. n /\ j + 1 # 1 /\ 1 \in 1 .. n
    BY <1>1
  <2>2. \A j \in 1 .. n - 1 : r[j] \in ToSet(s) /\ r[j] # s[1]
    BY <2>1, <1>1, <1>4, <1>6 DEF ToSet, Linear
  <2>3. \A k \in 1 .. n : k # 1 => k - 1 \in 1 .. n - 1 /\ k - 1 + 1 = k
    BY <1>1
  <2>4. \A k \in 1 .. n : s[k] # s[1] => s[k] \in ToSet(r)
    <3> TAKE k \in 1 .. n
    <3> HAVE s[k] # s[1]
    <3>1. k - 1 \in 1 .. n - 1 /\ r[k - 1] = s[k]
      BY <2>3, <1>4
    <3> QED BY <3>1, <1>5 DEF ToSet
  <2>5. ToSet(r) = ToSet(s) \ {s[1]}
    BY <1>1, <1>5, <2>2, <2>4 DEF ToSet
  <2>6. Linear(r)
    <3> SUFFICES ASSUME NEW j \in 1 .. n - 1, NEW k \in 1 .. n - 1, r[j] = r[k]
                 PROVE  j = k
      BY <1>4 DEF Linear
    <3>1. j + 1 = k + 1
      BY <2>1, <1>4, <1>6 DEF Linear
    <3> QED BY <3>1, <1>1
  <2> QED BY <2>5, <2>6, <1>2
<1> QED BY <1>2, <1>3, <1>4, <1>6 DEF r

(* The first entry moved to the end, as round robin and yield do. *)
LEMMA HeadToTail ==
  ASSUME NEW S, NEW s \in Seq(S), s # <<>>
  PROVE  LET r == Append(Tail(s), Head(s)) IN
           /\ r \in Seq(S) /\ r # <<>>
           /\ Linear(s) => ToSet(r) = ToSet(s) /\ Linear(r)
<1>1. /\ Head(s) \in S /\ Head(s) \in ToSet(s) /\ Tail(s) \in Seq(S)
      /\ Linear(s) => ToSet(Tail(s)) = ToSet(s) \ {Head(s)} /\ Linear(Tail(s))
  BY FirstEntry
<1>2. /\ Append(Tail(s), Head(s)) \in Seq(S)
      /\ Append(Tail(s), Head(s)) # <<>>
      /\ ToSet(Append(Tail(s), Head(s))) = ToSet(Tail(s)) \cup {Head(s)}
      /\ Linear(Tail(s)) /\ Head(s) \notin ToSet(Tail(s))
           => Linear(Append(Tail(s), Head(s)))
  BY <1>1, AppendEntry
<1>3. ASSUME Linear(s)
      PROVE  /\ ToSet(Append(Tail(s), Head(s))) = ToSet(s)
             /\ Linear(Append(Tail(s), Head(s)))
  BY <1>1, <1>2, <1>3
<1> QED BY <1>2, <1>3

(* Entries and emptiness. *)
LEMMA EntrySet ==
  ASSUME NEW S, NEW s \in Seq(S)
  PROVE  /\ ToSet(s) \subseteq S
         /\ s = <<>> <=> ToSet(s) = {}
         /\ \A e : Contains(s, e) <=> e \in ToSet(s)
<1>1. Len(s) \in Nat /\ DOMAIN s = 1 .. Len(s)
  BY LenProperties
<1>2. ToSet(s) \subseteq S
  BY <1>1, ElementOfSeq DEF ToSet
<1>3. ASSUME s = <<>> PROVE ToSet(s) = {}
  <2>1. Len(s) = 0
    BY <1>3
  <2>2. DOMAIN s = {}
    BY <2>1, <1>1
  <2> QED BY <2>2 DEF ToSet
<1>4. ASSUME s # <<>> PROVE ToSet(s) # {}
  BY <1>4, FirstEntry
<1>5. \A e : Contains(s, e) <=> e \in ToSet(s)
  BY <1>1 DEF ToSet, Contains
<1> QED BY <1>2, <1>3, <1>4, <1>5

==============================================================================
