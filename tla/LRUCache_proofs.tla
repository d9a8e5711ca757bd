--------------------------- MODULE LRUCache_proofs ---------------------------
(***************************************************************************)
(* The list and the map of LRUCache agree, and what it evicts was used     *)
(* longest ago, for any keys and capacities.                               *)
(***************************************************************************)
EXTENDS Recency, SequenceTheorems, TLAPS

(* No element comes twice in the list l; the elements of l. *)
Once(l) == \A i, j \in DOMAIN l : l[i] = l[j] => i = j

In(l) == {l[i] : i \in DOMAIN l}

-----------------------------------------------------------------------------
(* Lists *)

LEMMA RemoveAtList ==
  ASSUME NEW l \in Seq(Keys), NEW i \in 1 .. Len(l)
  PROVE  /\ SE!RemoveAt(l, i) \in Seq(Keys)
         /\ Len(SE!RemoveAt(l, i)) = Len(l) - 1
         /\ \A j \in 1 .. Len(l) - 1 : SE!RemoveAt(l, i)[j] = IF j < i THEN l[j] ELSE l[j + 1]
<1> DEFINE a == SubSeq(l, 1, i - 1)
           b == SubSeq(l, i + 1, Len(l))
<1>1. Len(l) \in Nat /\ \A j \in 1 .. Len(l) : l[j] \in Keys
  OBVIOUS
<1>2. /\ a \in Seq(Keys) /\ Len(a) = i - 1
      /\ \A j \in 1 .. i - 1 : a[j] = l[j]
  BY <1>1, SubSeqProperties
<1>3. /\ b \in Seq(Keys) /\ Len(b) = Len(l) - i
      /\ \A j \in 1 .. Len(l) - i : b[j] = l[i + j]
  BY <1>1, SubSeqProperties
<1>4. SE!RemoveAt(l, i) = a \o b
  BY DEF SE!RemoveAt
<1> HIDE DEF a, b
<1>5. /\ a \o b \in Seq(Keys) /\ Len(a \o b) = Len(l) - 1
      /\ \A j \in 1 .. Len(l) - 1 : (a \o b)[j] = IF j <= i - 1 THEN a[j] ELSE b[j - (i - 1)]
  <2>1. /\ a \o b \in Seq(Keys) /\ Len(a \o b) = Len(a) + Len(b)
        /\ \A j \in 1 .. Len(a) + Len(b) : (a \o b)[j] = IF j <= Len(a) THEN a[j] ELSE b[j - Len(a)]
    BY <1>2, <1>3, ConcatProperties
  <2>2. Len(a) + Len(b) = Len(l) - 1
    BY <1>1, <1>2, <1>3
  <2> QED
    BY <1>2, <2>1, <2>2
<1>6. ASSUME NEW j \in 1 .. Len(l) - 1
      PROVE  (a \o b)[j] = IF j < i THEN l[j] ELSE l[j + 1]
  <2>1. CASE j < i
    BY <1>1, <1>2, <1>5, <2>1
  <2>2. CASE ~(j < i)
    <3>1. j - (i - 1) \in 1 .. Len(l) - i /\ i + (j - (i - 1)) = j + 1
      BY <1>1, <2>2
    <3> QED
      BY <1>1, <1>3, <1>5, <2>2, <3>1
  <2> QED
    BY <2>1, <2>2
<1> QED
  BY <1>4, <1>5, <1>6

(* Erasing the node of k takes k, and nothing else, out of the list. *)
LEMMA ErasedList ==
  ASSUME NEW l \in Seq(Keys), Once(l), NEW k \in Keys
  PROVE  /\ Erased(l, k) \in Seq(Keys) /\ Once(Erased(l, k))
         /\ In(Erased(l, k)) = In(l) \ {k}
         /\ Len(Erased(l, k)) = IF k \in In(l) THEN Len(l) - 1 ELSE Len(l)
<1>1. SE!Contains(l, k) <=> k \in In(l)
  BY DEF SE!Contains, In
<1>2. CASE k \notin In(l)
  BY <1>1, <1>2 DEF Erased
<1>3. CASE k \in In(l)
  <2> DEFINE i == Node(l, k)
             e == SE!RemoveAt(l, i)
  <2>1. i \in 1 .. Len(l) /\ l[i] = k
    BY <1>3 DEF Node, In
  <2> HIDE DEF i
  <2>2. /\ e \in Seq(Keys) /\ Len(e) = Len(l) - 1
        /\ \A j \in 1 .. Len(l) - 1 : e[j] = IF j < i THEN l[j] ELSE l[j + 1]
    BY <2>1, RemoveAtList
  <2>3. Erased(l, k) = e
    BY <1>1, <1>3 DEF Erased, i
  <2> HIDE DEF e
  <2>4. DOMAIN e = 1 .. Len(l) - 1 /\ DOMAIN l = 1 .. Len(l) /\ Len(l) \in Nat
    BY <2>2
  <2>5. ASSUME NEW j \in DOMAIN e
        PROVE  \E m \in DOMAIN l : m # i /\ e[j] = l[m] /\ m = IF j < i THEN j ELSE j + 1
    BY <2>1, <2>2, <2>4
  <2>6. Once(e)
    <3> SUFFICES ASSUME NEW j \in DOMAIN e, NEW h \in DOMAIN e, e[j] = e[h]
                 PROVE  j = h
      BY DEF Once
    <3>1. PICK m \in DOMAIN l : e[j] = l[m] /\ m = IF j < i THEN j ELSE j + 1
      BY <2>5
    <3>2. PICK n \in DOMAIN l : e[h] = l[n] /\ n = IF h < i THEN h ELSE h + 1
      BY <2>5
    <3>3. m = n
      BY <3>1, <3>2 DEF Once
    <3> QED
      BY <2>1, <2>4, <3>1, <3>2, <3>3
  <2>7. In(e) \subseteq In(l) \ {k}
    <3> SUFFICES ASSUME NEW j \in DOMAIN e
                 PROVE  e[j] \in In(l) /\ e[j] # k
      BY DEF In
    <3>1. PICK m \in DOMAIN l : m # i /\ e[j] = l[m]
      BY <2>5
    <3> QED
      BY <2>1, <2>4, <3>1 DEF Once, In
  <2>8. In(l) \ {k} \subseteq In(e)
    <3> SUFFICES ASSUME NEW m \in DOMAIN l, l[m] # k
                 PROVE  \E j \in DOMAIN e : e[j] = l[m]
      BY DEF In
    <3>1. m # i
      BY <2>1
    <3>2. CASE m < i
      BY <2>1, <2>2, <2>4, <3>2
    <3>3. CASE m > i
      <4>1. m - 1 \in DOMAIN e /\ ~(m - 1 < i) /\ (m - 1) + 1 = m
        BY <2>1, <2>4, <3>3
      <4> QED
        BY <2>2, <2>4, <4>1
    <3> QED
      BY <2>1, <2>4, <3>1, <3>2, <3>3
  <2> QED
    BY <1>3, <2>2, <2>3, <2>6, <2>7, <2>8
<1> QED
  BY <1>2, <1>3

LEMMA PushedList ==
  ASSUME NEW e \in Seq(Keys), NEW k \in Keys
  PROVE  /\ <<k>> \o e \in Seq(Keys) /\ Len(<<k>> \o e) = Len(e) + 1
         /\ (<<k>> \o e)[1] = k /\ \A j \in 2 .. Len(e) + 1 : (<<k>> \o e)[j] = e[j - 1]
<1> DEFINE f == <<k>> \o e
<1>1. <<k>> \in Seq(Keys) /\ Len(<<k>>) = 1 /\ <<k>>[1] = k
  OBVIOUS
<1>2. /\ f \in Seq(Keys) /\ Len(f) = 1 + Len(e) /\ Len(e) \in Nat
      /\ \A j \in 1 .. 1 + Len(e) : f[j] = IF j <= 1 THEN <<k>>[j] ELSE e[j - 1]
  BY <1>1, ConcatProperties
<1> HIDE DEF f
<1>3. /\ f \in Seq(Keys) /\ Len(f) = Len(e) + 1
      /\ f[1] = k /\ \A j \in 2 .. Len(e) + 1 : f[j] = e[j - 1]
  BY <1>1, <1>2
<1> QED
  BY <1>3 DEF f

LEMMA ToFrontList ==
  ASSUME NEW l \in Seq(Keys), Once(l), NEW k \in Keys
  PROVE  /\ ToFront(l, k) \in Seq(Keys) /\ Once(ToFront(l, k))
         /\ In(ToFront(l, k)) = In(l) \cup {k}
         /\ Len(ToFront(l, k)) = IF k \in In(l) THEN Len(l) ELSE Len(l) + 1
<1> DEFINE e == Erased(l, k)
           f == <<k>> \o e
<1>1. /\ e \in Seq(Keys) /\ Once(e) /\ In(e) = In(l) \ {k}
      /\ Len(e) = IF k \in In(l) THEN Len(l) - 1 ELSE Len(l)
  BY ErasedList
<1>2. ToFront(l, k) = f
  BY DEF ToFront
<1> HIDE DEF e
<1>3. /\ f \in Seq(Keys) /\ Len(f) = Len(e) + 1
      /\ f[1] = k /\ \A j \in 2 .. Len(e) + 1 : f[j] = e[j - 1]
  BY <1>1, PushedList
<1> HIDE DEF f
<1>4. DOMAIN f = 1 .. Len(e) + 1 /\ DOMAIN e = 1 .. Len(e) /\ Len(e) \in Nat
  BY <1>1, <1>3
<1>5. \A j \in DOMAIN f : j = 1 \/ (j - 1 \in DOMAIN e /\ f[j] = e[j - 1] /\ f[j] # k)
  <2> SUFFICES ASSUME NEW j \in DOMAIN f, j # 1
               PROVE  j - 1 \in DOMAIN e /\ f[j] = e[j - 1] /\ f[j] # k
    OBVIOUS
  <2>1. j \in 2 .. Len(e) + 1 /\ j - 1 \in DOMAIN e
    BY <1>4
  <2>2. f[j] = e[j - 1]
    BY <1>3, <2>1
  <2>3. e[j - 1] \in In(e)
    BY <2>1 DEF In
  <2> QED
    BY <1>1, <2>1, <2>2, <2>3
<1>6. Once(f)
  <2> SUFFICES ASSUME NEW i \in DOMAIN f, NEW j \in DOMAIN f, f[i] = f[j] PROVE i = j
    BY DEF Once
  <2>1. CASE i = 1 \/ j = 1
    BY <1>3, <1>5, <2>1
  <2>2. CASE i # 1 /\ j # 1
    <3>1. i - 1 = j - 1
      BY <1>1, <1>5, <2>2 DEF Once
    <3> QED
      BY <1>4, <3>1
  <2> QED
    BY <2>1, <2>2
<1>7. In(f) \subseteq In(e) \cup {k}
  BY <1>3, <1>5 DEF In
<1>8. In(e) \cup {k} \subseteq In(f)
  <2> SUFFICES ASSUME NEW j \in DOMAIN e PROVE \E i \in DOMAIN f : f[i] = e[j]
    BY <1>3, <1>4 DEF In
  <2>1. j + 1 \in 2 .. Len(e) + 1 /\ (j + 1) - 1 = j
    BY <1>4
  <2> QED
    BY <1>3, <1>4, <2>1
<1>9. Len(l) \in Nat
  OBVIOUS
<1> QED
  BY <1>1, <1>2, <1>3, <1>6, <1>7, <1>8, <1>9

(* The first n elements. *)
LEMMA CutList ==
  ASSUME NEW l \in Seq(Keys), Once(l), NEW n \in 0 .. Len(l)
  PROVE  /\ SubSeq(l, 1, n) \in Seq(Keys) /\ Len(SubSeq(l, 1, n)) = n
         /\ Once(SubSeq(l, 1, n))
         /\ In(SubSeq(l, 1, n)) = {l[i] : i \in 1 .. n}
<1> DEFINE c == SubSeq(l, 1, n)
<1>1. Len(l) \in Nat /\ DOMAIN l = 1 .. Len(l) /\ \A j \in 1 .. Len(l) : l[j] \in Keys
  OBVIOUS
<1>2. c \in Seq(Keys) /\ Len(c) = n /\ \A j \in 1 .. n : c[j] = l[j]
  BY <1>1, SubSeqProperties
<1> HIDE DEF c
<1>3. DOMAIN c = 1 .. n
  BY <1>2
<1>4. Once(c) /\ In(c) = {l[i] : i \in 1 .. n}
  BY <1>1, <1>2, <1>3 DEF Once, In
<1> QED
  BY <1>2, <1>4 DEF c

LEMMA FrontList ==
  ASSUME NEW l \in Seq(Keys), Once(l), Len(l) > 0
  PROVE  /\ SE!Front(l) \in Seq(Keys) /\ Once(SE!Front(l)) /\ Len(SE!Front(l)) = Len(l) - 1
         /\ In(SE!Front(l)) = In(l) \ {SE!Last(l)} /\ SE!Last(l) \in In(l)
<1>1. Len(l) \in Nat /\ DOMAIN l = 1 .. Len(l) /\ Len(l) - 1 \in 0 .. Len(l)
  OBVIOUS
<1>2. SE!Front(l) = SubSeq(l, 1, Len(l) - 1) /\ SE!Last(l) = l[Len(l)]
  BY DEF SE!Front, SE!Last
<1>3. {l[i] : i \in 1 .. Len(l) - 1} = In(l) \ {l[Len(l)]}
  <2>1. \A i \in DOMAIN l : i = Len(l) \/ i \in 1 .. Len(l) - 1
    BY <1>1
  <2>2. \A i \in 1 .. Len(l) - 1 : i \in DOMAIN l /\ i # Len(l)
    <3> SUFFICES ASSUME NEW n \in Nat, NEW i \in 1 .. n - 1 PROVE i \in 1 .. n /\ i # n
      BY <1>1
    <3> QED
      OBVIOUS
  <2>3. Len(l) \in DOMAIN l
    BY <1>1
  <2> QED
    BY <2>1, <2>2, <2>3 DEF Once, In
<1>4. l[Len(l)] \in In(l)
  BY <1>1 DEF In
<1> QED
  BY <1>1, <1>2, <1>3, <1>4, CutList

-----------------------------------------------------------------------------
(* The order of the list *)

LEMMA ErasedSorted ==
  ASSUME NEW l \in Seq(Keys), NEW k \in Keys, NEW R, Sorted(l, R)
  PROVE  Sorted(Erased(l, k), R)
<1>1. CASE ~SE!Contains(l, k)
  BY <1>1 DEF Erased
<1>2. CASE SE!Contains(l, k)
  <2> DEFINE i == Node(l, k)
             e == SE!RemoveAt(l, i)
  <2>1. i \in 1 .. Len(l)
    BY <1>2 DEF Node, SE!Contains
  <2> HIDE DEF i
  <2>2. /\ e \in Seq(Keys) /\ Len(e) = Len(l) - 1
        /\ \A j \in 1 .. Len(l) - 1 : e[j] = IF j < i THEN l[j] ELSE l[j + 1]
    BY <2>1, RemoveAtList
  <2>3. Erased(l, k) = e
    BY <1>2 DEF Erased, i
  <2> HIDE DEF e
  <2>4. DOMAIN e = 1 .. Len(l) - 1 /\ DOMAIN l = 1 .. Len(l) /\ Len(l) \in Nat
    BY <2>2
  <2>5. ASSUME NEW j \in DOMAIN e
        PROVE  \E m \in DOMAIN l : e[j] = l[m] /\ m = IF j < i THEN j ELSE j + 1
    BY <2>1, <2>2, <2>4
  <2>6. ASSUME NEW j \in DOMAIN e, NEW h \in DOMAIN e, j < h
        PROVE  <<e[j], e[h]>> \in R
    <3>1. PICK m \in DOMAIN l : e[j] = l[m] /\ m = IF j < i THEN j ELSE j + 1
      BY <2>5
    <3>2. PICK n \in DOMAIN l : e[h] = l[n] /\ n = IF h < i THEN h ELSE h + 1
      BY <2>5
    <3>3. m < n
      BY <2>1, <2>4, <2>6, <3>1, <3>2
    <3>4. <<l[m], l[n]>> \in R
      BY <3>3 DEF Sorted
    <3> QED
      BY <3>1, <3>2, <3>4
  <2> QED
    BY <2>3, <2>6 DEF Sorted
<1> QED
  BY <1>1, <1>2

(* A use of a key that is not in the list leaves the list sorted. *)
LEMMA MissSorted ==
  ASSUME NEW l \in Seq(Keys), NEW k \in Keys, k \notin In(l), NEW R, Sorted(l, R)
  PROVE  Sorted(l, MadeNewest(R, k))
<1> SUFFICES ASSUME NEW i \in DOMAIN l, NEW j \in DOMAIN l, i < j
             PROVE  <<l[i], l[j]>> \in MadeNewest(R, k)
  BY DEF Sorted
<1>1. <<l[i], l[j]>> \in R
  BY DEF Sorted
<1>2. l[j] # k
  BY DEF In
<1> QED
  BY <1>1, <1>2 DEF MadeNewest

LEMMA ToFrontSorted ==
  ASSUME NEW l \in Seq(Keys), Once(l), NEW k \in Keys, NEW R, Sorted(l, R)
  PROVE  Sorted(ToFront(l, k), MadeNewest(R, k))
<1> DEFINE e == Erased(l, k)
           f == <<k>> \o e
<1>1. e \in Seq(Keys) /\ In(e) = In(l) \ {k}
  BY ErasedList
<1>2. ToFront(l, k) = f
  BY DEF ToFront
<1>3. Sorted(e, R)
  BY ErasedSorted
<1> HIDE DEF e
<1>4. Sorted(e, MadeNewest(R, k))
  BY <1>1, <1>3, MissSorted
<1>5. /\ f \in Seq(Keys) /\ Len(f) = Len(e) + 1
      /\ f[1] = k /\ \A j \in 2 .. Len(e) + 1 : f[j] = e[j - 1]
  BY <1>1, PushedList
<1> HIDE DEF f
<1>6. DOMAIN f = 1 .. Len(e) + 1 /\ DOMAIN e = 1 .. Len(e) /\ Len(e) \in Nat
  BY <1>1, <1>5
<1>7. ASSUME NEW j \in DOMAIN f, j # 1
      PROVE  j - 1 \in DOMAIN e /\ f[j] = e[j - 1] /\ f[j] \in Keys /\ f[j] # k
  <2>1. j \in 2 .. Len(e) + 1 /\ j - 1 \in DOMAIN e
    BY <1>6, <1>7
  <2>2. f[j] = e[j - 1] /\ e[j - 1] \in Keys
    BY <1>1, <1>5, <2>1
  <2>3. e[j - 1] \in In(e)
    BY <2>1 DEF In
  <2> QED
    BY <1>1, <2>1, <2>2, <2>3
<1>8. ASSUME NEW i \in DOMAIN f, NEW j \in DOMAIN f, i < j
      PROVE  <<f[i], f[j]>> \in MadeNewest(R, k)
  <2>0. j # 1
    BY <1>6, <1>8
  <2>1. j - 1 \in DOMAIN e /\ f[j] = e[j - 1] /\ f[j] \in Keys /\ f[j] # k
    BY <1>7, <2>0
  <2>2. CASE i = 1
    BY <1>5, <2>1, <2>2 DEF MadeNewest
  <2>3. CASE i # 1
    <3>1. i - 1 \in DOMAIN e /\ f[i] = e[i - 1]
      BY <1>7, <2>3
    <3>2. i - 1 < j - 1
      BY <1>6, <1>8
    <3>3. <<e[i - 1], e[j - 1]>> \in MadeNewest(R, k)
      BY <1>4, <2>1, <3>1, <3>2 DEF Sorted
    <3> QED
      BY <2>1, <3>1, <3>3
  <2> QED
    BY <2>2, <2>3
<1> QED
  BY <1>2, <1>8 DEF Sorted

(* A cut of a sorted list is sorted, and its keys are newer than the rest. *)
LEMMA CutSorted ==
  ASSUME NEW l \in Seq(Keys), NEW n \in 0 .. Len(l), NEW R, Sorted(l, R)
  PROVE  /\ Sorted(SubSeq(l, 1, n), R)
         /\ \A q \in In(SubSeq(l, 1, n)) : \A k \in In(l) \ In(SubSeq(l, 1, n)) :
                <<q, k>> \in R
<1> DEFINE c == SubSeq(l, 1, n)
<1>1. Len(l) \in Nat /\ DOMAIN l = 1 .. Len(l) /\ \A j \in 1 .. Len(l) : l[j] \in Keys
  OBVIOUS
<1>2. c \in Seq(Keys) /\ Len(c) = n /\ \A j \in 1 .. n : c[j] = l[j]
  BY <1>1, SubSeqProperties
<1> HIDE DEF c
<1>3. DOMAIN c = 1 .. n /\ 1 .. n \subseteq DOMAIN l
  BY <1>1, <1>2
<1>4. Sorted(c, R)
  BY <1>2, <1>3 DEF Sorted
<1>5. ASSUME NEW q \in In(c), NEW k \in In(l) \ In(c)
      PROVE  <<q, k>> \in R
  <2>1. PICK i \in DOMAIN c : q = c[i]
    BY DEF In
  <2>2. PICK j \in DOMAIN l : k = l[j]
    BY DEF In
  <2>3. j \notin 1 .. n
    BY <1>2, <1>3, <2>2 DEF In
  <2>4. i < j /\ i \in DOMAIN l /\ c[i] = l[i]
    BY <1>1, <1>2, <1>3, <2>1, <2>2, <2>3
  <2> QED
    BY <2>1, <2>2, <2>4 DEF Sorted
<1> QED
  BY <1>4, <1>5 DEF c

-----------------------------------------------------------------------------
(* The operations *)

(* ListMatchesMap, of the list l and the map c. *)
Match(l, c) == l \in Seq(Keys) /\ Once(l) /\ In(l) = {k \in Keys : c[k] # NoVal}

LEMMA CacheInvIs ==
  CacheInv <=> /\ cval \in [Keys -> ReadResult] /\ capacity \in Capacities
               /\ Match(lru, cval) /\ Len(lru) <= capacity
BY DEF CacheInv, CacheTypeOK, ListMatchesMap, Match, Once, In, SE!ToSet, Hit

LEMMA CacheInvAfter ==
  ASSUME cval' \in [Keys -> ReadResult], capacity' \in Capacities,
         Match(lru', cval'), Len(lru') <= capacity'
  PROVE  CacheInv'
BY DEF CacheInv, CacheTypeOK, ListMatchesMap, Match, Once, In, SE!ToSet, Hit

LEMMA GetInv == ASSUME CacheInv, NEW k \in Keys, CacheGet(k) PROVE CacheInv'
<1>1. /\ lru \in Seq(Keys) /\ Once(lru) /\ In(lru) = {q \in Keys : cval[q] # NoVal}
      /\ cval \in [Keys -> ReadResult] /\ capacity \in Capacities /\ Len(lru) <= capacity
  BY CacheInvIs DEF Match
<1>2. lru' = (IF Hit(k) THEN ToFront(lru, k) ELSE lru) /\ UNCHANGED <<cval, capacity>>
  BY DEF CacheGet
<1>3. Match(lru', cval) /\ Len(lru') = Len(lru)
  <2>1. CASE Hit(k)
    <3>1. k \in In(lru) /\ lru' = ToFront(lru, k)
      BY <1>1, <1>2, <2>1 DEF Hit
    <3>2. lru' \in Seq(Keys) /\ Once(lru') /\ In(lru') = In(lru) /\ Len(lru') = Len(lru)
      BY <1>1, <3>1, ToFrontList
    <3> QED
      BY <1>1, <3>2 DEF Match
  <2>2. CASE ~Hit(k)
    BY <1>1, <1>2, <2>2 DEF Match
  <2> QED
    BY <2>1, <2>2
<1> QED
  BY <1>1, <1>2, <1>3, CacheInvAfter

LEMMA CacheRemoveInv == ASSUME CacheInv, NEW k \in Keys, CacheRemove(k) PROVE CacheInv'
<1>1. /\ lru \in Seq(Keys) /\ Once(lru) /\ In(lru) = {q \in Keys : cval[q] # NoVal}
      /\ cval \in [Keys -> ReadResult] /\ capacity \in Nat /\ Len(lru) <= capacity
  BY CacheInvIs, CapacitiesAssumption DEF Match
<1>2. lru' = Erased(lru, k) /\ cval' = [cval EXCEPT ![k] = NoVal] /\ capacity' = capacity
  BY DEF CacheRemove
<1>3. lru' \in Seq(Keys) /\ Once(lru') /\ In(lru') = In(lru) \ {k}
  BY <1>1, <1>2, ErasedList
<1>4. Len(lru') <= capacity' /\ capacity' \in Capacities
  <2>1. Len(lru') = IF k \in In(lru) THEN Len(lru) - 1 ELSE Len(lru)
    BY <1>1, <1>2, ErasedList
  <2>2. Len(lru) \in Nat
    BY <1>1
  <2> QED
    BY <1>1, <1>2, <2>1, <2>2, CacheInvIs
<1>5. Match(lru', cval')
  BY <1>1, <1>2, <1>3 DEF Match
<1>6. cval' \in [Keys -> ReadResult]
  BY <1>1, <1>2 DEF ReadResult
<1> QED
  BY <1>4, <1>5, <1>6, CacheInvAfter

(* A new key finds room, or that of the last key of the list. *)
LEMMA PutInv ==
  ASSUME CacheInv, NEW k \in Keys, NEW v \in Values \cup {Garbage}, CachePut(k, v)
  PROVE  /\ CacheInv'
         /\ \A q \in Keys : Hit(q) /\ ~Hit(q)' => Len(lru') = capacity'
<1>1. /\ lru \in Seq(Keys) /\ Once(lru) /\ In(lru) = {q \in Keys : cval[q] # NoVal}
      /\ cval \in [Keys -> ReadResult] /\ capacity \in Nat /\ capacity \in Capacities
      /\ Len(lru) <= capacity
  BY CacheInvIs, CapacitiesAssumption DEF Match
<1>0. Len(lru) \in Nat
  BY <1>1
<1>2. v # NoVal /\ v \in ReadResult /\ NoVal \in ReadResult
  BY LocationsAssumption DEF ReadResult
<1>3. CASE capacity = 0
  <2>1. UNCHANGED cacheVars
    BY <1>3 DEF CachePut, cacheVars
  <2> QED
    BY <1>1, <2>1, CacheInvAfter DEF cacheVars, Match, Hit
<1>4. CASE capacity # 0 /\ Evicted(k) = {}
  <2>1. /\ cval' = [q \in Keys |-> IF q = k THEN v ELSE cval[q]]
        /\ lru' = ToFront(lru, k) /\ capacity' = capacity
    BY <1>4 DEF CachePut
  <2>2. Hit(k) \/ Len(lru) < capacity
    BY <1>0, <1>1, <1>4 DEF Evicted
  <2>3. lru' \in Seq(Keys) /\ Once(lru') /\ In(lru') = In(lru) \cup {k}
    BY <1>1, <2>1, ToFrontList
  <2>4. Len(lru') <= capacity
    <3>1. Len(lru') = IF k \in In(lru) THEN Len(lru) ELSE Len(lru) + 1
      BY <1>1, <2>1, ToFrontList
    <3> QED
      BY <1>0, <1>1, <2>2, <3>1 DEF Hit
  <2>5. Match(lru', cval') /\ cval' \in [Keys -> ReadResult] /\ \A q \in Keys : Hit(q) => Hit(q)'
    BY <1>1, <1>2, <2>1, <2>3 DEF Match, Hit
  <2> QED
    BY <1>1, <2>1, <2>4, <2>5, CacheInvAfter
<1>5. CASE capacity # 0 /\ Evicted(k) # {}
  <2> DEFINE last == SE!Last(lru)
             f == SE!Front(lru)
  <2>1. ~Hit(k) /\ Len(lru) >= capacity /\ Evicted(k) = {last}
    BY <1>5 DEF Evicted
  <2>2. /\ cval' = [q \in Keys |-> IF q = k THEN v ELSE IF q = last THEN NoVal ELSE cval[q]]
        /\ lru' = ToFront(f, k) /\ capacity' = capacity
    BY <1>5, <2>1 DEF CachePut
  <2>3. Len(lru) = capacity /\ Len(lru) > 0
    BY <1>0, <1>1, <1>5, <2>1
  <2>4. /\ f \in Seq(Keys) /\ Once(f) /\ Len(f) = capacity - 1
        /\ In(f) = In(lru) \ {last} /\ last \in In(lru)
    BY <1>1, <2>3, FrontList
  <2> HIDE DEF last, f
  <2>5. k \notin In(f) /\ k # last
    BY <1>1, <2>1, <2>4 DEF Hit
  <2>6. lru' \in Seq(Keys) /\ Once(lru') /\ In(lru') = In(f) \cup {k} /\ Len(lru') = Len(f) + 1
    BY <2>2, <2>4, <2>5, ToFrontList
  <2>8. Len(lru') = capacity
    BY <1>1, <2>4, <2>6
  <2>7. Match(lru', cval') /\ cval' \in [Keys -> ReadResult]
    BY <1>1, <1>2, <2>2, <2>4, <2>5, <2>6 DEF Match
  <2> QED
    BY <1>1, <2>2, <2>7, <2>8, CacheInvAfter
<1> QED
  BY <1>3, <1>4, <1>5

(* resize keeps the first keys of the list. *)
LEMMA CacheResizeInv ==
  ASSUME CacheInv, NEW cap \in Capacities, CacheResize(cap)
  PROVE  /\ CacheInv'
         /\ \A q \in Keys : Hit(q) /\ ~Hit(q)' => Len(lru') = capacity'
<1>1. /\ lru \in Seq(Keys) /\ Once(lru) /\ In(lru) = {q \in Keys : cval[q] # NoVal}
      /\ cval \in [Keys -> ReadResult] /\ cap \in Nat /\ Len(lru) \in Nat
  BY CacheInvIs, CapacitiesAssumption DEF Match
<1> DEFINE n == IF cap < Len(lru) THEN cap ELSE Len(lru)
<1>2. capacity' = cap /\ lru' = SubSeq(lru, 1, n) /\ cval' = CutTo(lru')
  BY DEF CacheResize
<1>3. n \in 0 .. Len(lru) /\ n <= cap /\ (n # cap => n = Len(lru))
  BY <1>1
<1> HIDE DEF n
<1>4. lru' \in Seq(Keys) /\ Len(lru') = n /\ Once(lru') /\ In(lru') = {lru[i] : i \in 1 .. n}
  BY <1>1, <1>2, <1>3, CutList
<1>5. DOMAIN lru = 1 .. Len(lru) /\ 1 .. n \subseteq DOMAIN lru
  BY <1>1, <1>3
<1>6. In(lru') \subseteq In(lru) /\ (n = Len(lru) => In(lru') = In(lru))
  BY <1>4, <1>5 DEF In
<1>7. \A q \in Keys : SE!Contains(lru', q) <=> q \in In(lru')
  BY <1>4 DEF SE!Contains, In
<1>8. cval' = [q \in Keys |-> IF q \in In(lru') THEN cval[q] ELSE NoVal]
  BY <1>2, <1>7 DEF CutTo
<1>9. Match(lru', cval') /\ cval' \in [Keys -> ReadResult]
  BY <1>1, <1>4, <1>6, <1>8 DEF Match, ReadResult
<1>10. \A q \in Keys : Hit(q) /\ ~Hit(q)' => n = cap
  BY <1>1, <1>3, <1>6, <1>8 DEF Hit
<1> QED
  BY <1>2, <1>3, <1>4, <1>9, <1>10, CacheInvAfter

-----------------------------------------------------------------------------
(* The theorems *)

LEMMA CacheInitInv == CacheInit => CacheInv
<1> SUFFICES ASSUME CacheInit PROVE CacheInv
  OBVIOUS
<1>1. lru = <<>> /\ cval = [k \in Keys |-> NoVal] /\ capacity \in Capacities /\ capacity \in Nat
  BY CapacitiesAssumption DEF CacheInit
<1>2. lru \in Seq(Keys) /\ DOMAIN lru = {} /\ Len(lru) = 0
  BY <1>1
<1>3. Match(lru, cval) /\ cval \in [Keys -> ReadResult]
  BY <1>1, <1>2 DEF Match, Once, In, ReadResult
<1> QED
  BY <1>1, <1>2, <1>3, CacheInvIs

LEMMA CacheNextInv == CacheInv /\ [CacheNext]_cacheVars => CacheInv'
<1> SUFFICES ASSUME CacheInv, [CacheNext]_cacheVars PROVE CacheInv'
  OBVIOUS
<1>1. CASE UNCHANGED cacheVars
  BY <1>1, CacheInvIs, CacheInvAfter DEF cacheVars, Match
<1> QED
  BY <1>1, GetInv, CacheRemoveInv, PutInv, CacheResizeInv DEF CacheNext

(***************************************************************************)
(* ListMatchesMap holds of every behaviour of LRUCache: the list and the   *)
(* map hold the same keys, within the capacity, so that no iterator of the *)
(* map dangles and put never takes the back of an empty list.              *)
(***************************************************************************)
THEOREM CacheListMatchesMap == CacheSpec => []ListMatchesMap
<1>1. CacheInv => ListMatchesMap
  BY DEF CacheInv
<1> QED
  BY <1>1, CacheInitInv, CacheNextInv, PTL DEF CacheSpec

(* LRUCache drops a key only when it is full, or when asked to. *)
THEOREM CacheKeepsWhatFits == CacheSpec => KeepsWhatFits
<1>1. CacheInv /\ [CacheNext]_cacheVars => [DropsFromFull]_cacheVars
  <2> SUFFICES ASSUME CacheInv, CacheNext PROVE DropsFromFull
    OBVIOUS
  <2>1. ASSUME NEW k \in Keys, CacheGet(k) PROVE DropsFromFull
    BY <2>1 DEF CacheGet, Hit, DropsFromFull
  <2>2. ASSUME NEW k \in Keys, CacheRemove(k) PROVE DropsFromFull
    <3>1. \A q \in Keys \ {k} : cval'[q] = cval[q]
      BY <2>2, CacheInvIs DEF CacheRemove
    <3> QED
      BY <2>2, <3>1 DEF Hit, DropsFromFull
  <2> QED
    BY <2>1, <2>2, PutInv, CacheResizeInv DEF CacheNext, DropsFromFull
<1> QED
  BY <1>1, CacheInitInv, CacheNextInv, PTL DEF CacheSpec, KeepsWhatFits
-----------------------------------------------------------------------------
(* What is evicted *)

LEMMA RecencyGet ==
  ASSUME RecencyInv, NEW k \in Keys, CacheGet(k), Use(k)
  PROVE  RecencyInv' /\ DropsOlder
<1>1. /\ CacheInv /\ Sorted(lru, newer) /\ newer' = MadeNewest(newer, k)
      /\ lru' = (IF Hit(k) THEN ToFront(lru, k) ELSE lru) /\ cval' = cval
  BY DEF RecencyInv, CacheGet, Use
<1>2. lru \in Seq(Keys) /\ Once(lru) /\ In(lru) = {q \in Keys : cval[q] # NoVal}
  BY <1>1, CacheInvIs DEF Match
<1>3. Sorted(lru', newer')
  <2>1. CASE Hit(k)
    BY <1>1, <1>2, <2>1, ToFrontSorted
  <2>2. CASE ~Hit(k)
    <3>1. k \notin In(lru)
      BY <1>2, <2>2 DEF Hit
    <3> QED
      BY <1>1, <1>2, <2>2, <3>1, MissSorted
  <2> QED
    BY <2>1, <2>2
<1>4. DropsOlder
  BY <1>1 DEF DropsOlder, Hit
<1> QED
  BY <1>1, <1>3, <1>4, GetInv DEF RecencyInv, Sorted

LEMMA RecencyRemove ==
  ASSUME RecencyInv, NEW k \in Keys, CacheRemove(k), UNCHANGED newer
  PROVE  RecencyInv' /\ DropsOlder
<1>1. CacheInv /\ Sorted(lru, newer) /\ lru' = Erased(lru, k) /\ newer' = newer
  BY DEF RecencyInv, CacheRemove
<1>2. lru \in Seq(Keys) /\ cval \in [Keys -> ReadResult]
  BY <1>1, CacheInvIs DEF Match
<1>3. Sorted(lru', newer')
  BY <1>1, <1>2, ErasedSorted
<1>4. \A q \in Keys \ {k} : cval'[q] = cval[q]
  BY <1>2 DEF CacheRemove
<1>5. DropsOlder
  BY <1>4 DEF DropsOlder, Hit
<1> QED
  BY <1>1, <1>3, <1>5, CacheRemoveInv DEF RecencyInv, Sorted

(* The last key of a sorted list is older than the others. *)
LEMMA RecencyPut ==
  ASSUME RecencyInv, NEW k \in Keys, NEW v \in Values \cup {Garbage}, CachePut(k, v), Use(k)
  PROVE  RecencyInv' /\ DropsOlder
<1>1. CacheInv /\ Sorted(lru, newer) /\ newer' = MadeNewest(newer, k) /\ CacheInv'
  BY PutInv DEF RecencyInv, Use
<1>2. /\ lru \in Seq(Keys) /\ Once(lru) /\ In(lru) = {q \in Keys : cval[q] # NoVal}
      /\ capacity \in Nat /\ Len(lru) <= capacity
  BY <1>1, CacheInvIs, CapacitiesAssumption DEF Match
<1>0. Len(lru) \in Nat
  BY <1>2
<1>3. v # NoVal
  BY LocationsAssumption DEF ReadResult
<1>4. Sorted(lru', newer') /\ DropsOlder
  <2>1. CASE capacity = 0
    <3>1. lru' = lru /\ cval' = cval
      BY <2>1 DEF CachePut
    <3>2. k \notin In(lru)
      BY <1>0, <1>2, <2>1 DEF In
    <3> QED
      BY <1>1, <1>2, <3>1, <3>2, MissSorted DEF DropsOlder, Hit
  <2>2. CASE capacity # 0 /\ Evicted(k) = {}
    <3>1. /\ cval' = [q \in Keys |-> IF q = k THEN v ELSE cval[q]]
          /\ lru' = ToFront(lru, k)
      BY <2>2 DEF CachePut
    <3>2. \A q \in Keys : Hit(q) => Hit(q)'
      BY <1>3, <3>1 DEF Hit
    <3> QED
      BY <1>1, <1>2, <3>1, <3>2, ToFrontSorted DEF DropsOlder
  <2>3. CASE capacity # 0 /\ Evicted(k) # {}
    <3> DEFINE last == SE!Last(lru)
               f == SE!Front(lru)
               n == Len(lru) - 1
    <3>1. ~Hit(k) /\ Len(lru) >= capacity /\ Evicted(k) = {last}
      BY <2>3 DEF Evicted
    <3>2. /\ cval' = [q \in Keys |-> IF q = k THEN v ELSE IF q = last THEN NoVal ELSE cval[q]]
          /\ lru' = ToFront(f, k)
      BY <2>3, <3>1 DEF CachePut
    <3>3. Len(lru) > 0 /\ n \in 0 .. Len(lru)
      BY <1>0, <1>2, <2>3, <3>1
    <3>4. f \in Seq(Keys) /\ Once(f) /\ In(f) = In(lru) \ {last} /\ last \in In(lru)
      BY <1>2, <3>3, FrontList
    <3>5. f = SubSeq(lru, 1, n)
      BY DEF SE!Front
    <3>6. Sorted(f, newer) /\ \A q \in In(f) : \A p \in In(lru) \ In(f) : <<q, p>> \in newer
      BY <1>1, <1>2, <3>3, <3>5, CutSorted
    <3> HIDE DEF last, f, n
    <3>7. Sorted(lru', newer')
      BY <1>1, <3>2, <3>4, <3>6, ToFrontSorted
    <3>8. ASSUME NEW p \in Keys, NEW q \in Keys, Hit(p), ~Hit(p)', Hit(q)'
          PROVE  <<q, p>> \in newer'
      <4>1. p = last /\ p # k
        BY <1>3, <3>2, <3>8 DEF Hit
      <4>2. CASE q = k
        BY <1>1, <4>1, <4>2 DEF MadeNewest
      <4>3. CASE q # k
        <5>1. q # last /\ cval[q] # NoVal
          BY <3>2, <3>8, <4>3 DEF Hit
        <5>2. q \in In(f) /\ p \in In(lru) \ In(f)
          BY <1>2, <3>4, <4>1, <5>1
        <5>3. <<q, p>> \in newer
          BY <3>6, <5>2
        <5> QED
          BY <1>1, <4>1, <5>3 DEF MadeNewest
      <4> QED
        BY <4>2, <4>3
    <3> QED
      BY <3>7, <3>8 DEF DropsOlder
  <2> QED
    BY <2>1, <2>2, <2>3
<1> QED
  BY <1>1, <1>4 DEF RecencyInv, Sorted

LEMMA RecencyResize ==
  ASSUME RecencyInv, NEW cap \in Capacities, CacheResize(cap), UNCHANGED newer
  PROVE  RecencyInv' /\ DropsOlder
<1>1. CacheInv /\ Sorted(lru, newer) /\ newer' = newer /\ CacheInv'
  BY CacheResizeInv DEF RecencyInv
<1>2. /\ lru \in Seq(Keys) /\ In(lru) = {q \in Keys : cval[q] # NoVal}
      /\ Len(lru) \in Nat /\ cap \in Nat
  BY <1>1, CacheInvIs, CapacitiesAssumption DEF Match
<1>3. In(lru') = {q \in Keys : cval'[q] # NoVal}
  BY <1>1 DEF CacheInv, ListMatchesMap, In, SE!ToSet, Hit
<1> DEFINE n == IF cap < Len(lru) THEN cap ELSE Len(lru)
<1>4. n \in 0 .. Len(lru) /\ lru' = SubSeq(lru, 1, n)
  BY <1>2 DEF CacheResize
<1> HIDE DEF n
<1>5. Sorted(lru', newer) /\ \A q \in In(lru') : \A p \in In(lru) \ In(lru') : <<q, p>> \in newer
  BY <1>1, <1>2, <1>4, CutSorted
<1>6. DropsOlder
  BY <1>1, <1>2, <1>3, <1>5 DEF DropsOlder, Hit
<1> QED
  BY <1>1, <1>5, <1>6 DEF RecencyInv, Sorted

LEMMA RecencyInitInv == RecencyInit => RecencyInv
BY CacheInitInv DEF RecencyInit, RecencyInv, CacheInit, Sorted

LEMMA RecencyNextInv == RecencyInv /\ [RecencyNext]_recencyVars => RecencyInv'
<1> SUFFICES ASSUME RecencyInv, [RecencyNext]_recencyVars PROVE RecencyInv'
  OBVIOUS
<1>1. CASE UNCHANGED recencyVars
  <2>1. CacheInv'
    BY <1>1, CacheNextInv DEF RecencyInv, recencyVars
  <2> QED
    BY <1>1, <2>1 DEF RecencyInv, recencyVars, cacheVars, Sorted
<1> QED
  BY <1>1, RecencyGet, RecencyRemove, RecencyPut, RecencyResize DEF RecencyNext

(***************************************************************************)
(* LRUCache evicts what was used longest ago: whatever put or resize drops *)
(* was last read or written before every key they keep.                    *)
(***************************************************************************)
THEOREM CacheEvictsOldest == RecencySpec => EvictsOldest
<1>1. RecencyInv /\ [RecencyNext]_recencyVars => [DropsOlder]_recencyVars
  BY RecencyGet, RecencyRemove, RecencyPut, RecencyResize DEF RecencyNext
<1> QED
  BY <1>1, RecencyInitInv, RecencyNextInv, PTL DEF RecencySpec, EvictsOldest
=============================================================================
