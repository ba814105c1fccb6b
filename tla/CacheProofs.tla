----------------------------- MODULE CacheProofs -----------------------------
(***************************************************************************)
(* Theorems about LruDigitCache and CachedDigitSource, for every capacity, *)
(* every set of indices and every producer.                                *)
(***************************************************************************)
EXTENDS CachedDigitSource, FiniteSetTheorems, TLAPS

-----------------------------------------------------------------------------
(* Lists without duplicates *)

NoDuplicates(s) == \A p, q \in 1..Len(s) : s[p] = s[q] => p = q
Elements(s) == {s[p] : p \in 1..Len(s)}

(* A splice permutes the list. *)
LEMMA SplicePermutes ==
  ASSUME NEW S, NEW s \in Seq(S), NoDuplicates(s), NEW i \in Elements(s)
  PROVE  LET t == MoveToFront(s, Position(s, i))
         IN  t \in Seq(S) /\ NoDuplicates(t) /\ Elements(t) = Elements(s)
<1> DEFINE n == Len(s)
           p == Position(s, i)
           t == MoveToFront(s, p)
<1>1. n \in Nat /\ s \in [1..n -> S]
  OBVIOUS
<1>2. p \in 1..n
  BY DEF Elements, Position
<1>3. t = [k \in 1..n |-> IF k = 1 THEN s[p] ELSE IF k <= p THEN s[k - 1] ELSE s[k]]
  BY DEF MoveToFront
<1> HIDE DEF n, p, t
<1>4. t \in [1..n -> S]
  BY <1>1, <1>2, <1>3
<1>5. t \in Seq(S) /\ Len(t) = n
  BY <1>1, <1>4
<1>6. \A k \in 1..n : t[k] = s[IF k = 1 THEN p ELSE IF k <= p THEN k - 1 ELSE k]
  BY <1>1, <1>2, <1>3
<1>7. NoDuplicates(t)
  <2> SUFFICES ASSUME NEW a \in 1..n, NEW b \in 1..n, t[a] = t[b] PROVE a = b
    BY <1>5 DEF NoDuplicates
  <2> DEFINE at(k) == IF k = 1 THEN p ELSE IF k <= p THEN k - 1 ELSE k
  <2>1. at(a) \in 1..n /\ at(b) \in 1..n
    BY <1>1, <1>2
  <2>2. s[at(a)] = s[at(b)]
    BY <1>6
  <2>3. at(a) = at(b)
    BY <2>1, <2>2 DEF NoDuplicates, n
  <2> QED
    BY <1>1, <1>2, <2>3
<1>8. Elements(t) = Elements(s)
  <2>1. ASSUME NEW k \in 1..n PROVE t[k] \in Elements(s)
    BY <1>1, <1>2, <1>6 DEF Elements, n
  <2>2. ASSUME NEW k \in 1..n PROVE s[k] \in Elements(t)
    <3> DEFINE j == IF k = p THEN 1 ELSE IF k < p THEN k + 1 ELSE k
    <3>1. j \in 1..n /\ t[j] = s[k]
      BY <1>1, <1>2, <1>6
    <3> QED
      BY <1>5, <3>1 DEF Elements
  <2> QED
    BY <1>5, <2>1, <2>2 DEF Elements, n
<1> QED
  BY <1>5, <1>7, <1>8 DEF t, p

(* Pushing a new element to the front. *)
LEMMA PushFront ==
  ASSUME NEW S, NEW s \in Seq(S), NoDuplicates(s), NEW i \in S, i \notin Elements(s)
  PROVE  LET t == <<i>> \o s
         IN  t \in Seq(S) /\ NoDuplicates(t) /\ Elements(t) = Elements(s) \cup {i}
<1> DEFINE n == Len(s)
           t == <<i>> \o s
<1>1. n \in Nat /\ t \in Seq(S) /\ Len(t) = n + 1
  OBVIOUS
<1>2. \A k \in 1..(n + 1) : t[k] = IF k = 1 THEN i ELSE s[k - 1]
  OBVIOUS
<1>3. \A k \in 1..n : s[k] \in Elements(s) /\ s[k] # i
  BY DEF Elements
<1> HIDE DEF t
<1>4. NoDuplicates(t)
  <2> SUFFICES ASSUME NEW a \in 1..(n + 1), NEW b \in 1..(n + 1), t[a] = t[b]
               PROVE  a = b
    BY <1>1 DEF NoDuplicates
  <2>1. CASE a = 1 /\ b = 1
    BY <2>1
  <2>2. CASE a = 1 /\ b # 1
    BY <1>1, <1>2, <1>3, <2>2
  <2>3. CASE a # 1 /\ b = 1
    BY <1>1, <1>2, <1>3, <2>3
  <2>4. CASE a # 1 /\ b # 1
    <3>1. a - 1 \in 1..n /\ b - 1 \in 1..n /\ s[a - 1] = s[b - 1]
      BY <1>1, <1>2, <2>4
    <3>2. a - 1 = b - 1
      BY <3>1 DEF NoDuplicates
    <3> QED
      BY <3>2
  <2> QED
    BY <2>1, <2>2, <2>3, <2>4
<1>5. Elements(t) = Elements(s) \cup {i}
  <2>1. ASSUME NEW k \in 1..(n + 1) PROVE t[k] \in Elements(s) \cup {i}
    BY <1>1, <1>2, <1>3
  <2>2. i \in Elements(t)
    BY <1>1, <1>2 DEF Elements
  <2>3. ASSUME NEW k \in 1..n PROVE s[k] \in Elements(t)
    <3>1. k + 1 \in 1..(n + 1) /\ t[k + 1] = s[k]
      BY <1>1, <1>2
    <3> QED
      BY <1>1, <3>1 DEF Elements
  <2> QED
    BY <1>1, <2>1, <2>2, <2>3 DEF Elements
<1> QED
  BY <1>1, <1>4, <1>5 DEF t

(* Popping the last element. *)
LEMMA PopBack ==
  ASSUME NEW S, NEW s \in Seq(S), NoDuplicates(s), s # <<>>
  PROVE  /\ Last(s) \in Elements(s)
         /\ Front(s) \in Seq(S) /\ NoDuplicates(Front(s))
         /\ Elements(Front(s)) = Elements(s) \ {Last(s)}
<1> DEFINE n == Len(s)
           f == Front(s)
<1>1. n \in Nat \ {0} /\ s \in [1..n -> S]
  OBVIOUS
<1>2. f \in Seq(S) /\ Len(f) = n - 1
  BY <1>1 DEF Front
<1>3. \A k \in 1..(n - 1) : f[k] = s[k]
  BY <1>1 DEF Front
<1>4. Last(s) = s[n]
  BY DEF Last
<1> HIDE DEF f
<1>5. NoDuplicates(f)
  BY <1>1, <1>2, <1>3 DEF NoDuplicates
<1>6. \A k \in 1..(n - 1) : s[k] # s[n]
  BY <1>1 DEF NoDuplicates
<1>7. Elements(f) = Elements(s) \ {s[n]}
  BY <1>1, <1>2, <1>3, <1>6 DEF Elements
<1>8. s[n] \in Elements(s)
  BY <1>1 DEF Elements
<1> QED
  BY <1>2, <1>4, <1>5, <1>7, <1>8 DEF f

-----------------------------------------------------------------------------
(* The cache *)

LruInv ==
  /\ TypeOK
  /\ IsFiniteSet(Cached)
  /\ Coherent
  /\ Bounded

LEMMA CoherentIsList ==
  Coherent <=> NoDuplicates(order) /\ Elements(order) = Cached
  BY DEF Coherent, NoDuplicates, Elements

LEMMA InitLru == LruInit => LruInv
<1> SUFFICES ASSUME LruInit PROVE LruInv
  OBVIOUS
<1>1. Cached = {} /\ order = <<>>
  BY DEF LruInit, Cached, EmptyMap
<1>2. TypeOK
  BY <1>1 DEF LruInit, TypeOK, EmptyMap
<1>3. Coherent
  BY <1>1 DEF Coherent
<1>4. IsFiniteSet(Cached) /\ Cardinality(Cached) = 0
  BY <1>1, FS_EmptySet
<1>5. Bounded
  BY <1>4, CapacityAssumption DEF Bounded, Slots
<1> QED
  BY <1>2, <1>3, <1>4, <1>5 DEF LruInv

(* A use of a cached index reorders the list and nothing else. *)
LEMMA SpliceKeeps ==
  ASSUME LruInv, NEW i \in Cached
  PROVE  /\ Spliced(i) \in Seq(Indices)
         /\ NoDuplicates(Spliced(i))
         /\ Elements(Spliced(i)) = Cached
  BY SplicePermutes, CoherentIsList DEF LruInv, TypeOK, Spliced

LEMMA GetKeeps ==
  ASSUME LruInv, NEW i \in Indices, Get(i)
  PROVE  LruInv'
<1>1. CASE GetHit(i)
  <2>1. i \in Cached /\ order' = Spliced(i) /\ map' = map /\ stored' = stored
    BY <1>1 DEF GetHit
  <2>2. Cached' = Cached
    BY <2>1 DEF Cached
  <2>3. Coherent'
    BY <2>1, <2>2, SpliceKeeps DEF Coherent, NoDuplicates, Elements
  <2> QED
    BY <2>1, <2>2, <2>3, SpliceKeeps DEF LruInv, TypeOK, Bounded
<1>2. CASE GetMiss(i)
  BY <1>2 DEF GetMiss, lruVars, LruInv, TypeOK, Coherent, Bounded, Cached
<1> QED
  BY <1>1, <1>2 DEF Get

LEMMA PutExistingKeeps ==
  ASSUME LruInv, NEW i \in Indices, NEW d \in Digits, PutExisting(i, d)
  PROVE  LruInv'
<1>1. /\ i \in Cached /\ order' = Spliced(i)
      /\ map' = [map EXCEPT ![i] = d] /\ stored' = [stored EXCEPT ![i] = d]
  BY DEF PutExisting
<1>2. map \in [Cached -> Digits] /\ Cached \subseteq Indices
  BY DEF LruInv, TypeOK
<1>3. Cached' = Cached
  BY <1>1, <1>2 DEF Cached
<1>4. map' \in [Cached' -> Digits]
  BY <1>1, <1>2, <1>3
<1>5. Coherent'
  BY <1>1, <1>3, SpliceKeeps DEF Coherent, NoDuplicates, Elements
<1>6. stored' \in [Indices -> Digits \cup {None}]
  BY <1>1 DEF LruInv, TypeOK
<1>7. TypeOK'
  BY <1>1, <1>2, <1>3, <1>4, <1>6, SpliceKeeps DEF TypeOK
<1> QED
  BY <1>3, <1>5, <1>7 DEF LruInv, Bounded

(* A put of a new index: an eviction frees a slot before one is taken. *)
LEMMA PutNewKeeps ==
  ASSUME LruInv, NEW i \in Indices, NEW d \in Digits, PutNew(i, d)
  PROVE  LruInv'
<1> DEFINE full == Cardinality(Cached) >= Capacity /\ order # <<>>
           kept == IF full THEN Cached \ {Last(order)} ELSE Cached
           list == IF full THEN Front(order) ELSE order
<1>1. /\ i \notin Cached
      /\ order' = <<i>> \o list
      /\ map' = [j \in kept \cup {i} |-> IF j = i THEN d ELSE map[j]]
      /\ stored' = [stored EXCEPT ![i] = d]
  BY DEF PutNew
<1>2. /\ order \in Seq(Indices) /\ NoDuplicates(order)
      /\ Elements(order) = Cached /\ IsFiniteSet(Cached)
      /\ Cardinality(Cached) <= Slots
      /\ Cached \subseteq Indices /\ map \in [Cached -> Digits]
  BY CoherentIsList DEF LruInv, TypeOK, Bounded
<1>3. /\ list \in Seq(Indices) /\ NoDuplicates(list) /\ Elements(list) = kept
  BY <1>2, PopBack
<1>4. full => Last(order) \in Cached
  BY <1>2, PopBack
<1>5. kept \subseteq Cached /\ IsFiniteSet(kept)
  BY <1>2, FS_RemoveElement
<1>6. Cardinality(kept) + 1 <= Slots
  <2>1. Cardinality(Cached) \in Nat
    BY <1>2, FS_CardinalityType
  <2>2. CASE full
    <3>1. Cardinality(kept) = Cardinality(Cached) - 1
      BY <1>2, <1>4, <2>2, FS_RemoveElement
    <3> QED
      BY <1>2, <2>1, <3>1, CapacityAssumption DEF Slots
  <2>3. CASE ~full /\ order = <<>>
    <3>1. kept = {}
      BY <1>2, <2>3 DEF Elements
    <3> QED
      BY <3>1, FS_EmptySet, CapacityAssumption DEF Slots
  <2>4. CASE ~full /\ order # <<>>
    <3>1. Cardinality(kept) < Capacity
      BY <2>1, <2>4, CapacityAssumption
    <3>2. Cardinality(kept) \in Nat
      BY <1>5, FS_CardinalityType
    <3> QED
      BY <3>1, <3>2, CapacityAssumption DEF Slots
  <2> QED
    BY <2>2, <2>3, <2>4
<1> HIDE DEF full, kept, list
<1>7. Cached' = kept \cup {i}
  BY <1>1 DEF Cached
<1>8. /\ order' \in Seq(Indices) /\ NoDuplicates(order')
      /\ Elements(order') = kept \cup {i}
  BY <1>1, <1>3, <1>5, PushFront
<1>9. Coherent'
  BY <1>7, <1>8 DEF Coherent, NoDuplicates, Elements
<1>10. IsFiniteSet(Cached') /\ Cardinality(Cached') <= Slots
  <2>1. i \notin kept
    BY <1>1, <1>5
  <2> QED
    BY <1>5, <1>6, <1>7, <2>1, FS_AddElement
<1>11. map' \in [Cached' -> Digits]
  BY <1>1, <1>2, <1>5, <1>7
<1>12. stored' \in [Indices -> Digits \cup {None}]
  BY <1>1 DEF LruInv, TypeOK
<1>13. TypeOK'
  BY <1>2, <1>5, <1>7, <1>8, <1>11, <1>12 DEF TypeOK
<1> QED
  BY <1>9, <1>10, <1>13 DEF LruInv, Bounded, Slots

LEMMA NextLru == LruInv /\ [LruNext]_lruVars => LruInv'
<1>1. LruInv /\ UNCHANGED lruVars => LruInv'
  BY DEF lruVars, LruInv, TypeOK, Coherent, Bounded, Cached
<1> QED
  BY <1>1, GetKeeps, PutExistingKeeps, PutNewKeeps DEF LruNext, Put

LEMMA LruInvariant == LruSpec => []LruInv
  BY InitLru, NextLru, PTL DEF LruSpec

(* The list and the map hold the same indices, each once, after every      *)
(* sequence of gets and puts.                                              *)
THEOREM LruCoherent == LruSpec => []Coherent
  BY LruInvariant, PTL DEF LruInv

(* The map never outgrows its capacity, or one entry if that is 0.         *)
THEOREM LruBounded == LruSpec => []Bounded
  BY LruInvariant, PTL DEF LruInv

(* A put stores its digit and may only forget others. *)
LEMMA PutStores ==
  ASSUME LruInv, NEW i \in Indices, NEW d \in Digits, Put(i, d)
  PROVE  /\ Cached' \subseteq Cached \cup {i}
         /\ i \in Cached' /\ map'[i] = d /\ stored' = [stored EXCEPT ![i] = d]
         /\ \A j \in Cached' : j # i => map'[j] = map[j]
<1>1. map \in [Cached -> Digits]
  BY DEF LruInv, TypeOK
<1>2. CASE PutExisting(i, d)
  BY <1>1, <1>2 DEF PutExisting, Cached
<1>3. CASE PutNew(i, d)
  <2> DEFINE full == Cardinality(Cached) >= Capacity /\ order # <<>>
             kept == IF full THEN Cached \ {Last(order)} ELSE Cached
  <2>1. /\ map' = [j \in kept \cup {i} |-> IF j = i THEN d ELSE map[j]]
        /\ stored' = [stored EXCEPT ![i] = d]
    BY <1>3 DEF PutNew
  <2>2. kept \subseteq Cached
    OBVIOUS
  <2> HIDE DEF kept
  <2>3. Cached' = kept \cup {i}
    BY <2>1 DEF Cached
  <2> QED
    BY <2>1, <2>2, <2>3
<1> QED
  BY <1>2, <1>3 DEF Put

(* A cached index answers with the digit last put there, whatever was      *)
(* spliced or evicted since.                                               *)
THEOREM LruReadsLastPut == LruSpec => []ReadsLastPut
<1>1. LruInit => ReadsLastPut
  BY DEF LruInit, ReadsLastPut, Cached, EmptyMap
<1>2. LruInv /\ ReadsLastPut /\ [LruNext]_lruVars => ReadsLastPut'
  <2> SUFFICES ASSUME LruInv, ReadsLastPut, [LruNext]_lruVars
               PROVE  ReadsLastPut'
    OBVIOUS
  <2>1. ASSUME NEW i \in Indices, Get(i) PROVE ReadsLastPut'
    BY <2>1 DEF Get, GetHit, GetMiss, lruVars, ReadsLastPut, Cached
  <2>2. ASSUME NEW i \in Indices, NEW d \in Digits, Put(i, d)
        PROVE  ReadsLastPut'
    <3>1. /\ Cached' \subseteq Cached \cup {i} /\ map'[i] = d
          /\ stored' = [stored EXCEPT ![i] = d]
          /\ \A j \in Cached' : j # i => map'[j] = map[j]
      BY <2>2, PutStores
    <3>2. stored \in [Indices -> Digits \cup {None}] /\ Cached \subseteq Indices
      BY DEF LruInv, TypeOK
    <3> QED
      BY <3>1, <3>2 DEF ReadsLastPut
  <2>3. CASE UNCHANGED lruVars
    BY <2>3 DEF lruVars, ReadsLastPut, Cached
  <2> QED
    BY <2>1, <2>2, <2>3 DEF LruNext
<1> QED
  BY <1>1, <1>2, LruInvariant, PTL DEF LruSpec

-----------------------------------------------------------------------------
(* Eviction is by recency *)

(* The place of an element of a list without duplicates. *)
LEMMA PlaceOf ==
  ASSUME NEW s, NoDuplicates(s), NEW p \in 1..Len(s)
  PROVE  Position(s, s[p]) = p
<1> DEFINE q == Position(s, s[p])
<1>1. q \in 1..Len(s) /\ s[q] = s[p]
  BY DEF Position
<1> HIDE DEF q
<1>2. q = p
  BY <1>1 DEF NoDuplicates
<1> QED
  BY <1>2 DEF q

(* Types of the lists built on the way. *)
LEMMA ConsType ==
  ASSUME NEW S, NEW v \in S, NEW c \in Seq(S)
  PROVE  <<v>> \o c \in Seq(S) /\ Len(<<v>> \o c) = Len(c) + 1
  OBVIOUS

LEMMA FrontType ==
  ASSUME NEW S, NEW s \in Seq(S), NEW k \in 0..Len(s)
  PROVE  /\ SubSeq(s, 1, k) \in Seq(S) /\ Len(SubSeq(s, 1, k)) = k
         /\ \A j \in 1..k : SubSeq(s, 1, k)[j] = s[j]
  OBVIOUS

(* An index that was never used leaves the history as it is. *)
LEMMA DropAbsent ==
  ASSUME NEW s, NEW i, i \notin Elements(s)
  PROVE  RemoveFirst(s, i) = s
  BY DEF RemoveFirst, Elements

(* What the history of uses does with an index it holds: the splice. *)
LEMMA UseMovesToFront ==
  ASSUME NEW S, NEW s \in Seq(S), NoDuplicates(s), NEW p \in 1..Len(s)
  PROVE  <<s[p]>> \o RemoveFirst(s, s[p]) = MoveToFront(s, p)
<1> DEFINE n == Len(s)
           v == s[p]
           a == SubSeq(s, 1, p - 1)
           b == SubSeq(s, p + 1, n)
<1>1. n \in Nat /\ p \in 1..n /\ s \in [1..n -> S] /\ v \in S
  OBVIOUS
<1>2. {k \in 1..n : s[k] = v} = {p}
  BY DEF NoDuplicates
<1>3. SelectInSeq(s, LAMBDA w : w = v) = p
  BY <1>1, <1>2 DEF SelectInSeq, Min
<1>4. RemoveFirst(s, v) = a \o b
  BY <1>1, <1>3 DEF RemoveFirst, RemoveAt
<1>5. /\ a \in Seq(S) /\ Len(a) = p - 1 /\ \A k \in 1..(p - 1) : a[k] = s[k]
      /\ b \in Seq(S) /\ Len(b) = n - p /\ \A k \in 1..(n - p) : b[k] = s[p + k]
  OBVIOUS
<1> DEFINE t == <<v>> \o (a \o b)
           m == MoveToFront(s, p)
<1> HIDE DEF a, b, v
<1>6. t \in Seq(S) /\ Len(t) = n
  <2> DEFINE c == a \o b
  <2>1. a \in Seq(S) /\ b \in Seq(S) /\ Len(a) = p - 1 /\ Len(b) = n - p
    BY <1>5
  <2>2. c \in Seq(S) /\ Len(c) = (p - 1) + (n - p)
    BY <2>1
  <2> HIDE DEF c
  <2>3. (p - 1) + (n - p) + 1 = n
    BY <1>1
  <2>4. <<v>> \o c \in Seq(S) /\ Len(<<v>> \o c) = (p - 1) + (n - p) + 1
    BY <1>1, <2>2, ConsType
  <2> QED
    BY <2>3, <2>4 DEF c, t
<1>7. m \in Seq(S) /\ Len(m) = n
  BY <1>1 DEF MoveToFront
<1>8. ASSUME NEW k \in 1..n PROVE t[k] = m[k]
  <2>1. m[k] = IF k = 1 THEN s[p] ELSE IF k <= p THEN s[k - 1] ELSE s[k]
    BY <1>1 DEF MoveToFront
  <2>2. CASE k = 1
    BY <1>1, <1>5, <2>1, <2>2 DEF v
  <2>3. CASE k # 1
    <3> DEFINE j == k - 1
    <3>1. j \in 1..(n - 1) /\ t[k] = (a \o b)[j]
      BY <1>1, <1>5, <2>3
    <3>2. CASE k <= p
      <4>1. (a \o b)[j] = a[j]
        BY <1>1, <1>5, <3>1, <3>2
      <4> QED
        BY <1>1, <1>5, <2>1, <2>3, <3>1, <3>2, <4>1
    <3>3. CASE ~(k <= p)
      <4>1. j - (p - 1) \in 1..(n - p)
        BY <1>1, <3>1, <3>3
      <4>2. (a \o b)[j] = b[j - (p - 1)]
        BY <1>1, <1>5, <3>1, <3>3, <4>1
      <4>3. b[j - (p - 1)] = s[k]
        BY <1>1, <1>5, <4>1
      <4> QED
        BY <2>1, <2>3, <3>1, <3>3, <4>2, <4>3
    <3> QED
      BY <3>2, <3>3
  <2> QED
    BY <2>2, <2>3
<1> HIDE DEF t, m
<1>9. t = m
  BY <1>6, <1>7, <1>8
<1> QED
  BY <1>4, <1>9 DEF t, m, v

(* The cache holds as many indices as fit of all those ever used. *)
Fits(n) == IF n < Slots THEN n ELSE Slots

(* order is the front of recent: RecencyKept, one place at a time. *)
RecentInv ==
  /\ recent \in Seq(Indices)
  /\ NoDuplicates(recent)
  /\ Len(order) = Fits(Len(recent))
  /\ \A k \in 1..Len(order) : order[k] = recent[k]

LEMMA SlotsType == Slots \in Nat \ {0} /\ Slots >= Capacity
  BY CapacityAssumption DEF Slots

LEMMA FitsType == \A n \in Nat : Fits(n) \in Nat /\ Fits(n) <= n /\ Fits(n) <= Slots
  BY SlotsType DEF Fits

LEMMA RecentIsRecency ==
  ASSUME TypeOK, RecentInv
  PROVE  RecencyKept
<1>1. order \in Seq(Indices) /\ recent \in Seq(Indices)
  BY DEF TypeOK, RecentInv
<1>2. Len(order) = Fits(Len(recent)) /\ Fits(Len(recent)) <= Len(recent)
  BY <1>1, FitsType DEF RecentInv
<1> DEFINE n == Fits(Len(recent))
           t == SubSeq(recent, 1, n)
<1>3. n \in 0..Len(recent)
  BY <1>1, FitsType
<1> HIDE DEF n
<1>4. t \in Seq(Indices) /\ Len(t) = n /\ \A k \in 1..n : t[k] = recent[k]
  BY <1>1, <1>3
<1> HIDE DEF t
<1>5. order = t
  BY <1>1, <1>2, <1>4 DEF RecentInv, n
<1> QED
  BY <1>5 DEF RecencyKept, t, n, Fits

(* A list without duplicates is as long as the set of its elements is large. *)
LEMMA ListCounts ==
  ASSUME NEW s, Len(s) \in Nat, NoDuplicates(s)
  PROVE  Cardinality(Elements(s)) = Len(s)
<1> DEFINE f == [k \in 1..Len(s) |-> s[k]]
<1>1. f \in [1..Len(s) -> Elements(s)]
  BY DEF Elements
<1>2. \A j, k \in 1..Len(s) : f[j] = f[k] => j = k
  BY DEF NoDuplicates
<1>3. \A e \in Elements(s) : \E k \in 1..Len(s) : f[k] = e
  BY DEF Elements
<1> HIDE DEF f
<1>4. f \in Bijection(1..Len(s), Elements(s))
  BY <1>1, <1>2, <1>3 DEF Bijection, Injection, Surjection, IsInjective
<1>5. ExistsBijection(1..Len(s), Elements(s))
  BY <1>4 DEF ExistsBijection
<1> QED
  BY <1>5, FS_CountingElements

(* A splice of the list is a use in the history. *)
LEMMA SpliceKeepsRecency ==
  ASSUME LruInv, RecentInv, NEW i \in Cached, order' = Spliced(i), Used(i)
  PROVE  RecentInv'
<1>1. /\ order \in Seq(Indices) /\ recent \in Seq(Indices)
      /\ NoDuplicates(order) /\ NoDuplicates(recent) /\ i \in Elements(order)
  BY CoherentIsList DEF LruInv, TypeOK, RecentInv
<1>2. PICK p \in 1..Len(order) : order[p] = i
  BY <1>1 DEF Elements
<1>3. /\ Len(order) = Fits(Len(recent)) /\ Fits(Len(recent)) <= Len(recent)
      /\ \A k \in 1..Len(order) : order[k] = recent[k]
  BY <1>1, FitsType DEF RecentInv
<1>4. p \in 1..Len(recent) /\ recent[p] = i
  BY <1>1, <1>2, <1>3
<1>5. order' = MoveToFront(order, p)
  BY <1>1, <1>2, PlaceOf DEF Spliced
<1>6. recent' = MoveToFront(recent, p)
  BY <1>1, <1>4, UseMovesToFront DEF Used
<1>7. recent' \in Seq(Indices) /\ NoDuplicates(recent')
  <2>1. Position(recent, i) = p /\ i \in Elements(recent)
    BY <1>1, <1>4, PlaceOf DEF Elements
  <2> QED
    BY <1>1, <1>6, <2>1, SplicePermutes
<1>8. Len(order') = Len(order) /\ Len(recent') = Len(recent)
  BY <1>1, <1>5, <1>6 DEF MoveToFront
<1>9. ASSUME NEW k \in 1..Len(order) PROVE order'[k] = recent'[k]
  <2>1. k \in 1..Len(recent)
    BY <1>1, <1>3
  <2>2. order'[k] = IF k = 1 THEN order[p] ELSE IF k <= p THEN order[k - 1] ELSE order[k]
    BY <1>5 DEF MoveToFront
  <2>3. recent'[k] = IF k = 1 THEN recent[p] ELSE IF k <= p THEN recent[k - 1] ELSE recent[k]
    BY <1>6, <2>1 DEF MoveToFront
  <2>4. k # 1 => k - 1 \in 1..Len(order)
    BY <1>1
  <2> QED
    BY <1>2, <1>3, <2>2, <2>3, <2>4
<1>10. Len(order') = Fits(Len(recent'))
  BY <1>3, <1>8
<1> QED
  BY <1>7, <1>8, <1>9, <1>10 DEF RecentInv, Fits, Slots

(* A put of a new index: what falls off the back of the list is what the   *)
(* history has past the capacity.                                          *)
LEMMA PutNewKeepsRecency ==
  ASSUME LruInv, RecentInv, NEW i \in Indices, NEW d \in Digits, PutNew(i, d)
  PROVE  RecentInv'
<1> DEFINE full == Cardinality(Cached) >= Capacity /\ order # <<>>
           list == IF full THEN Front(order) ELSE order
           n == Len(order)
           m == Len(recent)
<1>1. /\ order \in Seq(Indices) /\ recent \in Seq(Indices)
      /\ NoDuplicates(order) /\ NoDuplicates(recent) /\ Elements(order) = Cached
  BY CoherentIsList DEF LruInv, TypeOK, RecentInv
<1>2. /\ i \notin Cached /\ order' = <<i>> \o list
      /\ recent' = <<i>> \o RemoveFirst(recent, i)
  BY DEF PutNew, Used
<1>3. /\ n \in Nat /\ m \in Nat /\ n = Fits(m) /\ Fits(m) <= m /\ n <= Slots
      /\ \A k \in 1..n : order[k] = recent[k]
  BY <1>1, FitsType DEF RecentInv
<1>4. Cardinality(Cached) = n
  BY <1>1, <1>3, ListCounts
<1>5. \A k \in 1..n : order[k] # i
  BY <1>1, <1>2 DEF Elements
<1>6. /\ recent' \in Seq(Indices) /\ NoDuplicates(recent')
      /\ recent'[1] = i /\ Len(recent') \in Nat /\ Len(recent') >= m
      /\ \A k \in 1..n : k < n => recent'[k + 1] = recent[k]
  <2>1. CASE i \notin Elements(recent)
    <3>1. recent' = <<i>> \o recent
      BY <1>2, <2>1, DropAbsent
    <3>2. recent' \in Seq(Indices) /\ NoDuplicates(recent')
      BY <1>1, <2>1, <3>1, PushFront
    <3> QED
      BY <1>1, <1>3, <3>1, <3>2
  <2>2. CASE i \in Elements(recent)
    <3>1. PICK p \in 1..m : recent[p] = i
      BY <2>2 DEF Elements
    <3>2. recent' = MoveToFront(recent, p) /\ Position(recent, i) = p
      BY <1>1, <1>2, <3>1, UseMovesToFront, PlaceOf
    <3>3. recent' \in Seq(Indices) /\ NoDuplicates(recent')
      BY <1>1, <2>2, <3>2, SplicePermutes
    <3>4. ~(p <= n)
      BY <1>3, <1>5, <3>1
    <3>5. Len(recent') = m /\ recent'[1] = i
      BY <1>1, <3>1, <3>2 DEF MoveToFront
    <3>6. ASSUME NEW k \in 1..n, k < n PROVE recent'[k + 1] = recent[k]
      <4>1. k + 1 \in 1..m /\ k + 1 # 1 /\ k + 1 <= p /\ (k + 1) - 1 = k
        BY <1>3, <3>1, <3>4, <3>6
      <4> QED
        BY <3>2, <4>1 DEF MoveToFront
    <3> QED
      BY <1>3, <3>3, <3>5, <3>6
  <2> QED
    BY <2>1, <2>2
<1>7. Slots' = Slots
  BY DEF Slots
<1>8. CASE full
  <2>1. n = Slots
    <3>1. n # 0
      BY <1>1, <1>8
    <3> QED
      BY <1>3, <1>4, <1>8, <3>1, CapacityAssumption DEF Slots
  <2>2. /\ list \in Seq(Indices) /\ Len(list) = n - 1
        /\ \A k \in 1..(n - 1) : list[k] = order[k]
    <3>1. list = SubSeq(order, 1, n - 1) /\ n # 0
      BY <1>1, <1>8 DEF Front
    <3>2. n - 1 \in 0..n
      BY <1>3, <3>1
    <3> HIDE DEF list
    <3> QED
      BY <1>1, <3>1, <3>2, FrontType
  <2> HIDE DEF list
  <2>3. /\ Len(order') = n /\ order'[1] = i
        /\ \A k \in 1..(n - 1) : order'[k + 1] = order[k]
    BY <1>1, <1>2, <1>3, <2>2
  <2>5. Fits(Len(recent')) = Slots
    BY <1>3, <1>6, <2>1, SlotsType DEF Fits
  <2>6. ASSUME NEW k \in 1..n PROVE order'[k] = recent'[k]
    <3>1. CASE k = 1
      BY <1>6, <2>3, <3>1
    <3>2. CASE k # 1
      <4>1. k - 1 \in 1..(n - 1) /\ k - 1 \in 1..n /\ k - 1 < n /\ (k - 1) + 1 = k
        BY <1>3, <3>2
      <4> QED
        BY <1>3, <1>6, <2>3, <4>1
    <3> QED
      BY <3>1, <3>2
  <2> QED
    BY <1>3, <1>6, <1>7, <2>1, <2>3, <2>5, <2>6 DEF RecentInv, Fits
<1>9. CASE ~full
  <2>1. n < Slots
    BY <1>1, <1>3, <1>4, <1>9, SlotsType, CapacityAssumption
  <2>2. m = n
    BY <1>3, <2>1, SlotsType DEF Fits
  <2>3. recent = order
    <3>1. /\ order \in Seq(Indices) /\ recent \in Seq(Indices)
          /\ Len(order) = Len(recent)
          /\ \A k \in 1..Len(order) : order[k] = recent[k]
      BY <1>1, <1>3, <2>2
    <3> QED
      BY ONLY <3>1
  <2>4. order' = <<i>> \o order /\ recent' = <<i>> \o order
    BY <1>1, <1>2, <1>9, <2>3, DropAbsent
  <2>5. Len(recent') = n + 1
    BY <1>1, <2>4
  <2>6. Fits(n + 1) = n + 1
    BY <1>3, <2>1, SlotsType DEF Fits
  <2> QED
    BY <1>3, <1>6, <1>7, <2>4, <2>5, <2>6 DEF RecentInv, Fits
<1> QED
  BY <1>8, <1>9

LEMMA InitRecent == LruInit => RecentInv
  BY SlotsType DEF LruInit, RecentInv, NoDuplicates, Fits

LEMMA NextRecent == LruInv /\ RecentInv /\ [LruNext]_lruVars => RecentInv'
<1> SUFFICES ASSUME LruInv, RecentInv, [LruNext]_lruVars PROVE RecentInv'
  OBVIOUS
<1>1. ASSUME NEW i \in Indices, GetHit(i) PROVE RecentInv'
  BY <1>1, SpliceKeepsRecency DEF GetHit
<1>2. ASSUME NEW i \in Indices, NEW d \in Digits, PutExisting(i, d)
      PROVE  RecentInv'
  BY <1>2, SpliceKeepsRecency DEF PutExisting
<1>3. ASSUME NEW i \in Indices, NEW d \in Digits, PutNew(i, d)
      PROVE  RecentInv'
  BY <1>3, PutNewKeepsRecency
<1>4. CASE UNCHANGED lruVars
  BY <1>4 DEF lruVars, RecentInv, NoDuplicates, Fits, Slots
<1> QED
  BY <1>1, <1>2, <1>3, <1>4 DEF LruNext, Get, GetMiss, Put

(* Eviction is by recency: after every sequence of gets and puts the list  *)
(* holds the indices used last, latest first, as far as the capacity       *)
(* reaches, and what was evicted was used before all of them.              *)
THEOREM LruKeepsRecency == LruSpec => []RecencyKept
<1>1. LruInv /\ RecentInv => RecencyKept
  BY RecentIsRecency DEF LruInv
<1> QED
  BY <1>1, InitRecent, NextRecent, LruInvariant, PTL DEF LruSpec

-----------------------------------------------------------------------------
(* The cached digit source *)

SourceInv ==
  /\ LruInv
  /\ SourceTypeOK
  /\ CacheIsStream
  /\ ServesTheStream

LEMMA InitSource == Init => SourceInv
<1> SUFFICES ASSUME Init PROVE SourceInv
  OBVIOUS
<1>1. LruInv
  BY InitLru DEF Init
<1>2. 0 \in Indices
  BY IndicesAssumption
<1>3. Cached = {}
  BY DEF Init, LruInit, Cached, EmptyMap
<1> QED
  BY <1>1, <1>2, <1>3
     DEF Init, SourceInv, SourceTypeOK, LruInv, CacheIsStream, ServesTheStream

LEMMA NextSource ==
  ASSUME SourceInv, [Next]_vars
  PROVE  SourceInv'
<1>1. /\ produced \in Nat /\ want \in Indices /\ Indices \subseteq Nat
      /\ Digit \in [Indices -> Digits] /\ map \in [Cached -> Digits]
      /\ Cached \subseteq Indices /\ answer \in Digits \cup {None}
  BY IndicesAssumption, DigitAssumption DEF SourceInv, SourceTypeOK, TypeOK
<1>2. ASSUME NEW i \in Indices, CallHit(i) PROVE SourceInv'
  <2>1. /\ GetHit(i) /\ answer' = map[i] /\ want' = i /\ pended' = FALSE
        /\ produced' = produced /\ pc' = pc /\ i \in Cached /\ map' = map
    BY <1>2 DEF CallHit, GetHit
  <2>2. LruInv'
    BY <2>1, GetKeeps DEF SourceInv, Get
  <2>3. CacheIsStream'
    BY <2>1 DEF SourceInv, CacheIsStream, Cached
  <2>4. answer' = Digit[i] /\ answer' \in Digits
    BY <1>1, <2>1 DEF SourceInv, CacheIsStream
  <2> QED
    BY <2>1, <2>2, <2>3, <2>4
       DEF SourceInv, SourceTypeOK, LruInv, ServesTheStream
<1>3. ASSUME NEW i \in Indices, CallMiss(i) PROVE SourceInv'
  <2>1. /\ GetMiss(i) /\ want' = i /\ pc' = "compute" /\ pended' = FALSE
        /\ produced' = produced /\ answer' = answer /\ map' = map
    BY <1>3 DEF CallMiss, GetMiss, lruVars
  <2>2. LruInv'
    BY <2>1, GetKeeps DEF SourceInv, Get
  <2>3. CacheIsStream'
    BY <2>1 DEF SourceInv, CacheIsStream, Cached
  <2> QED
    BY <2>1, <2>2, <2>3
       DEF SourceInv, SourceTypeOK, LruInv, ServesTheStream
<1>4. CASE Produce
  <2>1. /\ pc = "compute" /\ produced <= want
        /\ Put(produced, Digit[produced]) /\ produced' = produced + 1
        /\ UNCHANGED <<pc, want, answer, pended>>
    BY <1>4 DEF Produce
  <2>2. produced \in Indices /\ Digit[produced] \in Digits
    <3>1. produced \in 0..want
      BY <1>1, <2>1
    <3> QED
      BY <1>1, <3>1, IndicesAssumption
  <2>3. LruInv'
    BY <2>1, <2>2, PutExistingKeeps, PutNewKeeps DEF SourceInv, Put
  <2>4. /\ Cached' \subseteq Cached \cup {produced}
        /\ map'[produced] = Digit[produced]
        /\ \A j \in Cached' : j # produced => map'[j] = map[j]
    BY <2>1, <2>2, PutStores DEF SourceInv
  <2>5. CacheIsStream'
    BY <1>1, <2>1, <2>4 DEF SourceInv, CacheIsStream
  <2> QED
    BY <1>1, <2>1, <2>3, <2>5
       DEF SourceInv, SourceTypeOK, LruInv, ServesTheStream
<1>5. CASE ProducePending
  BY <1>5 DEF ProducePending, lruVars, SourceInv, SourceTypeOK, LruInv, TypeOK,
              Coherent, Bounded, CacheIsStream, ServesTheStream, Cached
<1>6. CASE Return
  <2>1. /\ Get(want) /\ answer' = Lookup(want) /\ pc' = "idle"
        /\ UNCHANGED <<produced, want, pended>>
    BY <1>6 DEF Return
  <2>2. map' = map
    BY <2>1 DEF Get, GetHit, GetMiss, lruVars
  <2>3. LruInv'
    BY <1>1, <2>1, GetKeeps DEF SourceInv
  <2>4. CacheIsStream'
    BY <2>1, <2>2 DEF SourceInv, CacheIsStream, Cached
  <2>5. /\ answer' \in Digits \cup {None}
        /\ answer' # None => answer' = Digit[want]
    BY <1>1, <2>1 DEF Lookup, SourceInv, CacheIsStream
  <2> QED
    BY <2>1, <2>3, <2>4, <2>5
       DEF SourceInv, SourceTypeOK, LruInv, ServesTheStream
<1>7. CASE UNCHANGED vars
  BY <1>7 DEF vars, lruVars, SourceInv, SourceTypeOK, LruInv, TypeOK,
              Coherent, Bounded, CacheIsStream, ServesTheStream, Cached
<1> QED
  BY <1>2, <1>3, <1>4, <1>5, <1>6, <1>7 DEF Next

(* Random access is true to the stream: an answer is the producer's digit  *)
(* at the index asked for, for every capacity, however calls, pendings and *)
(* evictions alternate.                                                    *)
THEOREM SourceServesTheStream == Spec => []ServesTheStream
<1>1. SourceInv /\ [Next]_vars => SourceInv'
  BY NextSource
<1>2. SourceInv => ServesTheStream
  BY DEF SourceInv
<1> QED
  BY <1>1, <1>2, InitSource, PTL DEF Spec

(* The source drives its cache through get and put alone. *)
LEMMA SourceStepsCache == SourceInv /\ [Next]_vars => [LruNext]_lruVars
<1> SUFFICES ASSUME SourceInv, [Next]_vars PROVE [LruNext]_lruVars
  OBVIOUS
<1>1. want \in Indices /\ produced \in Nat
  BY DEF SourceInv, SourceTypeOK
<1>2. Produce => produced \in Indices /\ Digit[produced] \in Digits
  <2> SUFFICES ASSUME Produce
               PROVE  produced \in Indices /\ Digit[produced] \in Digits
    OBVIOUS
  <2>1. produced \in 0..want
    BY <1>1, IndicesAssumption DEF Produce
  <2> QED
    BY <1>1, <2>1, IndicesAssumption, DigitAssumption
<1> QED
  BY <1>1, <1>2 DEF Next, CallHit, CallMiss, Produce, ProducePending, Return,
                    LruNext, Get, vars

(* So the source is a client of the cache, and the cache's own theorems    *)
(* hold inside it.                                                         *)
THEOREM SourceImplementsCache == Spec => LruSpec
<1>1. Init => LruInit
  BY DEF Init
<1>2. SourceInv /\ [Next]_vars => SourceInv'
  BY NextSource
<1> QED
  BY <1>1, <1>2, SourceStepsCache, InitSource, PTL DEF Spec, LruSpec

(* A use adds its index to the history and drops none. *)
LEMMA UseAdds ==
  ASSUME recent \in Seq(Indices), NoDuplicates(recent), NEW i \in Indices, Used(i)
  PROVE  Elements(recent') = Elements(recent) \cup {i}
<1>1. recent' = <<i>> \o RemoveFirst(recent, i)
  BY DEF Used
<1>2. CASE i \notin Elements(recent)
  <2>1. recent' = <<i>> \o recent
    BY <1>1, <1>2, DropAbsent
  <2> QED
    BY <1>2, <2>1, PushFront
<1>3. CASE i \in Elements(recent)
  <2>1. PICK p \in 1..Len(recent) : recent[p] = i
    BY <1>3 DEF Elements
  <2>2. recent' = MoveToFront(recent, Position(recent, i))
    BY <1>1, <2>1, UseMovesToFront, PlaceOf
  <2> QED
    BY <1>3, <2>2, SplicePermutes
<1> QED
  BY <1>2, <1>3

(* Every index that was produced is in the history of the cache. *)
Remembered == \A i \in Nat : i < produced => i \in Elements(recent)

LEMMA NextRemembers ==
  ASSUME SourceInv, RecentInv, Remembered, [Next]_vars
  PROVE  Remembered'
<1>1. /\ recent \in Seq(Indices) /\ NoDuplicates(recent) /\ produced \in Nat
      /\ want \in Indices /\ Indices \subseteq Nat
  BY IndicesAssumption DEF RecentInv, SourceInv, SourceTypeOK
<1>2. ASSUME NEW i \in Indices, Used(i), produced' = produced PROVE Remembered'
  BY <1>1, <1>2, UseAdds DEF Remembered
<1>3. ASSUME recent' = recent, produced' = produced PROVE Remembered'
  BY <1>3 DEF Remembered, Elements
<1>4. ASSUME NEW i \in Indices, CallHit(i) PROVE Remembered'
  BY <1>2, <1>4 DEF CallHit, GetHit
<1>5. ASSUME NEW i \in Indices, CallMiss(i) PROVE Remembered'
  BY <1>3, <1>5 DEF CallMiss, GetMiss, lruVars
<1>6. CASE Produce
  <2>1. Used(produced) /\ produced' = produced + 1 /\ produced <= want
    BY <1>6 DEF Produce, Put, PutExisting, PutNew
  <2>2. produced \in Indices
    <3>1. produced \in 0..want
      BY <1>1, <2>1
    <3> QED
      BY <1>1, <3>1, IndicesAssumption
  <2>3. Elements(recent') = Elements(recent) \cup {produced}
    BY <1>1, <2>1, <2>2, UseAdds
  <2>4. ASSUME NEW i \in Nat, i < produced + 1
        PROVE  i \in Elements(recent) \cup {produced}
    BY <1>1, <2>4 DEF Remembered
  <2> QED
    BY <2>1, <2>3, <2>4 DEF Remembered
<1>7. CASE ProducePending
  BY <1>3, <1>7 DEF ProducePending, lruVars
<1>8. CASE Return
  BY <1>1, <1>2, <1>3, <1>8 DEF Return, Get, GetHit, GetMiss, lruVars
<1>9. CASE UNCHANGED vars
  BY <1>3, <1>9 DEF vars, lruVars
<1> QED
  BY <1>4, <1>5, <1>6, <1>7, <1>8, <1>9 DEF Next

(* What is in the history and not in the cache is past its capacity. *)
LEMMA EvictedIsOld ==
  ASSUME LruInv, RecentInv, NEW i \in Elements(recent), i \notin Cached
  PROVE  \E p \in 1..Len(recent) : recent[p] = i /\ p > Slots
<1>1. PICK p \in 1..Len(recent) : recent[p] = i
  BY DEF Elements
<1>2. /\ order \in Seq(Indices) /\ recent \in Seq(Indices)
      /\ Elements(order) = Cached /\ Len(order) = Fits(Len(recent))
      /\ \A k \in 1..Len(order) : order[k] = recent[k]
  BY CoherentIsList DEF LruInv, TypeOK, RecentInv
<1>3. ~(p <= Len(order))
  BY <1>1, <1>2 DEF Elements
<1>4. p > Slots
  BY <1>1, <1>2, <1>3, SlotsType DEF Fits
<1> QED
  BY <1>1, <1>4

(* A call that is answered with nullopt while the producer was not pending *)
(* asked for a digit that had been produced and evicted: the only way in   *)
(* which a source without pending fails, for every capacity and sequence   *)
(* of calls.                                                               *)
THEOREM UnansweredDigitsWereEvicted == Spec => UnansweredWasEvicted
<1> DEFINE Step == pc = "compute" /\ pc' = "idle" /\ answer' = None /\ ~pended'
                     => /\ want < produced
                        /\ \E p \in 1..Len(recent) : recent[p] = want /\ p > Slots
           Inv == SourceInv /\ RecentInv /\ Remembered
<1>1. Init => Inv
  <2>1. Init => produced = 0 /\ LruInit
    BY DEF Init
  <2> QED
    BY <2>1, InitSource, InitRecent DEF Remembered
<1>2. Inv /\ [Next]_vars => Inv'
  BY NextSource, NextRecent, NextRemembers, SourceStepsCache DEF SourceInv
<1>3. Inv /\ [Next]_vars => [Step]_vars
  <2> SUFFICES ASSUME Inv, Next, pc = "compute", pc' = "idle", answer' = None, ~pended'
               PROVE  /\ want < produced
                      /\ \E p \in 1..Len(recent) : recent[p] = want /\ p > Slots
    OBVIOUS
  <2>1. Return
    BY DEF Next, CallHit, CallMiss, Produce, ProducePending
  <2>2. want < produced /\ want \notin Cached
    BY <2>1, NoneAssumption, IndicesAssumption
       DEF Return, Lookup, SourceInv, SourceTypeOK, TypeOK
  <2>3. want \in Elements(recent)
    BY <2>2, IndicesAssumption DEF Remembered, SourceInv, SourceTypeOK
  <2> QED
    BY <2>2, <2>3, EvictedIsOld DEF SourceInv
<1> QED
  BY <1>1, <1>2, <1>3, PTL DEF Spec, UnansweredWasEvicted
=============================================================================
