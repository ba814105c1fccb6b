----------------------------- MODULE Recursion -----------------------------
(***************************************************************************)
(* Induction and recursion over the naturals with sets and functions as    *)
(* parameters.  The theorems of NaturalsInduction have an operator as a    *)
(* parameter, which the provers do not instantiate; a set of naturals, or  *)
(* a step given as a function, they do.                                    *)
(***************************************************************************)
EXTENDS Integers, WellFoundedInduction, TLAPS

\* A set of naturals that is not empty has a least element.
LEMMA LeastNatural ==
    ASSUME NEW T \in SUBSET Nat, T # {}
    PROVE  \E n \in T : \A m \in T : ~(m < n)
  <1>1. \E n \in T : \A m \in T : ~(<<m, n>> \in OpToRel(<, Nat))
    BY NatLessThanWellFounded, WFMin
  <1> QED
    BY <1>1 DEF OpToRel

\* A set of naturals that has 0 and the successor of each element has all.
LEMMA SetInduction ==
    ASSUME NEW S, 0 \in S, \A n \in Nat : n \in S => n + 1 \in S
    PROVE  \A n \in Nat : n \in S
  <1> SUFFICES ASSUME Nat \ S # {} PROVE FALSE
    OBVIOUS
  <1>1. PICK n \in Nat \ S : \A m \in Nat \ S : ~(m < n)
    BY LeastNatural
  <1>2. n # 0 /\ n - 1 \in Nat
    BY <1>1
  <1>3. n - 1 \in S
    BY <1>1, <1>2
  <1> QED
    BY <1>1, <1>2, <1>3

\* The same up to a bound.
LEMMA BoundedInduction ==
    ASSUME NEW S, NEW m \in Nat, 0 \in S,
           \A n \in Nat : n < m /\ n \in S => n + 1 \in S
    PROVE  \A n \in 0..m : n \in S
  <1> DEFINE T == {n \in Nat : n <= m => n \in S}
  <1>1. 0 \in T
    OBVIOUS
  <1>2. \A n \in Nat : n \in T => n + 1 \in T
    OBVIOUS
  <1>3. \A n \in Nat : n \in T
    <2> HIDE DEF T
    <2> QED
      BY <1>1, <1>2, SetInduction
  <1> QED
    BY <1>3

\* g starts at c, and F[n] leads from each element to the next.
Runs(g, c, F) == g[0] = c /\ \A n \in Nat : g[n + 1] = F[n][g[n]]

\* A start and a step define a sequence.
LEMMA PrimitiveRecursion ==
    ASSUME NEW A, NEW c \in A, NEW F \in [Nat -> [A -> A]]
    PROVE  \E g \in [Nat -> A] : Runs(g, c, F)
  <1> DEFINE Good(h, n) ==
                 h[0] = c /\ \A k \in Nat : k < n => h[k + 1] = F[k][h[k]]
             S == {n \in Nat : \E h \in [0..n -> A] : Good(h, n)}
  <1>1. 0 \in S
    <2>1. [k \in 0..0 |-> c] \in [0..0 -> A] /\ Good([k \in 0..0 |-> c], 0)
      OBVIOUS
    <2> QED
      BY <2>1
  <1>2. ASSUME NEW n \in Nat, n \in S PROVE n + 1 \in S
    <2>1. PICK h \in [0..n -> A] : Good(h, n)
      BY <1>2
    <2> DEFINE j == [k \in 0..(n + 1) |-> IF k = n + 1 THEN F[n][h[n]] ELSE h[k]]
    <2>2. j \in [0..(n + 1) -> A]
      OBVIOUS
    <2>3. j[0] = c
      BY <2>1
    <2>4. ASSUME NEW k \in Nat, k < n + 1 PROVE j[k + 1] = F[k][j[k]]
      <3>1. k + 1 \in 0..(n + 1) /\ k \in 0..(n + 1) /\ k # n + 1
        BY <2>4
      <3>2. j[k] = h[k]
        BY <3>1
      <3>3. CASE k = n
        <4>1. j[k + 1] = F[n][h[n]]
          BY <3>1, <3>3
        <4> QED
          BY <4>1, <3>2, <3>3
      <3>4. CASE k # n
        <4>1. k < n
          BY <2>4, <3>4
        <4>2. j[k + 1] = h[k + 1]
          BY <3>1, <3>4, <4>1
        <4> HIDE DEF j
        <4>3. h[k + 1] = F[k][h[k]]
          BY <2>1, <4>1
        <4> QED
          BY <4>2, <4>3, <3>2
      <3> QED
        BY <3>3, <3>4
    <2>5. Good(j, n + 1)
      <3> HIDE DEF j
      <3> QED
        BY <2>3, <2>4
    <2> HIDE DEF j, Good
    <2> QED
      BY <2>2, <2>5
  <1>3. \A n \in Nat : n \in S
    <2> HIDE DEF S
    <2> QED
      BY <1>1, <1>2, SetInduction
  <1> DEFINE H(n) == CHOOSE h \in [0..n -> A] : Good(h, n)
  <1>4. \A n \in Nat : H(n) \in [0..n -> A] /\ Good(H(n), n)
    BY <1>3
  <1> HIDE DEF H
  <1>5. ASSUME NEW n \in Nat PROVE H(n + 1)[n] = H(n)[n]
    <2> DEFINE U == {k \in Nat : H(n + 1)[k] = H(n)[k]}
    <2>1. 0 \in U
      BY <1>4
    <2>2. ASSUME NEW k \in Nat, k < n, k \in U PROVE k + 1 \in U
      <3>1. H(n)[k + 1] = F[k][H(n)[k]]
        BY <2>2, <1>4
      <3>2. H(n + 1)[k + 1] = F[k][H(n + 1)[k]]
        BY <2>2, <1>4
      <3> QED
        BY <3>1, <3>2, <2>2
    <2>3. \A k \in 0..n : k \in U
      <3> HIDE DEF U
      <3> QED
        BY <2>1, <2>2, BoundedInduction
    <2> QED
      BY <2>3
  <1> DEFINE g == [n \in Nat |-> H(n)[n]]
  <1>6. g \in [Nat -> A]
    BY <1>4
  <1>7. g[0] = c
    BY <1>4
  <1>8. ASSUME NEW n \in Nat PROVE g[n + 1] = F[n][g[n]]
    <2>1. H(n + 1)[n + 1] = F[n][H(n + 1)[n]]
      BY <1>4
    <2> QED
      BY <2>1, <1>5
  <1> HIDE DEF g
  <1> QED
    BY <1>6, <1>7, <1>8 DEF Runs

\* f is defined outright on Stop and by its value further down elsewhere.
Descends(f, S, Stop, value, next, F) ==
    f = [s \in S |-> IF s \in Stop THEN value[s] ELSE F[s][f[next[s]]]]

\* Recursion along a step that lowers a measure has a solution.
LEMMA MeasuredRecursion ==
    ASSUME NEW S, NEW A, NEW Stop \in SUBSET S, NEW measure \in [S -> Nat],
           NEW value \in [S -> A], NEW next \in [S -> S], NEW F \in [S -> [A -> A]],
           \A s \in S \ Stop : measure[next[s]] < measure[s]
    PROVE  \E f \in [S -> A] : Descends(f, S, Stop, value, next, F)
  <1> DEFINE B == [S -> A]
             Under(f) == [s \in S |-> IF s \in Stop THEN value[s] ELSE F[s][f[next[s]]]]
             G == [n \in Nat |-> [f \in B |-> Under(f)]]
  <1>1. \A f \in B : Under(f) \in B
    OBVIOUS
  <1>2. G \in [Nat -> [B -> B]]
    BY <1>1
  <1>3. PICK h \in [Nat -> B] : Runs(h, value, G)
    <2>1. value \in B
      OBVIOUS
    <2> HIDE DEF B, G
    <2> QED
      BY <2>1, <1>2, PrimitiveRecursion
  <1>4. ASSUME NEW n \in Nat, NEW s \in S
        PROVE  /\ s \in Stop => h[n + 1][s] = value[s]
               /\ s \notin Stop => h[n + 1][s] = F[s][h[n][next[s]]]
    <2>1. h[n + 1] = Under(h[n])
      BY <1>3 DEF Runs
    <2> QED
      BY <2>1
  <1>5. \A s \in S : s \in Stop => h[0][s] = value[s]
    BY <1>3 DEF Runs
  <1> HIDE DEF B, G, Under
  \* After as many rounds as its measure says, the value of s is there to stay.
  <1> DEFINE T == {n \in Nat : \A s \in S : measure[s] <= n => h[n + 1][s] = h[n][s]}
  <1>6. 0 \in T
    <2> SUFFICES ASSUME NEW s \in S, measure[s] <= 0 PROVE h[0 + 1][s] = h[0][s]
      OBVIOUS
    <2>1. s \in Stop
      <3>1. \A m \in Nat : m <= 0 => ~(\E k \in Nat : k < m)
        OBVIOUS
      <3>2. measure[s] \in Nat /\ measure[next[s]] \in Nat
        OBVIOUS
      <3> QED
        BY <3>1, <3>2
    <2> QED
      BY <2>1, <1>4, <1>5
  <1>7. ASSUME NEW n \in Nat, n \in T PROVE n + 1 \in T
    <2> SUFFICES ASSUME NEW s \in S, measure[s] <= n + 1
                 PROVE  h[n + 1 + 1][s] = h[n + 1][s]
      OBVIOUS
    <2>1. n + 1 \in Nat
      OBVIOUS
    <2>2. CASE s \in Stop
      BY <1>4, <2>1, <2>2
    <2>3. CASE s \notin Stop
      <3>1. h[n + 1 + 1][s] = F[s][h[n + 1][next[s]]] /\ h[n + 1][s] = F[s][h[n][next[s]]]
        BY <1>4, <2>1, <2>3
      <3>2. next[s] \in S /\ measure[next[s]] <= n
        BY <2>3
      <3> QED
        BY <3>1, <3>2, <1>7
    <2> QED
      BY <2>2, <2>3
  <1>8. \A n \in Nat : n \in T
    <2> HIDE DEF T
    <2> QED
      BY <1>6, <1>7, SetInduction
  <1>9. ASSUME NEW s \in S, NEW m \in Nat
        PROVE  h[measure[s] + m][s] = h[measure[s]][s]
    <2> DEFINE k == measure[s]
               U == {j \in Nat : h[k + j][s] = h[k][s]}
    <2>1. k \in Nat
      OBVIOUS
    <2>2. 0 \in U
      BY <2>1
    <2>3. ASSUME NEW j \in Nat, j \in U PROVE j + 1 \in U
      <3>1. k + j \in T /\ k <= k + j
        BY <1>8, <2>1
      <3>2. h[k + j + 1][s] = h[k + j][s]
        BY <3>1
      <3>3. k + (j + 1) = k + j + 1
        BY <2>1
      <3> QED
        BY <3>2, <3>3, <2>3
    <2>4. \A j \in Nat : j \in U
      <3> HIDE DEF U
      <3> QED
        BY <2>2, <2>3, SetInduction
    <2> QED
      BY <2>4
  <1> DEFINE g == [s \in S |-> h[measure[s]][s]]
  <1>10. g \in [S -> A]
    BY <1>3 DEF B
  <1>11. ASSUME NEW s \in S
         PROVE  g[s] = IF s \in Stop THEN value[s] ELSE F[s][g[next[s]]]
    <2>1. CASE s \in Stop
      <3>1. measure[s] = 0 \/ (measure[s] - 1 \in Nat /\ measure[s] = (measure[s] - 1) + 1)
        OBVIOUS
      <3> QED
        BY <2>1, <3>1, <1>4, <1>5
    <2>2. CASE s \notin Stop
      <3> DEFINE n == measure[s] - 1
                 k == measure[next[s]]
      <3>1. n \in Nat /\ k \in Nat /\ k <= n /\ n + 1 = measure[s] /\ next[s] \in S
        BY <2>2
      <3>2. h[measure[s]][s] = F[s][h[n][next[s]]]
        BY <1>4, <2>2, <3>1
      <3>3. n - k \in Nat /\ k + (n - k) = n
        BY <3>1
      <3>4. h[n][next[s]] = h[k][next[s]]
        <4> HIDE DEF n
        <4> QED
          BY <1>9, <3>1, <3>3
      <3>5. g[s] = h[measure[s]][s] /\ g[next[s]] = h[k][next[s]]
        BY <3>1
      <3> QED
        BY <2>2, <3>2, <3>4, <3>5
    <2> QED
      BY <2>1, <2>2
  <1> HIDE DEF g
  <1>12. Descends(g, S, Stop, value, next, F)
    BY <1>10, <1>11 DEF Descends
  <1> QED
    BY <1>10, <1>12

-----------------------------------------------------------------------------
(* Iterating a step *)

\* g holds the iterates of F.
Orbit(g, F) == \A n \in Nat : g[n + 1] = F[g[n]]

\* A step can be iterated from anywhere.
LEMMA Iteration ==
    ASSUME NEW A, NEW c \in A, NEW F \in [A -> A]
    PROVE  \E g \in [Nat -> A] : g[0] = c /\ Orbit(g, F)
  <1>1. [n \in Nat |-> F] \in [Nat -> [A -> A]]
    OBVIOUS
  <1>2. PICK g \in [Nat -> A] : Runs(g, c, [n \in Nat |-> F])
    BY <1>1, PrimitiveRecursion
  <1> QED
    BY <1>2 DEF Runs, Orbit

\* One orbit is at i where the other is at j.
Meets(g, i, h, j) == g[i] = h[j]

\* Where two places of two orbits agree, so do all later ones.
LEMMA OrbitsMeet ==
    ASSUME NEW F, NEW g, NEW h, Orbit(g, F), Orbit(h, F),
           NEW i \in Nat, NEW j \in Nat, Meets(g, i, h, j)
    PROVE  \A n \in Nat : g[i + n] = h[j + n]
  <1> DEFINE S == {n \in Nat : g[i + n] = h[j + n]}
  <1>1. 0 \in S
    BY DEF Meets
  <1>2. ASSUME NEW n \in Nat, n \in S PROVE n + 1 \in S
    <2>1. /\ i + n \in Nat /\ j + n \in Nat
          /\ i + (n + 1) = (i + n) + 1 /\ j + (n + 1) = (j + n) + 1
      OBVIOUS
    <2>2. g[(i + n) + 1] = F[g[i + n]] /\ h[(j + n) + 1] = F[h[j + n]]
      BY <2>1 DEF Orbit
    <2> QED
      BY <1>2, <2>1, <2>2
  <1>3. \A n \in Nat : n \in S
    <2> HIDE DEF S
    <2> QED
      BY <1>1, <1>2, SetInduction
  <1> QED
    BY <1>3

\* An orbit is p steps after i where it was at i.
Returns(g, i, p) == p \in Nat \ {0} /\ g[i + p] = g[i]

\* From then on it is where the phase of its place in that cycle says.
LEMMA OrbitCycles ==
    ASSUME NEW F, NEW g, Orbit(g, F), NEW i \in Nat, NEW p, Returns(g, i, p)
    PROVE  \A n \in Nat : g[i + n] = g[i + (n % p)]
  <1> SUFFICES ASSUME NEW n \in Nat PROVE g[i + n] = g[i + (n % p)]
    OBVIOUS
  <1> DEFINE j == i + p
  <1>1. p \in Nat \ {0} /\ j \in Nat /\ Meets(g, j, g, i)
    BY DEF Returns, Meets
  <1> HIDE DEF j
  <1>2. \A m \in Nat : g[j + m] = g[i + m]
    BY <1>1, OrbitsMeet
  <1> DEFINE S == {k \in Nat : \A m \in Nat : g[i + (m + k * p)] = g[i + m]}
  <1>3. 0 \in S
    BY <1>1
  <1>4. ASSUME NEW k \in Nat, k \in S PROVE k + 1 \in S
    <2> SUFFICES ASSUME NEW m \in Nat PROVE g[i + (m + (k + 1) * p)] = g[i + m]
      OBVIOUS
    <2>1. k * p \in Nat /\ (k + 1) * p = k * p + p
      BY <1>1
    <2>2. m + k * p \in Nat /\ i + (m + (k * p + p)) = j + (m + k * p)
      BY <1>1, <2>1 DEF j
    <2> QED
      BY <1>2, <1>4, <2>1, <2>2
  <1>5. \A k \in Nat : k \in S
    <2> HIDE DEF S
    <2> QED
      BY <1>3, <1>4, SetInduction
  <1> DEFINE t == n \div p
             m == n % p
  <1>6. t \in Int /\ m \in 0..(p - 1) /\ n = p * t + m
    BY <1>1
  <1> HIDE DEF t, m
  <1>7. t \in Nat
    <2> SUFFICES ASSUME t <= -1 PROVE FALSE
      BY <1>6
    <2>1. p * t <= p * (-1)
      BY <1>1, <1>6
    <2> QED
      BY <1>1, <1>6, <2>1
  <1>8. n = m + t * p /\ m \in Nat
    BY <1>1, <1>6, <1>7
  <1> QED
    BY <1>5, <1>7, <1>8 DEF m
=============================================================================
