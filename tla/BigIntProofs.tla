---------------------------- MODULE BigIntProofs ----------------------------
(***************************************************************************)
(* The arithmetic of BigInt is that of the integers, for limbs of any      *)
(* width and numbers of any length; and what BigIntText writes is read     *)
(* back as it was, and refused when its end is missing, whatever the       *)
(* numbers and the names.                                                  *)
(*                                                                         *)
(* The parser is proved about in two parts.  First where it stops: what it *)
(* reads of a text that breaks off it reads the same of the whole text, so *)
(* an object read of the beginning of a text ends there in the whole text  *)
(* too.  Then what it reads: a part stands in a text at a place, and       *)
(* Yields says that it is read there as a value, from the characters of a  *)
(* figure or a string to the machine.                                      *)
(***************************************************************************)
EXTENDS BigIntText, Recursion

-----------------------------------------------------------------------------
(* Arithmetic *)

LEMMA FrontType ==
    ASSUME NEW S, NEW s \in Seq(S), NEW k \in 0..Len(s)
    PROVE  /\ SubSeq(s, 1, k) \in Seq(S) /\ Len(SubSeq(s, 1, k)) = k
           /\ \A j \in 1..k : SubSeq(s, 1, k)[j] = s[j]
  OBVIOUS

LEMMA Entries ==
    ASSUME NEW S, NEW a \in Seq(S), NEW i \in 1..Len(a)
    PROVE  a[i] \in S
  OBVIOUS

LEMMA Quotients == \A x \in Nat, d \in Nat \ {0} : x \div d \in Nat
  OBVIOUS

LEMMA Products ==
    /\ \A x, y \in Nat : x * y \in Nat
    /\ \A x, y \in Int : x * y \in Int
  OBVIOUS

LEMMA Distribute ==
    ASSUME NEW x \in Int, NEW y \in Int, NEW z \in Int
    PROVE  (x + y) * z = x * z + y * z /\ (x - y) * z = x * z - y * z
  OBVIOUS

LEMMA Associate ==
    ASSUME NEW x \in Int, NEW y \in Int, NEW z \in Int
    PROVE  x * (y * z) = (x * y) * z /\ x * y = y * x
  OBVIOUS

\* Division by a positive number.
LEMMA Division ==
    ASSUME NEW n \in Int, NEW d \in Nat \ {0}
    PROVE  /\ n \div d \in Int /\ n % d \in 0..(d - 1)
           /\ n = d * (n \div d) + (n % d)
  OBVIOUS

\* Quotient and remainder are the only such pair.
LEMMA DivisionOf ==
    ASSUME NEW n \in Int, NEW d \in Nat \ {0}, NEW q \in Int, NEW r \in 0..(d - 1),
           n = d * q + r
    PROVE  n \div d = q /\ n % d = r
  OBVIOUS

-----------------------------------------------------------------------------
(* Loops and recursion *)

\* A set that has each element of S whenever it has all of lower measure.
LEMMA MeasuredInduction ==
    ASSUME NEW S, NEW measure \in [S -> Nat], NEW M,
           \A s \in S : (\A r \in S : measure[r] < measure[s] => r \in M) => s \in M
    PROVE  \A s \in S : s \in M
  <1> DEFINE T == {n \in Nat : \A s \in S : measure[s] < n => s \in M}
  <1>1. 0 \in T
    OBVIOUS
  <1>2. ASSUME NEW n \in Nat, n \in T PROVE n + 1 \in T
    <2> SUFFICES ASSUME NEW s \in S, measure[s] < n + 1 PROVE s \in M
      OBVIOUS
    <2>1. ASSUME NEW r \in S, measure[r] < measure[s] PROVE r \in M
      <3>1. measure[r] \in Nat /\ measure[s] \in Nat
        OBVIOUS
      <3>2. measure[r] < n
        BY <2>1, <3>1
      <3> QED
        BY <3>2, <1>2
    <2> QED
      BY <2>1
  <1>3. \A n \in Nat : n \in T
    <2> HIDE DEF T
    <2> QED
      BY <1>1, <1>2, SetInduction
  <1>4. ASSUME NEW s \in S PROVE s \in M
    <2>1. measure[s] + 1 \in T /\ measure[s] \in Nat
      BY <1>3
    <2> QED
      BY <2>1
  <1> QED
    BY <1>4

LEMMA LoopRuns ==
    ASSUME NEW A, NEW c \in A, NEW F \in [Nat -> [A -> A]]
    PROVE  Loop(c, F) \in [Nat -> A] /\ Runs(Loop(c, F), c, F)
  <1> DEFINE Solves(x) == x = [n \in Nat |-> IF n = 0 THEN c ELSE F[n - 1][x[n - 1]]]
  <1>1. PICK g \in [Nat -> A] : Runs(g, c, F)
    BY PrimitiveRecursion
  <1>2. Solves(g)
    <2>1. ASSUME NEW n \in Nat
          PROVE  g[n] = IF n = 0 THEN c ELSE F[n - 1][g[n - 1]]
      <3>1. CASE n = 0
        BY <1>1, <3>1 DEF Runs
      <3>2. CASE n # 0
        <4>1. n - 1 \in Nat /\ (n - 1) + 1 = n
          BY <3>2
        <4> QED
          BY <1>1, <3>2, <4>1 DEF Runs
      <3> QED
        BY <3>1, <3>2
    <2> QED
      BY <2>1
  <1> DEFINE x == Loop(c, F)
  <1>3. Solves(x)
    <2>1. x = CHOOSE y : Solves(y)
      BY DEF Loop
    <2> HIDE DEF x, Solves
    <2> QED
      BY <1>2, <2>1
  <1>4. x[0] = c
    BY <1>3
  <1>5. ASSUME NEW n \in Nat PROVE x[n + 1] = F[n][x[n]]
    <2>1. n + 1 \in Nat /\ n + 1 # 0 /\ (n + 1) - 1 = n
      OBVIOUS
    <2> HIDE DEF x
    <2> QED
      BY <1>3, <2>1
  <1>6. DOMAIN x = Nat /\ x = [n \in Nat |-> x[n]]
    <2> HIDE DEF x
    <2> QED
      BY <1>3
  <1> HIDE DEF x
  <1> DEFINE S == {n \in Nat : x[n] \in A}
  <1>7. 0 \in S
    BY <1>4
  <1>8. ASSUME NEW n \in Nat, n \in S PROVE n + 1 \in S
    BY <1>5, <1>8
  <1>9. \A n \in Nat : n \in S
    <2> HIDE DEF S
    <2> QED
      BY <1>7, <1>8, SetInduction
  <1>10. x \in [Nat -> A]
    BY <1>6, <1>9
  <1> QED
    BY <1>4, <1>5, <1>10 DEF Runs, x

\* The powers of b.
LEMMA PowersRun ==
    ASSUME NEW b \in Int
    PROVE  /\ Powers(b) \in [Nat -> Int]
           /\ Powers(b)[0] = 1
           /\ \A i \in Nat : Powers(b)[i + 1] = b * Powers(b)[i]
  <1> DEFINE A == Int
             F == [i \in Nat |-> [w \in Int |-> b * w]]
  <1>1. F \in [Nat -> [A -> A]] /\ 1 \in A
    OBVIOUS
  <1>2. Powers(b) = Loop(1, F)
    BY DEF Powers
  <1>3. Powers(b) \in [Nat -> A] /\ Runs(Powers(b), 1, F)
    <2> HIDE DEF F, A
    <2> QED
      BY <1>1, <1>2, LoopRuns
  <1> QED
    BY <1>3 DEF Runs

LEMMA PowersPositive ==
    ASSUME NEW b \in Nat \ {0}
    PROVE  Powers(b) \in [Nat -> Nat \ {0}]
  <1> DEFINE P == Powers(b)
             S == {i \in Nat : P[i] \in Nat \ {0}}
  <1>0. P \in [Nat -> Int] /\ P[0] = 1 /\ \A i \in Nat : P[i + 1] = b * P[i]
    BY PowersRun
  <1> HIDE DEF P
  <1>1. 0 \in S
    BY <1>0
  <1>2. ASSUME NEW i \in Nat, i \in S PROVE i + 1 \in S
    <2>1. b * P[i] \in Nat \ {0}
      BY <1>2
    <2> QED
      BY <1>0, <2>1
  <1>3. \A i \in Nat : i \in S
    <2> HIDE DEF S
    <2> QED
      BY <1>1, <1>2, SetInduction
  <1> QED
    BY <1>0, <1>3 DEF P

LEMMA PowersAdd ==
    ASSUME NEW b \in Int, NEW i \in Nat
    PROVE  \A j \in Nat : Powers(b)[i + j] = Powers(b)[i] * Powers(b)[j]
  <1> DEFINE P == Powers(b)
             S == {j \in Nat : P[i + j] = P[i] * P[j]}
  <1>1. P \in [Nat -> Int] /\ P[0] = 1 /\ \A k \in Nat : P[k + 1] = b * P[k]
    BY PowersRun
  <1> HIDE DEF P
  <1>2. 0 \in S
    BY <1>1
  <1>3. ASSUME NEW j \in Nat, j \in S PROVE j + 1 \in S
    <2>1. i + j \in Nat /\ i + (j + 1) = (i + j) + 1
      OBVIOUS
    <2>2. P[i + (j + 1)] = b * (P[i] * P[j])
      BY <1>1, <1>3, <2>1
    <2>3. P[i] \in Int /\ P[j] \in Int /\ P[j + 1] = b * P[j]
      BY <1>1
    <2>4. b * (P[i] * P[j]) = P[i] * (b * P[j])
      BY <2>3
    <2> QED
      BY <2>2, <2>3, <2>4
  <1>4. \A j \in Nat : j \in S
    <2> HIDE DEF S
    <2> QED
      BY <1>2, <1>3, SetInduction
  <1> QED
    BY <1>4 DEF P

-----------------------------------------------------------------------------
(* Positional notation *)

LEMMA PositionalRuns ==
    ASSUME NEW b \in Int, NEW d \in [Nat -> Int]
    PROVE  /\ Positional(b, d) \in [Nat -> Int]
           /\ Positional(b, d)[0] = 0
           /\ \A i \in Nat :
                 Positional(b, d)[i + 1] = Positional(b, d)[i] + d[i] * Powers(b)[i]
  <1> DEFINE A == Int
             F == [i \in Nat |-> [v \in Int |-> v + d[i] * Powers(b)[i]]]
  <1>1. F \in [Nat -> [A -> A]] /\ 0 \in A
    <2> DEFINE P == Powers(b)
    <2>1. P \in [Nat -> Int]
      BY PowersRun
    <2> HIDE DEF P
    <2>2. ASSUME NEW i \in Nat PROVE [v \in Int |-> v + d[i] * P[i]] \in [Int -> Int]
      <3>1. d[i] * P[i] \in Int
        BY <2>1
      <3> QED
        BY <3>1
    <2> QED
      BY <2>2 DEF P
  <1>2. Positional(b, d) = Loop(0, F)
    BY DEF Positional
  <1>3. Positional(b, d) \in [Nat -> A] /\ Runs(Positional(b, d), 0, F)
    <2> HIDE DEF F, A
    <2> QED
      BY <1>1, <1>2, LoopRuns
  <1> QED
    BY <1>3 DEF Runs

\* Digits below the base give a number below the power of the base.
LEMMA PositionalBounded ==
    ASSUME NEW b \in Nat \ {0}, NEW d \in [Nat -> Int], NEW m \in Nat,
           \A i \in Nat : i < m => d[i] \in 0..(b - 1)
    PROVE  \A n \in 0..m : Positional(b, d)[n] \in 0..(Powers(b)[n] - 1)
  <1> DEFINE P == Powers(b)
             V == Positional(b, d)
             S == {n \in Nat : V[n] \in 0..(P[n] - 1)}
  <1>1. /\ P \in [Nat -> Nat \ {0}] /\ P[0] = 1
        /\ \A k \in Nat : P[k + 1] = b * P[k]
    BY PowersRun, PowersPositive
  <1>2. V \in [Nat -> Int] /\ V[0] = 0 /\ \A i \in Nat : V[i + 1] = V[i] + d[i] * P[i]
    BY PositionalRuns
  <1> HIDE DEF P, V
  <1>3. 0 \in S
    <2>1. V[0] \in 0..(P[0] - 1)
      BY <1>1, <1>2
    <2> QED
      BY <2>1
  <1>4. ASSUME NEW n \in Nat, n < m, n \in S PROVE n + 1 \in S
    <2> DEFINE x == d[n]
               p == P[n]
    <2>1. x \in Nat /\ x <= b - 1 /\ p \in Nat /\ V[n] \in Nat /\ V[n] <= p - 1
      BY <1>1, <1>4
    <2>2. x * p \in Nat /\ x * p <= (b - 1) * p /\ (b - 1) * p = b * p - p
      BY <2>1
    <2>3. V[n + 1] = V[n] + x * p /\ P[n + 1] = b * p
      BY <1>1, <1>2
    <2> HIDE DEF x, p
    <2> QED
      BY <2>1, <2>2, <2>3
  <1>5. \A n \in 0..m : n \in S
    <2> HIDE DEF S
    <2> QED
      BY <1>3, <1>4, BoundedInduction
  <1> QED
    BY <1>5 DEF P, V

\* Only the digits counted matter.
LEMMA PositionalAgrees ==
    ASSUME NEW b \in Int, NEW d \in [Nat -> Int], NEW e \in [Nat -> Int], NEW m \in Nat,
           \A i \in Nat : i < m => d[i] = e[i]
    PROVE  Positional(b, d)[m] = Positional(b, e)[m]
  <1> DEFINE P == Powers(b)
             V == Positional(b, d)
             W == Positional(b, e)
             S == {n \in Nat : V[n] = W[n]}
  <1>1. V \in [Nat -> Int] /\ V[0] = 0 /\ \A i \in Nat : V[i + 1] = V[i] + d[i] * P[i]
    BY PositionalRuns
  <1>2. W \in [Nat -> Int] /\ W[0] = 0 /\ \A i \in Nat : W[i + 1] = W[i] + e[i] * P[i]
    BY PositionalRuns
  <1> HIDE DEF P, V, W
  <1>3. 0 \in S
    BY <1>1, <1>2
  <1>4. ASSUME NEW n \in Nat, n < m, n \in S PROVE n + 1 \in S
    BY <1>1, <1>2, <1>4
  <1>5. \A n \in 0..m : n \in S
    <2> HIDE DEF S
    <2> QED
      BY <1>3, <1>4, BoundedInduction
  <1> QED
    BY <1>5 DEF V, W

\* Zeros in front change nothing.
LEMMA PositionalBeyond ==
    ASSUME NEW b \in Int, NEW d \in [Nat -> Int], NEW m \in Nat,
           \A i \in Nat : i >= m => d[i] = 0
    PROVE  \A n \in Nat : n >= m => Positional(b, d)[n] = Positional(b, d)[m]
  <1> DEFINE P == Powers(b)
             V == Positional(b, d)
             S == {k \in Nat : V[m + k] = V[m]}
  <1>1. V \in [Nat -> Int] /\ V[0] = 0 /\ \A i \in Nat : V[i + 1] = V[i] + d[i] * P[i]
    BY PositionalRuns
  <1>2. P \in [Nat -> Int]
    BY PowersRun
  <1> HIDE DEF P, V
  <1>3. 0 \in S
    OBVIOUS
  <1>4. ASSUME NEW k \in Nat, k \in S PROVE k + 1 \in S
    <2>1. m + k \in Nat /\ m + k >= m /\ m + (k + 1) = (m + k) + 1
      OBVIOUS
    <2>2. d[m + k] = 0 /\ 0 * P[m + k] = 0
      BY <1>2, <2>1
    <2> QED
      BY <1>1, <1>4, <2>1, <2>2
  <1>5. \A k \in Nat : k \in S
    <2> HIDE DEF S
    <2> QED
      BY <1>3, <1>4, SetInduction
  <1>6. ASSUME NEW n \in Nat, n >= m PROVE V[n] = V[m]
    <2>1. n - m \in Nat /\ m + (n - m) = n
      BY <1>6
    <2> QED
      BY <1>5, <2>1
  <1> QED
    BY <1>6 DEF V

\* Powers of a positive base grow.
LEMMA PowersGrow ==
    ASSUME NEW b \in Nat \ {0}, NEW i \in Nat, NEW j \in Nat, i <= j
    PROVE  Powers(b)[i] <= Powers(b)[j]
  <1> DEFINE P == Powers(b)
  <1>1. P \in [Nat -> Nat \ {0}]
    BY PowersPositive
  <1>2. j - i \in Nat /\ i + (j - i) = j
    OBVIOUS
  <1>3. P[i + (j - i)] = P[i] * P[j - i]
    BY <1>2, PowersAdd
  <1> HIDE DEF P
  <1>4. P[i] \in Nat /\ P[j - i] \in Nat /\ P[j - i] >= 1
    BY <1>1, <1>2
  <1>5. P[i] * P[j - i] >= P[i]
    BY <1>4
  <1> QED
    BY <1>2, <1>3, <1>5 DEF P

\* Long division from the top digit in any base: the remainder so far, with the
\* next digit, is a digit of the quotient and the next remainder.
Longhand(b, e, n, D, q, r) ==
    /\ b \in Nat \ {0} /\ D \in Int /\ n \in Nat
    /\ e \in [Nat -> Int] /\ q \in [Nat -> Int] /\ r \in [Nat -> Int]
    /\ r[0] = 0
    /\ \A k \in Nat : k < n => r[k] * b + e[n - 1 - k] = D * q[n - 1 - k] + r[k + 1]
Divided(b, e, n, D, q, r) ==
    Positional(b, e)[n] = D * Positional(b, q)[n] + r[n]

LEMMA Schoolbook ==
    ASSUME NEW b, NEW e, NEW n, NEW D, NEW q, NEW r, Longhand(b, e, n, D, q, r)
    PROVE  Divided(b, e, n, D, q, r)
  <1> DEFINE P == Powers(b)
             V == Positional(b, e)
             Q == Positional(b, q)
             v == V[n]
             u == Q[n]
             S == {k \in Nat : v - V[n - k] = D * (u - Q[n - k]) + r[k] * P[n - k]}
  <1>0. /\ b \in Nat \ {0} /\ D \in Int /\ n \in Nat
        /\ e \in [Nat -> Int] /\ q \in [Nat -> Int] /\ r \in [Nat -> Int]
    BY DEF Longhand
  <1> USE <1>0
  <1>1. P \in [Nat -> Nat \ {0}] /\ P[0] = 1 /\ \A i \in Nat : P[i + 1] = b * P[i]
    <2>1. P \in [Nat -> Nat \ {0}]
      BY PowersPositive
    <2>2. b \in Int
      OBVIOUS
    <2>3. P[0] = 1 /\ \A i \in Nat : P[i + 1] = b * P[i]
      BY <2>2, PowersRun
    <2> QED
      BY <2>1, <2>3
  <1>2. V \in [Nat -> Int] /\ V[0] = 0 /\ \A i \in Nat : V[i + 1] = V[i] + e[i] * P[i]
    BY PositionalRuns
  <1>3. Q \in [Nat -> Int] /\ Q[0] = 0 /\ \A i \in Nat : Q[i + 1] = Q[i] + q[i] * P[i]
    BY PositionalRuns
  <1> HIDE DEF P, V, Q
  <1>4. v \in Int /\ u \in Int
    BY <1>2, <1>3
  <1>5. 0 \in S
    <2>1. n - 0 = n
      OBVIOUS
    <2>2. v - V[n] = 0 /\ u - Q[n] = 0
      BY <1>4
    <2>3. D * 0 = 0 /\ 0 * P[n] = 0
      BY <1>1
    <2>4. r[0] = 0
      BY DEF Longhand
    <2>5. v - V[n - 0] = D * (u - Q[n - 0]) + r[0] * P[n - 0]
      BY <2>1, <2>2, <2>3, <2>4
    <2> QED
      BY <2>5
  <1>6. ASSUME NEW k \in Nat, k < n, k \in S PROVE k + 1 \in S
    <2> DEFINE i == n - 1 - k
               y == e[i]
               z == q[i]
               w == P[i]
               x == r[k]
               p == r[k + 1]
               vi == V[i]
               ui == Q[i]
    <2>1. i \in Nat /\ n - k = i + 1 /\ n - (k + 1) = i
      BY <1>6
    <2>2. x * b + y = D * z + p
      BY <1>6 DEF Longhand
    <2> HIDE DEF i
    <2>3. /\ V[i + 1] = vi + y * w /\ Q[i + 1] = ui + z * w /\ P[i + 1] = b * w
          /\ y \in Int /\ z \in Int /\ w \in Int /\ x \in Int /\ p \in Int
          /\ vi \in Int /\ ui \in Int
      <3>1. V[i + 1] = vi + y * w /\ Q[i + 1] = ui + z * w /\ P[i + 1] = b * w
        BY <1>1, <1>2, <1>3, <2>1
      <3>2. vi \in Int /\ ui \in Int /\ w \in Int
        <4>1. V \in [Nat -> Int] /\ Q \in [Nat -> Int] /\ P \in [Nat -> Nat \ {0}]
          BY <1>1, <1>2, <1>3
        <4> QED
          BY <2>1, <4>1
      <3>3. y \in Int /\ z \in Int /\ x \in Int /\ p \in Int
        BY <2>1
      <3> QED
        BY <3>1, <3>2, <3>3
    <2>4. v - V[i + 1] = D * (u - Q[i + 1]) + x * P[i + 1]
      BY <1>6, <2>1
    <2>5. v - (vi + y * w) = D * (u - (ui + z * w)) + x * (b * w)
      BY <2>3, <2>4
    <2> HIDE DEF y, z, w, x, p, vi, ui, v, u
    <2>6. (x * b) * w + y * w = (D * z) * w + p * w
      <3> DEFINE A == x * b
                 B == D * z
      <3>1. A \in Int /\ B \in Int /\ A + y = B + p
        BY <2>2, <2>3
      <3> HIDE DEF A, B
      <3>2. (A + y) * w = A * w + y * w /\ (B + p) * w = B * w + p * w
        BY <2>3, <3>1, Distribute
      <3> QED
        BY <3>1, <3>2 DEF A, B
    <2>7. D * (u - (ui + z * w)) = D * (u - ui) - (D * z) * w
      <3>1. (D * z) * w = D * (z * w)
        BY <2>3
      <3> DEFINE A == z * w
      <3>2. A \in Int
        BY <2>3
      <3> HIDE DEF A
      <3>3. D * (u - (ui + A)) = D * (u - ui) - D * A
        BY <1>4, <2>3, <3>2
      <3> QED
        BY <3>1, <3>3 DEF A
    <2>8. x * (b * w) = (x * b) * w
      BY <2>3
    <2>9. v - vi = D * (u - ui) + p * w
      <3> DEFINE A == y * w
                 B == D * (u - ui)
                 C == (D * z) * w
                 E == (x * b) * w
                 F == p * w
      <3>1. A \in Int /\ B \in Int /\ C \in Int /\ E \in Int /\ F \in Int
        <4>1. D * z \in Int /\ x * b \in Int /\ u - ui \in Int
          BY <1>4, <2>3
        <4> QED
          BY <2>3, <4>1, Products
      <3>2. v - (vi + A) = (B - C) + E /\ E + A = C + F
        BY <2>5, <2>6, <2>7, <2>8
      <3> HIDE DEF A, B, C, E, F
      <3>3. v - vi = B + F
        BY <1>4, <2>3, <3>1, <3>2
      <3> QED
        BY <3>3 DEF B, F
    <2> QED
      BY <2>1, <2>9 DEF vi, ui, p, w
  <1>7. n \in S
    <2>1. \A k \in 0..n : k \in S
      <3> HIDE DEF S
      <3> QED
        BY <1>5, <1>6, BoundedInduction
    <2> QED
      BY <2>1
  <1>8. v - 0 = D * (u - 0) + r[n] * 1
    <2>1. n - n = 0
      OBVIOUS
    <2>2. v - V[0] = D * (u - Q[0]) + r[n] * P[0]
      BY <1>7, <2>1
    <2> QED
      BY <1>1, <1>2, <1>3, <2>2
  <1>9. v = D * u + r[n]
    <2> DEFINE x == r[n]
    <2>1. x \in Int
      OBVIOUS
    <2> HIDE DEF v, u, x
    <2>2. v - 0 = D * (u - 0) + x * 1
      BY <1>8 DEF x
    <2>3. v = D * u + x
      BY <1>4, <2>1, <2>2
    <2> QED
      BY <2>3 DEF x
  <1> QED
    BY <1>9 DEF V, Q, Divided

\* The digits from i on stand for the powers from i on.
LEMMA PositionalSplits ==
    ASSUME NEW b \in Int, NEW e \in [Nat -> Int], NEW i \in Nat
    PROVE  \A j \in Nat :
              Positional(b, e)[i + j]
                  = Positional(b, e)[i] + Positional(b, [k \in Nat |-> e[i + k]])[j] * Powers(b)[i]
  <1> DEFINE P == Powers(b)
             V == Positional(b, e)
             f == [k \in Nat |-> e[i + k]]
             U == Positional(b, f)
             w == P[i]
             S == {j \in Nat : V[i + j] = V[i] + U[j] * w}
  <1>0. f \in [Nat -> Int] /\ \A k \in Nat : f[k] = e[i + k]
    OBVIOUS
  <1>1. P \in [Nat -> Int] /\ \A j \in Nat : P[i + j] = w * P[j]
    BY PowersRun, PowersAdd
  <1>2. V \in [Nat -> Int] /\ \A k \in Nat : V[k + 1] = V[k] + e[k] * P[k]
    BY PositionalRuns
  <1> HIDE DEF f
  <1>3. U \in [Nat -> Int] /\ U[0] = 0 /\ \A k \in Nat : U[k + 1] = U[k] + f[k] * P[k]
    BY <1>0, PositionalRuns
  <1> HIDE DEF P, V, U
  <1>4. w \in Int
    BY <1>1
  <1> HIDE DEF w
  <1>5. 0 \in S
    <2>1. 0 * w = 0 /\ i + 0 = i /\ V[i] \in Int
      BY <1>2, <1>4
    <2> QED
      BY <1>3, <2>1
  <1>6. ASSUME NEW j \in Nat, j \in S PROVE j + 1 \in S
    <2> DEFINE k == i + j
               y == e[k]
               v == P[j]
               u == U[j]
    <2>1. k \in Nat /\ i + (j + 1) = k + 1
      OBVIOUS
    <2>2. V[k + 1] = V[k] + y * P[k] /\ P[k] = w * v /\ U[j + 1] = u + y * v
      BY <1>0, <1>1, <1>2, <1>3, <2>1
    <2>3. y \in Int /\ v \in Int /\ u \in Int /\ V[i] \in Int
      BY <1>1, <1>2, <1>3, <2>1
    <2>4. V[k] = V[i] + u * w
      BY <1>6
    <2> HIDE DEF k, y, v, u
    <2>5. (u + y * v) * w = u * w + y * (w * v) /\ u * w \in Int /\ y * (w * v) \in Int
      <3> DEFINE A == y * v
      <3>1. A \in Int /\ A * w = y * (w * v)
        BY <1>4, <2>3
      <3> HIDE DEF A
      <3>2. (u + A) * w = u * w + A * w /\ A * w \in Int /\ u * w \in Int
        BY <1>4, <2>3, <3>1, Distribute, Products
      <3> QED
        BY <3>1, <3>2 DEF A
    <2>6. V[k + 1] = V[i] + (u + y * v) * w
      <3> DEFINE A == u * w
                 B == y * (w * v)
                 C == (u + y * v) * w
                 X == V[i]
                 Y == V[k]
      <3>1. X \in Int /\ A \in Int /\ B \in Int /\ C = A + B /\ Y = X + A /\ V[k + 1] = Y + B
        BY <2>2, <2>3, <2>4, <2>5
      <3> HIDE DEF A, B, C, X, Y
      <3>2. V[k + 1] = X + C
        BY <3>1
      <3> QED
        BY <3>2 DEF X, C
    <2> QED
      BY <2>1, <2>2, <2>6
  <1>7. \A j \in Nat : j \in S
    <2> HIDE DEF S
    <2> QED
      BY <1>5, <1>6, SetInduction
  <1> QED
    BY <1>7 DEF V, U, f, P, w

-----------------------------------------------------------------------------
(* Magnitudes and their values *)

Words == Seq(0..(Limb - 1))
LimbsOf(a) == [i \in Nat |-> At(a, i)]
Up(a) == Positional(Limb, LimbsOf(a))   \* the value of the limbs up to each
Val(a) == Up(a)[Len(a)]
Weight == Powers(Limb)

LEMMA LimbType ==
    /\ Bits \in Nat \ {0} /\ Limb \in Nat /\ Limb >= 2 /\ Limb = Powers(2)[Bits]
  <1>1. Bits \in Nat \ {0} /\ Bits = 2 * HalfBits
    BY BigIntAssumption DEF Bits
  <1>2. Limb = Powers(2)[Bits]
    BY <1>1, PowAssumption DEF Limb
  <1>3. Powers(2) \in [Nat -> Nat \ {0}] /\ \A i \in Nat : Powers(2)[i + 1] = 2 * Powers(2)[i]
    BY PowersRun, PowersPositive
  <1>4. Bits - 1 \in Nat /\ (Bits - 1) + 1 = Bits
    BY <1>1
  <1>5. Powers(2)[Bits] = 2 * Powers(2)[Bits - 1] /\ Powers(2)[Bits - 1] \in Nat \ {0}
    BY <1>3, <1>4
  <1> QED
    BY <1>1, <1>2, <1>5

LEMMA WeightRuns ==
    /\ Weight \in [Nat -> Nat \ {0}] /\ Weight[0] = 1
    /\ \A i \in Nat : Weight[i + 1] = Limb * Weight[i]
  <1>1. Limb \in Nat \ {0} /\ Limb \in Int
    BY LimbType
  <1>2. Powers(Limb) \in [Nat -> Nat \ {0}]
    BY <1>1, PowersPositive
  <1>3. Powers(Limb)[0] = 1 /\ \A i \in Nat : Powers(Limb)[i + 1] = Limb * Powers(Limb)[i]
    BY <1>1, PowersRun
  <1> QED
    BY <1>2, <1>3 DEF Weight

LEMMA AtNatural ==
    ASSUME NEW a \in Seq(Nat), NEW i \in Nat
    PROVE  At(a, i) \in Nat
  BY DEF At

LEMMA AtType ==
    ASSUME NEW a \in Words, NEW i \in Int
    PROVE  At(a, i) \in 0..(Limb - 1)
  BY LimbType DEF At, Words

LEMMA WordsAreNaturals == Words \subseteq Seq(Nat) /\ Magnitudes \subseteq Words
  BY LimbType DEF Words, Magnitudes

LEMMA UpRuns ==
    ASSUME NEW a \in Seq(Nat)
    PROVE  /\ LimbsOf(a) \in [Nat -> Int]
           /\ Up(a) \in [Nat -> Int] /\ Up(a)[0] = 0
           /\ \A i \in Nat : Up(a)[i + 1] = Up(a)[i] + At(a, i) * Weight[i]
           /\ \A n \in Nat : n >= Len(a) => Up(a)[n] = Val(a)
           /\ Val(a) \in Int
  <1> DEFINE d == LimbsOf(a)
  <1>1. d \in [Nat -> Int] /\ \A i \in Nat : d[i] = At(a, i)
    <2>1. ASSUME NEW i \in Nat PROVE At(a, i) \in Int
      BY AtNatural
    <2> QED
      BY <2>1 DEF LimbsOf
  <1>2. \A i \in Nat : i >= Len(a) => d[i] = 0
    BY <1>1 DEF At
  <1>3. Up(a) = Positional(Limb, d)
    BY DEF Up
  <1>4. Limb \in Int /\ Len(a) \in Nat
    BY LimbType
  <1> HIDE DEF d
  <1>5. /\ Up(a) \in [Nat -> Int] /\ Up(a)[0] = 0
        /\ \A i \in Nat : Up(a)[i + 1] = Up(a)[i] + d[i] * Weight[i]
    <2> DEFINE P == Positional(Limb, d)
    <2>1. /\ P \in [Nat -> Int] /\ P[0] = 0
          /\ \A i \in Nat : P[i + 1] = P[i] + d[i] * Powers(Limb)[i]
      BY <1>1, <1>4, PositionalRuns
    <2> HIDE DEF P
    <2> QED
      BY <1>3, <2>1 DEF P, Weight
  <1>6. \A n \in Nat : n >= Len(a) => Up(a)[n] = Up(a)[Len(a)]
    <2>1. \A n \in Nat : n >= Len(a) => Positional(Limb, d)[n] = Positional(Limb, d)[Len(a)]
      BY <1>1, <1>2, <1>4, PositionalBeyond
    <2> QED
      BY <1>3, <2>1
  <1> QED
    BY <1>1, <1>4, <1>5, <1>6 DEF Val, d

\* A number of n limbs is below the power n of the base.
LEMMA UpBounded ==
    ASSUME NEW a \in Words, NEW n \in Nat
    PROVE  Up(a)[n] \in 0..(Weight[n] - 1)
  <1> DEFINE d == LimbsOf(a)
  <1>1. d \in [Nat -> Int] /\ \A i \in Nat : d[i] \in 0..(Limb - 1)
    <2>1. ASSUME NEW i \in Nat PROVE At(a, i) \in 0..(Limb - 1)
      BY AtType
    <2>2. \A x \in 0..(Limb - 1) : x \in Int
      BY LimbType
    <2> QED
      BY <2>1, <2>2 DEF LimbsOf
  <1>2. Limb \in Nat \ {0}
    BY LimbType
  <1> HIDE DEF d
  <1>3. \A k \in 0..n : Positional(Limb, d)[k] \in 0..(Powers(Limb)[k] - 1)
    BY <1>1, <1>2, PositionalBounded
  <1> QED
    BY <1>3 DEF Up, Weight, d

LEMMA ValBounded ==
    ASSUME NEW a \in Words
    PROVE  Val(a) \in Nat /\ Val(a) < Weight[Len(a)]
  <1>1. Len(a) \in Nat
    BY DEF Words
  <1>2. Up(a)[Len(a)] \in 0..(Weight[Len(a)] - 1) /\ Weight[Len(a)] \in Nat
    BY <1>1, UpBounded, WeightRuns
  <1> QED
    BY <1>2 DEF Val

LEMMA EmptyVal == Val(<<>>) = 0 /\ <<>> \in Magnitudes
  <1>1. <<>> \in Seq(Nat) /\ Len(<<>>) = 0
    OBVIOUS
  <1>2. Up(<<>>)[0] = 0
    BY <1>1, UpRuns
  <1>3. <<>> \in Magnitudes
    BY DEF Magnitudes
  <1> QED
    BY <1>1, <1>2, <1>3 DEF Val

\* Without a leading zero it is no less than the power n - 1.
LEMMA TopCounts ==
    ASSUME NEW a \in Magnitudes, a # <<>>
    PROVE  Len(a) - 1 \in Nat /\ Val(a) >= Weight[Len(a) - 1] /\ Val(a) > 0
  <1> DEFINE n == Len(a) - 1
  <1>1. a \in Words /\ a \in Seq(Nat)
    BY WordsAreNaturals
  <1>2. n \in Nat /\ Len(a) = n + 1
    BY <1>1
  <1>3. At(a, n) \in Nat /\ At(a, n) >= 1
    BY <1>1, <1>2 DEF At, Magnitudes, Words
  <1> HIDE DEF n
  <1>4. Val(a) = Up(a)[n] + At(a, n) * Weight[n]
    BY <1>1, <1>2, UpRuns DEF Val
  <1>5. Up(a)[n] \in Nat /\ Weight[n] \in Nat /\ Weight[n] > 0
    <2>1. Up(a)[n] \in 0..(Weight[n] - 1)
      BY <1>1, <1>2, UpBounded
    <2>2. Weight[n] \in Nat \ {0}
      BY <1>2, WeightRuns
    <2> QED
      BY <2>1, <2>2
  <1>6. At(a, n) * Weight[n] >= Weight[n]
    BY <1>3, <1>5
  <1>7. At(a, n) * Weight[n] \in Nat
    BY <1>3, <1>5
  <1> QED
    BY <1>2, <1>4, <1>5, <1>6, <1>7 DEF n

\* Numbers of equal limbs up to n are equal up to n.
LEMMA UpAgrees ==
    ASSUME NEW a \in Seq(Nat), NEW b \in Seq(Nat), NEW n \in Nat,
           \A i \in 0..(n - 1) : At(a, i) = At(b, i)
    PROVE  Up(a)[n] = Up(b)[n]
  <1>1. LimbsOf(a) \in [Nat -> Int] /\ LimbsOf(b) \in [Nat -> Int]
    BY UpRuns
  <1>0. Limb \in Int
    BY LimbType
  <1>2. \A i \in Nat : i < n => LimbsOf(a)[i] = LimbsOf(b)[i]
    BY DEF LimbsOf
  <1> QED
    BY <1>0, <1>1, <1>2, PositionalAgrees DEF Up

\* Stripping leading zeros leaves the number.
LEMMA StripKeeps ==
    ASSUME NEW a \in Words
    PROVE  Strip(a) \in Magnitudes /\ Val(Strip(a)) = Val(a)
  <1> DEFINE L == Len(a)
             Cut(n) == /\ \A i \in (n + 1)..L : a[i] = 0
                       /\ n > 0 => a[n] # 0
             T == {k \in 0..L : \A i \in (k + 1)..L : a[i] = 0}
             m == CHOOSE n \in 0..L : Cut(n)
             t == SubSeq(a, 1, m)
  <1>1. L \in Nat /\ a \in Seq(Nat)
    BY WordsAreNaturals DEF Words
  <1>2. \E n \in 0..L : Cut(n)
    <2>1. T \in SUBSET Nat /\ L \in T
      BY <1>1
    <2>2. PICK n \in T : \A k \in T : ~(k < n)
      <3> HIDE DEF T
      <3> QED
        BY <2>1, LeastNatural
    <2>3. n \in 0..L /\ \A i \in (n + 1)..L : a[i] = 0
      BY <2>2
    <2>4. ASSUME n > 0, a[n] = 0 PROVE FALSE
      <3>1. n - 1 \in 0..L /\ n - 1 < n
        BY <1>1, <2>3, <2>4
      <3>2. \A i \in ((n - 1) + 1)..L : a[i] = 0
        BY <1>1, <2>3, <2>4
      <3> QED
        BY <2>2, <3>1, <3>2
    <2> QED
      BY <2>3, <2>4
  <1>3. m \in 0..L /\ Cut(m)
    BY <1>2
  <1>4. Strip(a) = t
    BY DEF Strip
  <1> HIDE DEF m
  <1>5. t \in Words /\ Len(t) = m /\ \A i \in 1..m : t[i] = a[i]
    <2> DEFINE S == 0..(Limb - 1)
    <2> HIDE DEF S
    <2>1. a \in Seq(S) /\ m \in 0..Len(a)
      BY <1>3 DEF Words, S
    <2>2. t \in Seq(S) /\ Len(t) = m /\ \A i \in 1..m : t[i] = a[i]
      BY <2>1, FrontType
    <2> QED
      BY <2>2 DEF Words, S
  <1> HIDE DEF t
  <1>6. t \in Magnitudes
    BY <1>3, <1>5 DEF Magnitudes, Words
  <1>7. \A i \in 0..(L - 1) : At(t, i) = At(a, i)
    BY <1>1, <1>3, <1>5 DEF At
  <1>8. t \in Seq(Nat) /\ L >= Len(t)
    BY <1>1, <1>3, <1>5, WordsAreNaturals
  <1>9. Up(t)[L] = Up(a)[L]
    BY <1>1, <1>7, <1>8, UpAgrees
  <1>10. Val(t) = Val(a)
    BY <1>1, <1>8, <1>9, UpRuns DEF Val
  <1> QED
    BY <1>4, <1>6, <1>10

-----------------------------------------------------------------------------
(* Comparison *)

LEMMA LessIsLess ==
    ASSUME NEW a \in Magnitudes, NEW b \in Magnitudes, LessMag(a, b)
    PROVE  Val(a) < Val(b)
  <1>1. /\ a \in Words /\ b \in Words /\ a \in Seq(Nat) /\ b \in Seq(Nat)
        /\ Len(a) \in Nat /\ Len(b) \in Nat
    BY WordsAreNaturals
  <1>2. CASE Len(a) < Len(b)
    <2>1. b # <<>> /\ Len(b) - 1 \in Nat /\ Len(a) <= Len(b) - 1
      BY <1>1, <1>2
    <2>2. Weight[Len(a)] <= Weight[Len(b) - 1]
      BY <1>1, <2>1, LimbType, PowersGrow DEF Weight
    <2>3. Val(b) >= Weight[Len(b) - 1]
      BY <2>1, TopCounts
    <2>4. /\ Val(a) \in Nat /\ Val(b) \in Nat /\ Val(a) < Weight[Len(a)]
          /\ Weight[Len(a)] \in Nat /\ Weight[Len(b) - 1] \in Nat
      BY <1>1, <2>1, ValBounded, WeightRuns
    <2> QED
      BY <2>2, <2>3, <2>4
  <1>3. ASSUME Len(a) = Len(b), NEW i \in 1..Len(a), a[i] < b[i],
               \A j \in (i + 1)..Len(a) : a[j] = b[j]
        PROVE  Val(a) < Val(b)
    <2> DEFINE k == i - 1
               S == {n \in Nat : Up(a)[k + 1 + n] < Up(b)[k + 1 + n]}
    <2>1. k \in Nat /\ k + 1 = i
      OBVIOUS
    <2>2. At(a, k) \in Nat /\ At(b, k) \in Nat /\ At(a, k) < At(b, k)
      <3>1. At(a, k) = a[i] /\ At(b, k) = b[i]
        BY <1>1, <1>3, <2>1 DEF At
      <3> QED
        BY <1>1, <1>3, <3>1
    <2>3. \A n \in Nat : At(a, k + 1 + n) = At(b, k + 1 + n)
      BY <1>1, <1>3, <2>1 DEF At
    <2>4. /\ Up(a) \in [Nat -> Int] /\ Up(b) \in [Nat -> Int]
          /\ \A n \in Nat : Up(a)[n + 1] = Up(a)[n] + At(a, n) * Weight[n]
          /\ \A n \in Nat : Up(b)[n + 1] = Up(b)[n] + At(b, n) * Weight[n]
          /\ \A n \in Nat : At(a, n) * Weight[n] \in Int
      <3>1. /\ Up(a) \in [Nat -> Int]
            /\ \A n \in Nat : Up(a)[n + 1] = Up(a)[n] + At(a, n) * Weight[n]
        BY <1>1, UpRuns
      <3>2. /\ Up(b) \in [Nat -> Int]
            /\ \A n \in Nat : Up(b)[n + 1] = Up(b)[n] + At(b, n) * Weight[n]
        BY <1>1, UpRuns
      <3>3. ASSUME NEW n \in Nat PROVE At(a, n) * Weight[n] \in Int
        <4>1. At(a, n) \in Nat
          BY <1>1, AtNatural
        <4>2. Weight[n] \in Nat
          BY WeightRuns
        <4> QED
          BY <4>1, <4>2
      <3> QED
        BY <3>1, <3>2, <3>3
    <2>5. 0 \in S
      <3> DEFINE w == Weight[k]
                 x == At(a, k)
                 y == At(b, k)
      <3>1. Up(a)[k + 1] = Up(a)[k] + x * w /\ Up(b)[k + 1] = Up(b)[k] + y * w
        BY <2>1, <2>4
      <3>2. Up(a)[k] \in 0..(w - 1) /\ Up(b)[k] \in 0..(Weight[k] - 1) /\ w \in Nat \ {0}
        BY <1>1, <2>1, UpBounded, WeightRuns
      <3>3. x + 1 <= y /\ x \in Nat /\ y \in Nat
        BY <2>2
      <3> HIDE DEF w, x, y
      <3>4. (x + 1) * w <= y * w /\ (x + 1) * w = x * w + w /\ x * w \in Nat /\ y * w \in Nat
        BY <3>2, <3>3
      <3>5. Up(a)[k + 1] < Up(b)[k + 1]
        BY <3>1, <3>2, <3>4
      <3> QED
        BY <2>1, <3>5
    <2>6. ASSUME NEW n \in Nat, n \in S PROVE n + 1 \in S
      <3> DEFINE q == k + 1 + n
                 x == At(a, q) * Weight[q]
      <3>1. q \in Nat /\ k + 1 + (n + 1) = q + 1 /\ At(a, q) = At(b, q) /\ Up(a)[q] < Up(b)[q]
        BY <2>1, <2>3, <2>6
      <3>2. /\ x \in Int /\ Up(a)[q] \in Int /\ Up(b)[q] \in Int
            /\ Up(a)[q + 1] = Up(a)[q] + x /\ Up(b)[q + 1] = Up(b)[q] + x
        <4> HIDE DEF q
        <4> QED
          BY <2>4, <3>1
      <3> HIDE DEF q, x
      <3>3. Up(a)[q + 1] < Up(b)[q + 1]
        BY <3>1, <3>2
      <3> QED
        BY <3>1, <3>3
    <2>7. \A n \in Nat : n \in S
      <3> HIDE DEF S
      <3> QED
        BY <2>5, <2>6, SetInduction
    <2>8. Len(a) - i \in Nat /\ k + 1 + (Len(a) - i) = Len(a)
      BY <1>1, <2>1
    <2>9. Up(a)[Len(a)] < Up(b)[Len(a)]
      BY <2>7, <2>8
    <2> QED
      BY <1>3, <2>9 DEF Val
  <1> QED
    BY <1>2, <1>3 DEF LessMag

\* Two magnitudes are equal or one is less.
LEMMA Trichotomy ==
    ASSUME NEW a \in Magnitudes, NEW b \in Magnitudes, a # b
    PROVE  LessMag(a, b) \/ LessMag(b, a)
  <1>1. /\ a \in Seq(Nat) /\ b \in Seq(Nat) /\ Len(a) \in Nat /\ Len(b) \in Nat
    BY WordsAreNaturals
  <1>2. CASE Len(a) # Len(b)
    BY <1>1, <1>2 DEF LessMag
  <1>3. CASE Len(a) = Len(b)
    <2> DEFINE L == Len(a)
               T == {k \in Nat : k < L /\ a[L - k] # b[L - k]}
    <2>1. PICK i \in 1..L : a[i] # b[i]
      BY <1>1, <1>3
    <2>2. T \in SUBSET Nat /\ L - i \in T
      <3>1. L - i \in Nat /\ L - i < L /\ L - (L - i) = i
        BY <1>1
      <3> QED
        BY <2>1, <3>1
    <2>3. PICK k \in T : \A m \in T : ~(m < k)
      <3> HIDE DEF T
      <3> QED
        BY <2>2, LeastNatural
    <2> DEFINE t == L - k
    <2>4. k \in Nat /\ t \in 1..L /\ a[t] # b[t]
      BY <1>1, <2>3
    <2>5. ASSUME NEW j \in (t + 1)..L PROVE a[j] = b[j]
      <3>1. L - j \in Nat /\ L - j < k /\ L - j < L /\ L - (L - j) = j
        <4>1. L \in Nat /\ j \in Int /\ j >= L - k + 1 /\ j <= L
          BY <1>1, <2>4
        <4> HIDE DEF L
        <4> QED
          BY <2>4, <4>1
      <3>2. ~(L - j \in T)
        BY <2>3, <3>1
      <3> QED
        BY <3>1, <3>2
    <2> HIDE DEF t
    <2>6. a[t] \in Nat /\ b[t] \in Nat
      <3>1. t \in 1..Len(a) /\ t \in 1..Len(b)
        BY <1>3, <2>4
      <3> HIDE DEF L
      <3> HIDE DEF t
      <3>2. a[t] \in Nat
        BY <1>1, <3>1, Entries
      <3>3. b[t] \in Nat
        BY <1>1, <3>1, Entries
      <3> QED
        BY <3>2, <3>3
    <2>7. a[t] < b[t] \/ b[t] < a[t]
      BY <2>4, <2>6
    <2> QED
      BY <1>3, <2>4, <2>5, <2>7 DEF LessMag
  <1> QED
    BY <1>2, <1>3

\* Comparing magnitudes compares their values, and equal values are equal
\* limbs.
LEMMA Comparison ==
    ASSUME NEW a \in Magnitudes, NEW b \in Magnitudes
    PROVE  /\ Val(a) \in Nat /\ Val(b) \in Nat
           /\ LessMag(a, b) <=> Val(a) < Val(b)
           /\ a = b <=> Val(a) = Val(b)
  <1>1. Val(a) \in Nat /\ Val(b) \in Nat
    BY ValBounded, WordsAreNaturals
  <1>2. LessMag(a, b) => Val(a) < Val(b)
    BY LessIsLess
  <1>3. LessMag(b, a) => Val(b) < Val(a)
    BY LessIsLess
  <1> QED
    BY <1>1, <1>2, <1>3, Trichotomy

-----------------------------------------------------------------------------
(* Addition and subtraction *)

LEMMA CarryRuns ==
    ASSUME NEW a \in Words, NEW b \in Words
    PROVE  /\ Carry(a, b) \in [Nat -> Nat] /\ Carry(a, b)[0] = 0
           /\ \A i \in Nat :
                 Carry(a, b)[i + 1] = (At(a, i) + At(b, i) + Carry(a, b)[i]) \div Limb
  <1> DEFINE A == Nat
             F == [i \in Nat |-> [c \in Nat |-> (At(a, i) + At(b, i) + c) \div Limb]]
  <1>1. F \in [Nat -> [A -> A]] /\ 0 \in A
    <2>1. ASSUME NEW i \in Nat, NEW c \in Nat
          PROVE  (At(a, i) + At(b, i) + c) \div Limb \in Nat
      <3>1. a \in Seq(Nat) /\ b \in Seq(Nat)
        BY WordsAreNaturals
      <3>2. At(a, i) \in Nat /\ At(b, i) \in Nat
        BY <3>1, AtNatural
      <3>3. Limb \in Nat \ {0}
        BY LimbType
      <3> QED
        BY <3>2, <3>3
    <2> QED
      BY <2>1
  <1>2. Carry(a, b) = Loop(0, F)
    BY DEF Carry
  <1>3. Carry(a, b) \in [Nat -> A] /\ Runs(Carry(a, b), 0, F)
    <2> HIDE DEF A, F
    <2> QED
      BY <1>1, <1>2, LoopRuns
  <1> QED
    BY <1>3 DEF Runs

\* No carry is more than 1.
LEMMA CarryBounded ==
    ASSUME NEW a \in Words, NEW b \in Words
    PROVE  \A i \in Nat : Carry(a, b)[i] \in {0, 1}
  <1> DEFINE c == Carry(a, b)
             S == {i \in Nat : c[i] \in {0, 1}}
  <1>1. c \in [Nat -> Nat] /\ c[0] = 0
        /\ \A i \in Nat : c[i + 1] = (At(a, i) + At(b, i) + c[i]) \div Limb
    BY CarryRuns
  <1> HIDE DEF c
  <1>2. 0 \in S
    BY <1>1
  <1>3. ASSUME NEW i \in Nat, i \in S PROVE i + 1 \in S
    <2> DEFINE s == At(a, i) + At(b, i) + c[i]
    <2>1. Limb \in Nat \ {0} /\ Limb >= 2
      BY LimbType
    <2>2. At(a, i) \in 0..(Limb - 1) /\ At(b, i) \in 0..(Limb - 1) /\ c[i] \in {0, 1}
      BY <1>3, AtType
    <2>3. s \in Nat /\ s <= Limb + (Limb - 1)
      BY <2>1, <2>2
    <2> HIDE DEF s
    <2>4. s \div Limb \in {0, 1}
      <3>1. CASE s < Limb
        BY <2>1, <2>3, <3>1
      <3>2. CASE s >= Limb
        <4> DEFINE r == s - Limb
        <4>1. r \in 0..(Limb - 1) /\ s = Limb * 1 + r
          BY <2>1, <2>3, <3>2
        <4> HIDE DEF r
        <4>2. s \div Limb = 1
          BY <2>1, <2>3, <4>1, DivisionOf
        <4> QED
          BY <4>2
      <3> QED
        BY <2>1, <2>3, <3>1, <3>2
    <2> QED
      BY <1>1, <2>4 DEF s
  <1>4. \A i \in Nat : i \in S
    <2> HIDE DEF S
    <2> QED
      BY <1>2, <1>3, SetInduction
  <1> QED
    BY <1>4 DEF c

LEMMA BorrowRuns ==
    ASSUME NEW a \in Seq(Nat), NEW b \in Seq(Nat)
    PROVE  /\ Borrow(a, b) \in [Nat -> {0, 1}] /\ Borrow(a, b)[0] = 0
           /\ \A i \in Nat :
                 Borrow(a, b)[i + 1] =
                     IF At(a, i) - Borrow(a, b)[i] - At(b, i) < 0 THEN 1 ELSE 0
  <1> DEFINE A == {0, 1}
             F == [i \in Nat |-> [c \in {0, 1} |->
                       IF At(a, i) - c - At(b, i) < 0 THEN 1 ELSE 0]]
  <1>1. F \in [Nat -> [A -> A]] /\ 0 \in A
    OBVIOUS
  <1>2. Borrow(a, b) = Loop(0, F)
    BY DEF Borrow
  <1>3. Borrow(a, b) \in [Nat -> A] /\ Runs(Borrow(a, b), 0, F)
    <2> HIDE DEF A, F
    <2>1. Loop(0, F) \in [Nat -> A] /\ Runs(Loop(0, F), 0, F)
      BY <1>1, LoopRuns
    <2> QED
      BY <1>2, <2>1
  <1> QED
    BY <1>3 DEF Runs

LEMMA SumsType ==
    ASSUME NEW a \in Words, NEW b \in Words
    PROVE  /\ Longer(a, b) \in Nat /\ Longer(a, b) >= Len(a) /\ Longer(a, b) >= Len(b)
           /\ Longer(a, b) \in {Len(a), Len(b)}
           /\ Sums(a, b) \in Words /\ Len(Sums(a, b)) = Longer(a, b)
           /\ \A i \in Nat : i < Longer(a, b) =>
                 At(Sums(a, b), i) = (At(a, i) + At(b, i) + Carry(a, b)[i]) % Limb
  <1> DEFINE n == Longer(a, b)
             s(i) == (At(a, i - 1) + At(b, i - 1) + Carry(a, b)[i - 1]) % Limb
  <1>1. n \in Nat /\ n >= Len(a) /\ n >= Len(b) /\ n \in {Len(a), Len(b)}
    BY DEF Longer, Words
  <1>2. ASSUME NEW i \in 1..n PROVE s(i) \in 0..(Limb - 1)
    <2>1. i - 1 \in Nat
      OBVIOUS
    <2>2. a \in Seq(Nat) /\ b \in Seq(Nat)
      BY WordsAreNaturals
    <2>3. At(a, i - 1) \in Nat /\ At(b, i - 1) \in Nat /\ Carry(a, b)[i - 1] \in Nat
      <3>1. At(a, i - 1) \in Nat /\ At(b, i - 1) \in Nat
        BY <2>1, <2>2, AtNatural
      <3>2. Carry(a, b) \in [Nat -> Nat]
        BY <2>2, CarryRuns
      <3> QED
        BY <2>1, <3>1, <3>2
    <2>4. Limb \in Nat \ {0}
      BY LimbType
    <2> QED
      BY <2>3, <2>4
  <1>3. Sums(a, b) = [i \in 1..n |-> s(i)]
    BY DEF Sums
  <1> HIDE DEF n, s
  <1>4. Sums(a, b) \in Words /\ Len(Sums(a, b)) = n /\ \A i \in 1..n : Sums(a, b)[i] = s(i)
    BY <1>1, <1>2, <1>3 DEF Words
  <1>5. ASSUME NEW i \in Nat, i < n
        PROVE  At(Sums(a, b), i) = (At(a, i) + At(b, i) + Carry(a, b)[i]) % Limb
    <2>1. i + 1 \in 1..n /\ i \in 0..(n - 1) /\ (i + 1) - 1 = i
      BY <1>1, <1>5
    <2>2. At(Sums(a, b), i) = s(i + 1)
      BY <1>4, <2>1 DEF At
    <2> QED
      BY <2>1, <2>2 DEF s
  <1> QED
    BY <1>1, <1>4, <1>5 DEF n

\* Up to each limb, the limbs and the carry out of them are the sum.
LEMMA SumsAdd ==
    ASSUME NEW a \in Words, NEW b \in Words
    PROVE  \A k \in 0..Longer(a, b) :
              Up(Sums(a, b))[k] + Carry(a, b)[k] * Weight[k] = Up(a)[k] + Up(b)[k]
  <1> DEFINE n == Longer(a, b)
             s == Sums(a, b)
             c == Carry(a, b)
             S == {k \in Nat : Up(s)[k] + c[k] * Weight[k] = Up(a)[k] + Up(b)[k]}
  <1>1. n \in Nat /\ s \in Words
        /\ \A i \in Nat : i < n => At(s, i) = (At(a, i) + At(b, i) + c[i]) % Limb
    BY SumsType
  <1>2. c \in [Nat -> Nat] /\ c[0] = 0
        /\ \A i \in Nat : c[i + 1] = (At(a, i) + At(b, i) + c[i]) \div Limb
    BY CarryRuns
  <1>3. a \in Seq(Nat) /\ b \in Seq(Nat) /\ s \in Seq(Nat)
    BY <1>1, WordsAreNaturals
  <1>4. /\ Limb \in Nat \ {0} /\ Weight \in [Nat -> Nat \ {0}]
        /\ \A i \in Nat : Weight[i + 1] = Limb * Weight[i]
    BY WeightRuns, LimbType
  <1>5. /\ Up(a)[0] = 0 /\ Up(b)[0] = 0 /\ Up(s)[0] = 0
    BY <1>3, UpRuns
  <1> HIDE DEF n, s, c
  <1>6. 0 \in S
    BY <1>2, <1>4, <1>5
  <1>7. ASSUME NEW k \in Nat, k < n, k \in S PROVE k + 1 \in S
    <2> DEFINE x == At(a, k)
               y == At(b, k)
               z == At(s, k)
               w == Weight[k]
               q == c[k + 1]
               t == x + y + c[k]
    <2>1. x \in Nat /\ y \in Nat /\ c[k] \in Nat /\ w \in Nat
      BY <1>2, <1>3, <1>4, AtNatural
    <2>2. t \in Nat /\ q = t \div Limb /\ z = t % Limb
      BY <1>1, <1>2, <1>7, <2>1
    <2>3. /\ Up(a)[k + 1] = Up(a)[k] + x * w /\ Up(b)[k + 1] = Up(b)[k] + y * w
          /\ Up(s)[k + 1] = Up(s)[k] + z * w
          /\ Up(a)[k] \in Int /\ Up(b)[k] \in Int /\ Up(s)[k] \in Int
      BY <1>3, UpRuns
    <2>4. Weight[k + 1] = Limb * w
      BY <1>4
    <2>5. Up(s)[k] + c[k] * w = Up(a)[k] + Up(b)[k]
      BY <1>7
    <2>6. t = Limb * q + z /\ q \in Nat /\ z \in Nat
      <3> HIDE DEF t, q, z
      <3> QED
        BY <1>4, <2>2, Division
    <2>7. t * w = q * (Limb * w) + z * w
      <3> HIDE DEF t, q, z, w
      <3>1. t * w = (Limb * q) * w + z * w /\ (Limb * q) * w = q * (Limb * w)
        BY <1>4, <2>1, <2>6
      <3> QED
        BY <3>1
    <2>8. t * w = x * w + y * w + c[k] * w
      <3> DEFINE e == c[k]
      <3> HIDE DEF w, x, y, e
      <3>1. (x + y + e) * w = x * w + y * w + e * w
        BY <2>1 DEF e
      <3> QED
        BY <3>1 DEF e
    <2>9. x * w \in Nat /\ y * w \in Nat /\ z * w \in Nat /\ c[k] * w \in Nat
          /\ q * (Limb * w) \in Nat
      <3> HIDE DEF x, y, z, w, q
      <3>1. Limb * w \in Nat
        BY <1>4, <2>1
      <3> QED
        BY <2>1, <2>6, <3>1
    <2> HIDE DEF x, y, z, w, q, t
    <2>10. Up(s)[k + 1] + q * (Limb * w) = Up(a)[k + 1] + Up(b)[k + 1]
      BY <2>3, <2>5, <2>7, <2>8, <2>9
    <2> QED
      BY <2>4, <2>10 DEF q
  <1>8. \A k \in 0..n : k \in S
    <2> HIDE DEF S
    <2> QED
      BY <1>1, <1>6, <1>7, BoundedInduction
  <1> QED
    BY <1>8 DEF n, s, c

\* One more limb on top.
LEMMA PushLimb ==
    ASSUME NEW a \in Words, NEW c \in 0..(Limb - 1)
    PROVE  /\ a \o <<c>> \in Words /\ Len(a \o <<c>>) = Len(a) + 1
           /\ (a \o <<c>>)[Len(a) + 1] = c
           /\ Val(a \o <<c>>) = Val(a) + c * Weight[Len(a)]
  <1> DEFINE t == a \o <<c>>
             n == Len(a)
  <1>1. t \in Words /\ Len(t) = n + 1 /\ n \in Nat /\ t[n + 1] = c
        /\ \A i \in 1..n : t[i] = a[i]
    BY DEF Words
  <1>2. a \in Seq(Nat) /\ t \in Seq(Nat)
    BY <1>1, WordsAreNaturals
  <1> HIDE DEF t, n
  <1>3. At(t, n) = c /\ \A i \in 0..(n - 1) : At(t, i) = At(a, i)
    BY <1>1 DEF At, n
  <1>4. Up(t)[n] = Up(a)[n]
    BY <1>1, <1>2, <1>3, UpAgrees
  <1>5. Up(t)[n + 1] = Up(t)[n] + c * Weight[n]
    BY <1>1, <1>2, <1>3, UpRuns
  <1>6. Val(t) = Up(t)[n + 1] /\ Val(a) = Up(a)[n]
    BY <1>1 DEF Val, n
  <1> QED
    BY <1>1, <1>4, <1>5, <1>6 DEF t, n

\* add_mag adds, and its result has no leading zero.
LEMMA Addition ==
    ASSUME NEW a \in Magnitudes, NEW b \in Magnitudes
    PROVE  AddMag(a, b) \in Magnitudes /\ Val(AddMag(a, b)) = Val(a) + Val(b)
  <1> DEFINE n == Longer(a, b)
             s == Sums(a, b)
             c == Carry(a, b)[n]
  <1>1. a \in Words /\ b \in Words /\ a \in Seq(Nat) /\ b \in Seq(Nat)
    BY WordsAreNaturals
  <1>2. /\ n \in Nat /\ n >= Len(a) /\ n >= Len(b) /\ n \in {Len(a), Len(b)}
        /\ s \in Words /\ Len(s) = n
        /\ \A i \in Nat : i < n => At(s, i) = (At(a, i) + At(b, i) + Carry(a, b)[i]) % Limb
    BY <1>1, SumsType
  <1>3. Up(s)[n] + c * Weight[n] = Up(a)[n] + Up(b)[n]
    BY <1>1, <1>2, SumsAdd
  <1>4. Up(a)[n] = Val(a) /\ Up(b)[n] = Val(b) /\ Up(s)[n] = Val(s)
    BY <1>1, <1>2, UpRuns DEF Val
  <1>5. c \in {0, 1} /\ c \in 0..(Limb - 1)
    <2>1. c \in {0, 1}
      BY <1>1, <1>2, CarryBounded
    <2> HIDE DEF c
    <2> QED
      BY <2>1, LimbType
  <1>6. AddMag(a, b) = s \o (IF c # 0 THEN <<c>> ELSE <<>>)
    BY DEF AddMag
  <1> HIDE DEF n, s, c
  <1>7. CASE c # 0
    <2>1. AddMag(a, b) = s \o <<c>>
      BY <1>6, <1>7
    <2>2. AddMag(a, b) \in Words /\ Len(AddMag(a, b)) = n + 1
          /\ AddMag(a, b)[n + 1] = c /\ Val(AddMag(a, b)) = Val(s) + c * Weight[n]
      BY <1>2, <1>5, <2>1, PushLimb
    <2>3. AddMag(a, b) \in Magnitudes
      BY <1>7, <2>2 DEF Magnitudes, Words
    <2> QED
      BY <1>3, <1>4, <2>2, <2>3
  <1>8. CASE c = 0
    <2>1. AddMag(a, b) = s
      BY <1>2, <1>6, <1>8 DEF Words
    <2>2. Weight[n] \in Nat /\ Val(s) \in Int
      BY <1>1, <1>2, WeightRuns, ValBounded
    <2>3. Val(s) = Val(a) + Val(b)
      BY <1>3, <1>4, <1>8, <2>2
    <2>4. ASSUME n > 0 PROVE s[n] # 0
      <3> DEFINE m == n - 1
                 x == At(a, m)
                 y == At(b, m)
                 t == x + y + Carry(a, b)[m]
      <3>1. m \in Nat /\ m < n /\ m + 1 = n
        BY <1>2, <2>4
      <3>2. x \in Nat /\ y \in Nat /\ Carry(a, b)[m] \in Nat
        <4> HIDE DEF m
        <4>1. x \in Nat /\ y \in Nat
          BY <1>1, <3>1, AtNatural
        <4>2. Carry(a, b) \in [Nat -> Nat]
          BY <1>1, CarryRuns
        <4> QED
          BY <3>1, <4>1, <4>2
      <3>3. x > 0 \/ y > 0
        <4>1. CASE n = Len(a)
          <5>1. x = a[n] /\ n \in 1..Len(a) /\ a[n] # 0
            BY <1>2, <2>4, <4>1 DEF At, Magnitudes
          <5> QED
            BY <3>2, <5>1
        <4>2. CASE n = Len(b)
          <5>1. y = b[n] /\ n \in 1..Len(b) /\ b[n] # 0
            BY <1>2, <2>4, <4>2 DEF At, Magnitudes
          <5> QED
            BY <3>2, <5>1
        <4> QED
          BY <1>2, <4>1, <4>2
      <3>4. t \in Nat /\ t > 0
        <4> DEFINE e == Carry(a, b)[m]
        <4> HIDE DEF x, y, e
        <4>1. x + y + e \in Nat /\ x + y + e > 0
          BY <3>2, <3>3 DEF e
        <4> QED
          BY <4>1 DEF e
      <3>5. c = t \div Limb
        <4>1. Carry(a, b)[m + 1] = t \div Limb
          BY <1>1, <3>1, CarryRuns
        <4> QED
          BY <3>1, <4>1 DEF c
      <3>6. At(s, m) = t % Limb /\ At(s, m) = s[n]
        <4>1. At(s, m) = s[n]
          BY <1>2, <3>1 DEF At
        <4> QED
          BY <1>2, <3>1, <4>1
      <3> HIDE DEF t
      <3>7. t % Limb = t
        <4>1. Limb \in Nat \ {0}
          BY LimbType
        <4>2. t = Limb * 0 + (t % Limb) /\ t % Limb \in 0..(Limb - 1)
          BY <1>8, <3>4, <3>5, <4>1, Division
        <4> QED
          BY <4>1, <4>2
      <3> QED
        BY <3>4, <3>6, <3>7
    <2>5. s \in Magnitudes
      BY <1>2, <2>4 DEF Magnitudes, Words
    <2> QED
      BY <2>1, <2>3, <2>5
  <1> QED
    BY <1>7, <1>8

LEMMA DifferencesType ==
    ASSUME NEW a \in Words, NEW b \in Words
    PROVE  /\ Differences(a, b) \in Words /\ Len(Differences(a, b)) = Len(a)
           /\ \A i \in Nat : i < Len(a) =>
                 At(Differences(a, b), i) =
                     (At(a, i) - Borrow(a, b)[i] - At(b, i)) % Limb
  <1> DEFINE n == Len(a)
             s(i) == (At(a, i - 1) - Borrow(a, b)[i - 1] - At(b, i - 1)) % Limb
  <1>1. n \in Nat
    BY DEF Words
  <1>2. ASSUME NEW i \in 1..n PROVE s(i) \in 0..(Limb - 1)
    <2> DEFINE x == At(a, i - 1) - Borrow(a, b)[i - 1] - At(b, i - 1)
    <2>1. i - 1 \in Nat
      OBVIOUS
    <2>2. a \in Seq(Nat) /\ b \in Seq(Nat)
      BY WordsAreNaturals
    <2>3. At(a, i - 1) \in Nat /\ At(b, i - 1) \in Nat
      BY <2>1, <2>2, AtNatural
    <2>4. Borrow(a, b)[i - 1] \in {0, 1}
      BY <2>1, <2>2, BorrowRuns
    <2>5. x \in Int
      BY <2>3, <2>4
    <2> HIDE DEF x
    <2>6. x % Limb \in 0..(Limb - 1)
      <3>1. Limb \in Nat \ {0}
        BY LimbType
      <3> QED
        BY <2>5, <3>1, Division
    <2> QED
      BY <2>6 DEF x
  <1>3. Differences(a, b) = [i \in 1..n |-> s(i)]
    BY DEF Differences
  <1> HIDE DEF n, s
  <1>4. /\ Differences(a, b) \in Words /\ Len(Differences(a, b)) = n
        /\ \A i \in 1..n : Differences(a, b)[i] = s(i)
    BY <1>1, <1>2, <1>3 DEF Words
  <1>5. ASSUME NEW i \in Nat, i < n
        PROVE  At(Differences(a, b), i) = (At(a, i) - Borrow(a, b)[i] - At(b, i)) % Limb
    <2>1. i + 1 \in 1..n /\ i \in 0..(n - 1) /\ (i + 1) - 1 = i
      BY <1>1, <1>5
    <2>2. At(Differences(a, b), i) = s(i + 1)
      BY <1>4, <2>1 DEF At
    <2> QED
      BY <2>1, <2>2 DEF s
  <1> QED
    BY <1>4, <1>5 DEF n

\* Up to each limb, the limbs are the difference and what was borrowed.
LEMMA DifferencesSubtract ==
    ASSUME NEW a \in Words, NEW b \in Words
    PROVE  \A k \in 0..Len(a) :
              Up(Differences(a, b))[k] = Up(a)[k] - Up(b)[k] + Borrow(a, b)[k] * Weight[k]
  <1> DEFINE n == Len(a)
             s == Differences(a, b)
             c == Borrow(a, b)
             S == {k \in Nat : Up(s)[k] = Up(a)[k] - Up(b)[k] + c[k] * Weight[k]}
  <1>1. n \in Nat /\ s \in Words
        /\ \A i \in Nat : i < n => At(s, i) = (At(a, i) - c[i] - At(b, i)) % Limb
    BY DifferencesType DEF Words
  <1>2. a \in Seq(Nat) /\ b \in Seq(Nat) /\ s \in Seq(Nat)
    BY <1>1, WordsAreNaturals
  <1>3. c \in [Nat -> {0, 1}] /\ c[0] = 0
        /\ \A i \in Nat : c[i + 1] = IF At(a, i) - c[i] - At(b, i) < 0 THEN 1 ELSE 0
    BY <1>2, BorrowRuns
  <1>4. /\ Limb \in Nat \ {0} /\ Weight \in [Nat -> Nat \ {0}]
        /\ \A i \in Nat : Weight[i + 1] = Limb * Weight[i]
    BY WeightRuns, LimbType
  <1>5. /\ Up(a)[0] = 0 /\ Up(b)[0] = 0 /\ Up(s)[0] = 0
    BY <1>2, UpRuns
  <1> HIDE DEF n, s, c
  <1>6. 0 \in S
    BY <1>3, <1>4, <1>5
  <1>7. ASSUME NEW k \in Nat, k < n, k \in S PROVE k + 1 \in S
    <2> DEFINE x == At(a, k)
               y == At(b, k)
               z == At(s, k)
               w == Weight[k]
               e == c[k]
               q == c[k + 1]
               t == x - e - y
    <2>1. x \in 0..(Limb - 1) /\ y \in 0..(Limb - 1) /\ e \in {0, 1} /\ w \in Nat
      BY <1>3, <1>4, AtType
    <2>2. z = t % Limb /\ q = IF t < 0 THEN 1 ELSE 0
      BY <1>1, <1>3, <1>7
    <2>3. /\ Up(a)[k + 1] = Up(a)[k] + x * w /\ Up(b)[k + 1] = Up(b)[k] + y * w
          /\ Up(s)[k + 1] = Up(s)[k] + z * w
          /\ Up(a)[k] \in Int /\ Up(b)[k] \in Int /\ Up(s)[k] \in Int
      BY <1>2, UpRuns
    <2>4. Weight[k + 1] = Limb * w
      BY <1>4
    <2>5. Up(s)[k] = Up(a)[k] - Up(b)[k] + e * w
      BY <1>7
    <2>6. z = t + q * Limb /\ q \in {0, 1}
      <3>1. t \in Int /\ t >= -Limb /\ t < Limb
        <4> HIDE DEF x, y, e
        <4> QED
          BY <1>4, <2>1
      <3> HIDE DEF t, q, z
      <3>2. CASE t < 0
        <4> DEFINE u == t + Limb
        <4>1. u \in 0..(Limb - 1) /\ t = Limb * (-1) + u /\ -1 \in Int
          BY <1>4, <3>1, <3>2
        <4>2. t % Limb = t + Limb
          <5> HIDE DEF u
          <5>1. t % Limb = u
            BY <1>4, <3>1, <4>1, DivisionOf
          <5> QED
            BY <5>1 DEF u
        <4> QED
          BY <1>4, <2>2, <3>2, <4>2
      <3>3. CASE ~(t < 0)
        <4>1. t \in 0..(Limb - 1) /\ t = Limb * 0 + t
          BY <1>4, <3>1, <3>3
        <4>2. t % Limb = t
          BY <1>4, <3>1, <4>1, DivisionOf
        <4> QED
          BY <1>4, <2>2, <3>3, <4>2, <3>1
      <3> QED
        BY <3>2, <3>3
    <2>7. z * w = x * w - e * w - y * w + q * (Limb * w)
      <3> HIDE DEF x, y, z, w, q, e
      <3>1. x \in Int /\ y \in Int /\ e \in Int /\ q \in Int /\ w \in Int
        BY <1>4, <2>1, <2>6
      <3>2. (x - e - y + q * Limb) * w = x * w - e * w - y * w + (q * Limb) * w
            /\ (q * Limb) * w = q * (Limb * w)
        BY <1>4, <3>1
      <3> QED
        BY <2>6, <3>2
    <2>8. /\ x * w \in Int /\ y * w \in Int /\ z * w \in Int /\ e * w \in Int
          /\ q * (Limb * w) \in Int
      <3>1. z \in Int
        BY <1>1, AtType, <1>4
      <3> HIDE DEF x, y, z, w, q, e
      <3>2. Limb * w \in Nat
        BY <1>4, <2>1
      <3> QED
        BY <1>4, <2>1, <2>6, <3>1, <3>2
    <2> HIDE DEF x, y, z, w, q, t, e
    <2>9. Up(s)[k + 1] = Up(a)[k + 1] - Up(b)[k + 1] + q * (Limb * w)
      BY <2>3, <2>5, <2>7, <2>8
    <2> QED
      BY <2>4, <2>9 DEF q
  <1>8. \A k \in 0..n : k \in S
    <2> HIDE DEF S
    <2> QED
      BY <1>1, <1>6, <1>7, BoundedInduction
  <1> QED
    BY <1>8 DEF n, s, c

\* sub_mag takes the smaller from the larger.
LEMMA Subtraction ==
    ASSUME NEW a \in Magnitudes, NEW b \in Magnitudes, Val(b) <= Val(a)
    PROVE  SubMag(a, b) \in Magnitudes /\ Val(SubMag(a, b)) = Val(a) - Val(b)
  <1> DEFINE n == Len(a)
             s == Differences(a, b)
             c == Borrow(a, b)[n]
             w == Weight[n]
  <1>1. a \in Words /\ b \in Words /\ a \in Seq(Nat) /\ b \in Seq(Nat) /\ n \in Nat
    BY WordsAreNaturals
  <1>2. s \in Words /\ Len(s) = n
    BY <1>1, DifferencesType
  <1>3. Up(s)[n] = Up(a)[n] - Up(b)[n] + c * w
    BY <1>1, DifferencesSubtract
  <1>4. Len(b) \in Nat /\ Len(b) <= n
    <2>1. ~LessMag(a, b)
      <3>1. Val(a) \in Nat /\ Val(b) \in Nat
        BY <1>1, ValBounded
      <3> QED
        BY <3>1, LessIsLess
    <2> QED
      BY <1>1, <2>1 DEF LessMag
  <1>5. Up(b)[n] = Val(b) /\ Up(a)[n] = Val(a) /\ Up(s)[n] = Val(s)
    BY <1>1, <1>2, <1>4, UpRuns DEF Val
  <1>6. Val(s) \in Nat /\ Val(s) < w /\ w \in Nat /\ Val(a) \in Nat /\ Val(b) \in Nat
    BY <1>1, <1>2, ValBounded, WeightRuns
  <1>7. c \in {0, 1}
    BY <1>1, BorrowRuns
  <1>8. SubMag(a, b) = Strip(s)
    BY DEF SubMag
  <1>9. Strip(s) \in Magnitudes /\ Val(Strip(s)) = Val(s)
    BY <1>2, StripKeeps
  <1> HIDE DEF n, s, c, w
  <1>10. Val(s) = Val(a) - Val(b)
    BY <1>3, <1>5, <1>6, <1>7
  <1> QED
    BY <1>8, <1>9, <1>10

-----------------------------------------------------------------------------
(* Multiplication *)

LEMMA UpBeyond ==
    ASSUME NEW a \in Seq(Nat), NEW m \in Nat, \A i \in Nat : i >= m => At(a, i) = 0
    PROVE  Val(a) = Up(a)[m]
  <1>1. LimbsOf(a) \in [Nat -> Int] /\ Limb \in Int /\ Len(a) \in Nat
    <2>1. LimbsOf(a) \in [Nat -> Int]
      BY UpRuns
    <2> QED
      BY <2>1, LimbType
  <1>2. \A i \in Nat : i >= m => LimbsOf(a)[i] = 0
    BY DEF LimbsOf
  <1>3. \A n \in Nat : n >= m => Up(a)[n] = Up(a)[m]
    BY <1>1, <1>2, PositionalBeyond DEF Up
  <1>4. CASE Len(a) >= m
    BY <1>1, <1>3, <1>4 DEF Val
  <1>5. CASE Len(a) < m
    BY <1>1, <1>5, UpRuns DEF Val
  <1> QED
    BY <1>1, <1>4, <1>5

\* c carries along row i.
Carries(c, a, b, acc, i) ==
    /\ c \in [Nat -> Nat] /\ c[0] = 0
    /\ \A j \in Nat : c[j + 1] = (At(acc, i + j) + At(a, i) * At(b, j) + c[j]) \div Limb

LEMMA RowCarryRuns ==
    ASSUME NEW a \in Seq(Nat), NEW b \in Seq(Nat), NEW acc \in Seq(Nat), NEW i \in Nat
    PROVE  Carries(RowCarry(a, b, acc, i), a, b, acc, i)
  <1> DEFINE A == Nat
             F == [j \in Nat |-> [c \in Nat |->
                      (At(acc, i + j) + At(a, i) * At(b, j) + c) \div Limb]]
  <1>1. F \in [Nat -> [A -> A]] /\ 0 \in A
    <2>1. ASSUME NEW j \in Nat, NEW c \in Nat
          PROVE  (At(acc, i + j) + At(a, i) * At(b, j) + c) \div Limb \in Nat
      <3> DEFINE x == At(a, i)
                 y == At(b, j)
                 z == At(acc, i + j)
      <3>1. x \in Nat /\ y \in Nat /\ z \in Nat
        <4>1. i + j \in Nat
          OBVIOUS
        <4> QED
          BY <4>1, AtNatural
      <3>2. Limb \in Nat \ {0}
        BY LimbType
      <3> HIDE DEF x, y, z
      <3>3. x * y \in Nat
        BY <3>1, Products
      <3>4. (z + x * y + c) \div Limb \in Nat
        <4> DEFINE p == x * y
        <4>1. p \in Nat
          BY <3>3
        <4> HIDE DEF p
        <4>2. z + p + c \in Nat
          BY <3>1, <4>1
        <4>3. (z + p + c) \div Limb \in Nat
          BY <3>2, <4>2, Quotients
        <4> QED
          BY <4>3 DEF p
      <3> QED
        BY <3>4 DEF x, y, z
    <2> QED
      BY <2>1
  <1>2. RowCarry(a, b, acc, i) = Loop(0, F)
    BY DEF RowCarry
  <1>3. Loop(0, F) \in [Nat -> A] /\ Runs(Loop(0, F), 0, F)
    <2> HIDE DEF A, F
    <2> QED
      BY <1>1, LoopRuns
  <1> QED
    BY <1>2, <1>3 DEF Runs, Carries

\* The carry along a row is one limb: the word holds a product of limbs, a limb
\* and the carry.
LEMMA RowCarryBounded ==
    ASSUME NEW a \in Words, NEW b \in Words, NEW acc \in Words, NEW i \in Nat
    PROVE  \A j \in Nat : RowCarry(a, b, acc, i)[j] \in 0..(Limb - 1)
  <1> DEFINE c == RowCarry(a, b, acc, i)
             S == {j \in Nat : c[j] \in 0..(Limb - 1)}
  <1>1. c \in [Nat -> Nat] /\ c[0] = 0
        /\ \A j \in Nat : c[j + 1] = (At(acc, i + j) + At(a, i) * At(b, j) + c[j]) \div Limb
    <2>1. a \in Seq(Nat) /\ b \in Seq(Nat) /\ acc \in Seq(Nat)
      BY WordsAreNaturals
    <2>2. Carries(c, a, b, acc, i)
      BY <2>1, RowCarryRuns
    <2> HIDE DEF c
    <2> QED
      BY <2>2 DEF Carries
  <1>2. Limb \in Nat \ {0} /\ Limb >= 2
    BY LimbType
  <1> HIDE DEF c
  <1>3. 0 \in S
    BY <1>1, <1>2
  <1>4. ASSUME NEW j \in Nat, j \in S PROVE j + 1 \in S
    <2> DEFINE x == At(a, i)
               y == At(b, j)
               z == At(acc, i + j)
               e == c[j]
               t == z + x * y + e
               m == Limb - 1
    <2>1. x \in 0..m /\ y \in 0..m /\ z \in 0..m /\ e \in 0..m
      BY <1>4, AtType
    <2>2. c[j + 1] = t \div Limb
      BY <1>1
    <2>3. t \in Nat /\ t < Limb * Limb
      <3>1. m \in Nat /\ Limb = m + 1
        BY <1>2
      <3> HIDE DEF x, y, z, e, m
      <3>2. x * y \in Nat /\ x * y <= m * y /\ m * y <= m * m /\ m * y \in Nat /\ m * m \in Nat
        BY <2>1, <3>1
      <3>3. (m + 1) * (m + 1) = m * m + 2 * m + 1
        BY <3>1
      <3> QED
        BY <2>1, <3>1, <3>2, <3>3
    <2> HIDE DEF t
    <2>4. t \div Limb \in 0..(Limb - 1)
      <3> DEFINE q == t \div Limb
                 r == t % Limb
      <3>1. q \in Int /\ r \in 0..(Limb - 1) /\ t = Limb * q + r
        BY <1>2, <2>3, Division
      <3> HIDE DEF q, r
      <3>2. ASSUME q < 0 PROVE FALSE
        <4>1. q + 1 <= 0 /\ Limb * (q + 1) <= 0 /\ Limb * (q + 1) = Limb * q + Limb
          BY <1>2, <3>1, <3>2
        <4> QED
          BY <1>2, <2>3, <3>1, <4>1
      <3>3. ASSUME q >= Limb PROVE FALSE
        <4>1. Limb * q >= Limb * Limb
          BY <1>2, <3>1, <3>3
        <4> QED
          BY <1>2, <2>3, <3>1, <4>1
      <3> QED
        BY <1>2, <3>1, <3>2, <3>3 DEF q
    <2> QED
      BY <2>2, <2>4
  <1>5. \A j \in Nat : j \in S
    <2> HIDE DEF S
    <2> QED
      BY <1>3, <1>4, SetInduction
  <1> QED
    BY <1>5 DEF c

LEMMA Table ==
    ASSUME NEW S, NEW n \in Nat, NEW f \in [1..n -> S]
    PROVE  f \in Seq(S) /\ Len(f) = n
  OBVIOUS

\* A concatenation has the elements of both parts.
LEMMA Joined ==
    ASSUME NEW C, NEW u \in Seq(C), NEW v \in Seq(C)
    PROVE  /\ u \o v \in Seq(C) /\ Len(u \o v) = Len(u) + Len(v)
           /\ Len(u) \in Nat /\ Len(v) \in Nat
           /\ \A i \in 1..Len(u) : (u \o v)[i] = u[i]
           /\ \A i \in 1..Len(v) : (u \o v)[Len(u) + i] = v[i]
  OBVIOUS

LEMMA RowType ==
    ASSUME NEW a \in Seq(Nat), NEW b \in Seq(Nat), NEW acc \in Seq(Nat), NEW i \in Nat
    PROVE  /\ Row(a, b, acc, i) \in Seq(Nat)
           /\ i <= Len(acc) =>
                 /\ Len(Row(a, b, acc, i)) = Len(acc)
                 /\ \A k \in Nat : k < i => At(Row(a, b, acc, i), k) = At(acc, k)
                 /\ \A j \in Nat : j < Len(b) /\ i + j < Len(acc) =>
                       At(Row(a, b, acc, i), i + j) =
                           (At(acc, i + j) + At(a, i) * At(b, j)
                               + RowCarry(a, b, acc, i)[j]) % Limb
                 /\ i + Len(b) < Len(acc) =>
                       At(Row(a, b, acc, i), i + Len(b)) =
                           At(acc, i + Len(b)) + RowCarry(a, b, acc, i)[Len(b)]
                 /\ \A j \in Nat : j > Len(b) => At(Row(a, b, acc, i), i + j) = At(acc, i + j)
  <1> DEFINE c == RowCarry(a, b, acc, i)
             limb(j) ==
                 CASE j < Len(b) -> (At(acc, i + j) + At(a, i) * At(b, j) + c[j]) % Limb
                   [] j = Len(b) -> At(acc, i + j) + c[j]
                   [] j > Len(b) -> At(acc, i + j)
             N == IF i <= Len(acc) THEN Len(acc) - i ELSE 0
             p == [k \in 1..i |-> At(acc, k - 1)]
             q == [k \in 1..N |-> limb(k - 1)]
             r == Row(a, b, acc, i)
  <1>1. c \in [Nat -> Nat] /\ Limb \in Nat \ {0} /\ N \in Nat /\ Len(b) \in Nat /\ Len(acc) \in Nat
    <2>1. c \in [Nat -> Nat]
      BY RowCarryRuns DEF Carries
    <2>2. N \in Nat /\ Len(b) \in Nat /\ Len(acc) \in Nat
      OBVIOUS
    <2>3. Limb \in Nat \ {0}
      BY LimbType
    <2> HIDE DEF c, limb, N, p, q, r
    <2> QED
      BY <2>1, <2>2, <2>3
  <1>2. r = p \o q
    <2>1. 1..N = 1..(Len(acc) - i)
      BY <1>1
    <2> QED
      BY <2>1 DEF Row
  <1> HIDE DEF c
  <1>3. ASSUME NEW j \in Nat
        PROVE  /\ limb(j) \in Nat
               /\ j < Len(b) => limb(j) = (At(acc, i + j) + At(a, i) * At(b, j) + c[j]) % Limb
               /\ j = Len(b) => limb(j) = At(acc, i + j) + c[j]
               /\ j > Len(b) => limb(j) = At(acc, i + j)
    <2>1. i + j \in Nat
      OBVIOUS
    <2>2. At(acc, i + j) \in Nat /\ At(a, i) \in Nat /\ At(b, j) \in Nat /\ c[j] \in Nat
      BY <1>1, <2>1, AtNatural
    <2>3. At(a, i) * At(b, j) \in Nat
      BY <2>2, Products
    <2>4. (At(acc, i + j) + At(a, i) * At(b, j) + c[j]) % Limb \in Nat
      <3> DEFINE t == At(acc, i + j) + At(a, i) * At(b, j) + c[j]
      <3>1. t \in Nat
        <4> DEFINE x == At(acc, i + j)
                   y == At(a, i) * At(b, j)
        <4>1. x \in Nat /\ y \in Nat
          BY <2>2, <2>3
        <4> HIDE DEF x, y
        <4>2. x + y + c[j] \in Nat
          BY <2>2, <4>1
        <4> QED
          BY <4>2 DEF x, y
      <3> HIDE DEF t
      <3>2. t % Limb \in Nat
        BY <1>1, <3>1
      <3> QED
        BY <3>2 DEF t
    <2>5. At(acc, i + j) + c[j] \in Nat
      BY <2>2
    <2> DEFINE t == (At(acc, i + j) + At(a, i) * At(b, j) + c[j]) % Limb
               u == At(acc, i + j) + c[j]
    <2>6. limb(j) = CASE j < Len(b) -> t [] j = Len(b) -> u [] j > Len(b) -> At(acc, i + j)
      OBVIOUS
    <2> HIDE DEF t, u, limb
    <2>7. CASE j < Len(b)
      <3>1. limb(j) = t
        BY <1>1, <2>6, <2>7
      <3> QED
        BY <1>1, <2>4, <2>7, <3>1 DEF t
    <2>8. CASE j = Len(b)
      <3>1. limb(j) = u
        BY <1>1, <2>6, <2>8
      <3> QED
        BY <1>1, <2>5, <2>8, <3>1 DEF u
    <2>9. CASE j > Len(b)
      <3>1. limb(j) = At(acc, i + j)
        BY <1>1, <2>6, <2>9
      <3> QED
        BY <1>1, <2>2, <2>9, <3>1
    <2> QED
      BY <1>1, <2>7, <2>8, <2>9
  <1> HIDE DEF limb
  <1>4. p \in [1..i -> Nat] /\ q \in [1..N -> Nat]
    <2>1. ASSUME NEW k \in 1..i PROVE At(acc, k - 1) \in Nat
      <3>1. k - 1 \in Nat
        OBVIOUS
      <3> QED
        BY <3>1, AtNatural
    <2>2. ASSUME NEW k \in 1..N PROVE limb(k - 1) \in Nat
      <3>1. k - 1 \in Nat
        BY <1>1
      <3> QED
        BY <1>3, <3>1
    <2> QED
      BY <2>1, <2>2
  <1>5. p \in Seq(Nat) /\ q \in Seq(Nat) /\ Len(p) = i /\ Len(q) = N
    <2> HIDE DEF p, q, N
    <2> QED
      BY <1>1, <1>4, Table
  <1>6. r \in Seq(Nat) /\ Len(r) = i + N
        /\ (\A k \in 1..i : r[k] = p[k]) /\ (\A k \in 1..N : r[i + k] = q[k])
    <2> HIDE DEF p, q, N, r
    <2>1. /\ p \o q \in Seq(Nat) /\ Len(p \o q) = Len(p) + Len(q)
          /\ \A k \in 1..Len(p) : (p \o q)[k] = p[k]
          /\ \A k \in 1..Len(q) : (p \o q)[Len(p) + k] = q[k]
      <3> DEFINE S == Nat
      <3>1. p \in Seq(S) /\ q \in Seq(S)
        BY <1>5
      <3> HIDE DEF S
      <3>2. /\ p \o q \in Seq(S) /\ Len(p \o q) = Len(p) + Len(q)
            /\ \A k \in 1..Len(p) : (p \o q)[k] = p[k]
            /\ \A k \in 1..Len(q) : (p \o q)[Len(p) + k] = q[k]
        BY <3>1, Joined
      <3> QED
        BY <3>2 DEF S
    <2> QED
      BY <1>2, <1>5, <2>1
  <1> HIDE DEF r
  <1>7. ASSUME i <= Len(acc)
        PROVE  Len(r) = Len(acc) /\ N = Len(acc) - i
    BY <1>1, <1>6, <1>7
  <1> HIDE DEF N, p
  <1>8. ASSUME i <= Len(acc), NEW k \in Nat, k < i PROVE At(r, k) = At(acc, k)
    <2>1. k + 1 \in 1..i /\ (k + 1) - 1 = k /\ k \in 0..(Len(r) - 1)
      BY <1>1, <1>7, <1>8
    <2> QED
      BY <1>6, <2>1 DEF At, p
  <1>9. ASSUME i <= Len(acc), NEW j \in Nat, i + j < Len(acc) PROVE At(r, i + j) = limb(j)
    <2>1. /\ j + 1 \in 1..N /\ (j + 1) - 1 = j /\ i + j \in 0..(Len(r) - 1)
          /\ (i + j) + 1 = i + (j + 1)
      <3> DEFINE L == Len(acc)
      <3> HIDE DEF L
      <3>1. L \in Nat /\ Len(r) = L /\ N = L - i /\ i <= L /\ i + j < L
        BY <1>1, <1>7, <1>9 DEF L
      <3> QED
        BY <3>1
    <2>2. At(r, i + j) = r[i + (j + 1)]
      BY <2>1 DEF At
    <2>3. r[i + (j + 1)] = q[j + 1]
      BY <1>6, <2>1
    <2>4. q[j + 1] = limb(j)
      BY <2>1
    <2> QED
      BY <2>2, <2>3, <2>4
  <1>10. ASSUME i <= Len(acc), NEW j \in Nat, j > Len(b) PROVE At(r, i + j) = At(acc, i + j)
    <2>1. CASE i + j < Len(acc)
      BY <1>3, <1>9, <1>10, <2>1
    <2>2. CASE ~(i + j < Len(acc))
      <3>1. i + j \notin 0..(Len(r) - 1) /\ i + j \notin 0..(Len(acc) - 1)
        <4>1. Len(r) = Len(acc)
          BY <1>7, <1>10
        <4> QED
          BY <1>1, <2>2, <4>1
      <3> QED
        BY <3>1 DEF At
    <2> QED
      BY <2>1, <2>2
  <1> QED
    BY <1>1, <1>3, <1>6, <1>7, <1>8, <1>9, <1>10 DEF r, c

LEMMA SequenceIsFunction ==
    ASSUME NEW S, NEW a \in Seq(S)
    PROVE  Len(a) \in Nat /\ a \in [1..Len(a) -> S]
  OBVIOUS

LEMMA RemainderIsLimb ==
    ASSUME NEW n \in Int
    PROVE  n % Limb \in 0..(Limb - 1)
  <1>1. Limb \in Nat \ {0}
    BY LimbType
  <1> QED
    BY <1>1, Division

LEMMA WordsByLimb ==
    ASSUME NEW a \in Seq(Nat), \A i \in Nat : At(a, i) \in 0..(Limb - 1)
    PROVE  a \in Words
  <1>1. ASSUME NEW k \in 1..Len(a) PROVE a[k] \in 0..(Limb - 1)
    <2>1. k - 1 \in Nat /\ k - 1 \in 0..(Len(a) - 1) /\ (k - 1) + 1 = k
      OBVIOUS
    <2>2. At(a, k - 1) = a[k]
      BY <2>1 DEF At
    <2> QED
      BY <2>1, <2>2
  <1>2. Len(a) \in Nat /\ a \in [1..Len(a) -> Nat]
    BY SequenceIsFunction
  <1> DEFINE S == 0..(Limb - 1)
  <1>3. \A k \in 1..Len(a) : a[k] \in S
    BY <1>1
  <1> HIDE DEF S
  <1>4. a \in [1..Len(a) -> S]
    BY <1>2, <1>3
  <1>5. a \in Seq(S)
    BY <1>2, <1>4, Table
  <1> QED
    BY <1>5 DEF Words, S

\* A limb of a product: what the word holds is the limb written and the carry.
LEMMA WordSplits ==
    ASSUME NEW t \in Nat, NEW w \in Nat
    PROVE  /\ t \div Limb \in Nat /\ t % Limb \in 0..(Limb - 1)
           /\ t * w = (t \div Limb) * (Limb * w) + (t % Limb) * w
  <1> DEFINE q == t \div Limb
             r == t % Limb
  <1>1. Limb \in Nat \ {0}
    BY LimbType
  <1>2. q \in Int /\ r \in 0..(Limb - 1) /\ t = Limb * q + r
    BY <1>1, Division
  <1>3. q \in Nat
    BY <1>1
  <1> HIDE DEF q, r
  <1>4. t * w = (Limb * q) * w + r * w /\ (Limb * q) * w = q * (Limb * w)
    BY <1>1, <1>2
  <1> QED
    BY <1>2, <1>3, <1>4 DEF q, r

\* A row adds one limb of a times b, shifted to its place.
LEMMA RowAdds ==
    ASSUME NEW a \in Words, NEW b \in Words, NEW acc \in Words, NEW i \in Nat,
           i + Len(b) < Len(acc),
           \A k \in Nat : k >= i + Len(b) => At(acc, k) = 0
    PROVE  /\ Row(a, b, acc, i) \in Words /\ Len(Row(a, b, acc, i)) = Len(acc)
           /\ \A k \in Nat : k >= i + Len(b) + 1 => At(Row(a, b, acc, i), k) = 0
           /\ Val(Row(a, b, acc, i)) = Val(acc) + (At(a, i) * Val(b)) * Weight[i]
  <1> DEFINE r == Row(a, b, acc, i)
             c == RowCarry(a, b, acc, i)
             m == Len(b)
             x == At(a, i)
             w == Weight[i]
  <1>1. /\ a \in Seq(Nat) /\ b \in Seq(Nat) /\ acc \in Seq(Nat)
        /\ m \in Nat /\ Len(acc) \in Nat /\ i <= Len(acc)
    <2>1. a \in Seq(Nat) /\ b \in Seq(Nat) /\ acc \in Seq(Nat)
      BY WordsAreNaturals
    <2>2. m \in Nat /\ Len(acc) \in Nat
      BY <2>1
    <2> QED
      BY <2>1, <2>2
  <1>2. /\ r \in Seq(Nat) /\ Len(r) = Len(acc)
        /\ \A k \in Nat : k < i => At(r, k) = At(acc, k)
        /\ \A j \in Nat : j < m => At(r, i + j) = (At(acc, i + j) + x * At(b, j) + c[j]) % Limb
        /\ At(r, i + m) = At(acc, i + m) + c[m]
        /\ \A j \in Nat : j > m => At(r, i + j) = At(acc, i + j)
    <2>1. \A j \in Nat : j < m => i + j < Len(acc)
      BY <1>1
    <2> QED
      BY <1>1, <2>1, RowType
  <1>3. /\ c \in [Nat -> Nat] /\ c[0] = 0
        /\ \A j \in Nat : c[j + 1] = (At(acc, i + j) + x * At(b, j) + c[j]) \div Limb
    <2>1. a \in Seq(Nat) /\ b \in Seq(Nat) /\ acc \in Seq(Nat)
      BY <1>1
    <2>2. Carries(c, a, b, acc, i)
      BY <2>1, RowCarryRuns
    <2> HIDE DEF c
    <2> QED
      BY <2>2 DEF Carries
  <1>4. \A j \in Nat : c[j] \in 0..(Limb - 1)
    BY RowCarryBounded
  <1>5. /\ Limb \in Nat \ {0} /\ Weight \in [Nat -> Nat \ {0}]
        /\ \A k \in Nat : Weight[k + 1] = Limb * Weight[k]
    <2>1. Limb \in Nat \ {0}
      BY LimbType
    <2>2. Weight \in [Nat -> Nat \ {0}] /\ \A k \in Nat : Weight[k + 1] = Limb * Weight[k]
      BY WeightRuns
    <2> QED
      BY <2>1, <2>2
  <1>6. \A j \in Nat : Weight[i + j] = w * Weight[j]
    <2>1. Limb \in Int
      BY <1>5
    <2> QED
      BY <2>1, PowersAdd DEF Weight
  <1>7. At(r, i + m) = c[m]
    <2>1. At(acc, i + m) = 0
      BY <1>1
    <2>2. c[m] \in Nat
      BY <1>1, <1>3
    <2> QED
      BY <1>2, <2>1, <2>2
  <1> HIDE DEF r, c, m
  <1>8. r \in Words
    <2>1. ASSUME NEW k \in Nat PROVE At(r, k) \in 0..(Limb - 1)
      <3>0. At(acc, k) \in 0..(Limb - 1)
        <4>1. k \in Int
          OBVIOUS
        <4> QED
          BY <4>1, AtType
      <3>1. CASE k < i
        <4>1. At(r, k) = At(acc, k)
          BY <1>2, <3>1
        <4> QED
          BY <3>0, <4>1
      <3> DEFINE j == k - i
      <3>2. CASE k >= i /\ j < m
        <4> DEFINE t == At(acc, i + j) + x * At(b, j) + c[j]
        <4>1. j \in Nat /\ i + j = k /\ i + j \in Nat
          BY <3>2
        <4> HIDE DEF j
        <4>2. At(acc, i + j) \in Nat /\ x \in Nat /\ At(b, j) \in Nat /\ c[j] \in Nat
          BY <1>1, <1>3, <4>1, AtNatural
        <4>3. x * At(b, j) \in Nat
          BY <4>2, Products
        <4>4. t \in Nat
          <5> DEFINE p == x * At(b, j)
          <5>1. p \in Nat
            BY <4>3
          <5> HIDE DEF p
          <5>2. At(acc, i + j) + p + c[j] \in Nat
            BY <4>2, <5>1
          <5> QED
            BY <5>2 DEF p
        <4>5. At(r, k) = t % Limb
          BY <1>2, <3>2, <4>1
        <4> HIDE DEF t
        <4>6. t % Limb \in 0..(Limb - 1)
          <5>1. t \in Int
            BY <4>4
          <5> QED
            BY <5>1, RemainderIsLimb
        <4> QED
          BY <4>5, <4>6
      <3>3. CASE k >= i /\ j = m
        <4>1. k = i + m
          BY <1>1, <3>3
        <4> QED
          BY <1>1, <1>4, <1>7, <4>1
      <3>4. CASE k >= i /\ j > m
        <4>1. j \in Nat /\ i + j = k
          BY <3>4
        <4> HIDE DEF j
        <4>2. At(r, k) = At(acc, k)
          BY <1>2, <3>4, <4>1
        <4> QED
          BY <3>0, <4>2
      <3>5. k < i \/ (k >= i /\ (j < m \/ j = m \/ j > m))
        BY <1>1
      <3> QED
        BY <3>1, <3>2, <3>3, <3>4, <3>5
    <2> QED
      BY <1>2, <2>1, WordsByLimb
  <1>9. ASSUME NEW k \in Nat, k >= i + m + 1 PROVE At(r, k) = 0
    <2> DEFINE j == k - i
    <2>1. j \in Nat /\ j > m /\ i + j = k /\ k >= i + m
      BY <1>1, <1>9
    <2> HIDE DEF j
    <2>2. At(r, k) = At(acc, k)
      BY <1>2, <2>1
    <2>3. At(acc, k) = 0
      BY <2>1 DEF m
    <2> QED
      BY <2>2, <2>3
  <1> HIDE DEF x, w
  <1> DEFINE S == {j \in Nat : Up(r)[i + j] + c[j] * Weight[i + j]
                                   = Up(acc)[i + j] + (x * Up(b)[j]) * w}
  <1>10. x \in Nat /\ w \in Nat
    BY <1>1, <1>5, AtNatural DEF x, w
  <1>11. /\ Up(acc) \in [Nat -> Int] /\ Up(b) \in [Nat -> Int] /\ Up(r) \in [Nat -> Int]
         /\ Up(b)[0] = 0
         /\ \A k \in Nat : Up(acc)[k + 1] = Up(acc)[k] + At(acc, k) * Weight[k]
         /\ \A k \in Nat : Up(b)[k + 1] = Up(b)[k] + At(b, k) * Weight[k]
         /\ \A k \in Nat : Up(r)[k + 1] = Up(r)[k] + At(r, k) * Weight[k]
    <2>1. /\ Up(acc) \in [Nat -> Int]
          /\ \A k \in Nat : Up(acc)[k + 1] = Up(acc)[k] + At(acc, k) * Weight[k]
      BY <1>1, UpRuns
    <2>2. /\ Up(b) \in [Nat -> Int] /\ Up(b)[0] = 0
          /\ \A k \in Nat : Up(b)[k + 1] = Up(b)[k] + At(b, k) * Weight[k]
      BY <1>1, UpRuns
    <2>3. /\ Up(r) \in [Nat -> Int]
          /\ \A k \in Nat : Up(r)[k + 1] = Up(r)[k] + At(r, k) * Weight[k]
      BY <1>2, UpRuns
    <2> QED
      BY <2>1, <2>2, <2>3
  <1>12. 0 \in S
    <2>1. Up(r)[i] = Up(acc)[i]
      <3>1. \A k \in 0..(i - 1) : At(r, k) = At(acc, k)
        BY <1>2
      <3> QED
        BY <1>1, <1>2, <3>1, UpAgrees
    <2>2. i + 0 = i /\ 0 * Weight[i] = 0 /\ x * 0 = 0 /\ 0 * w = 0
      BY <1>5, <1>10
    <2> QED
      BY <1>3, <1>11, <2>1, <2>2
  <1>13. ASSUME NEW j \in Nat, j < m, j \in S PROVE j + 1 \in S
    <2> DEFINE k == i + j
               y == At(b, j)
               z == At(acc, k)
               e == c[j]
               t == z + x * y + e
               W == Weight[k]
               v == Weight[j]
               q == t \div Limb
               p == t % Limb
               u == Up(b)[j]
    <2>1. k \in Nat /\ i + (j + 1) = k + 1
      OBVIOUS
    <2>2. y \in Nat /\ z \in Nat /\ e \in Nat /\ W \in Nat /\ v \in Nat
      BY <1>1, <1>3, <1>5, <2>1, AtNatural
    <2>3. x * y \in Nat
      BY <1>10, <2>2, Products
    <2>4. t \in Nat
      BY <2>2, <2>3
    <2>5. c[j + 1] = q /\ At(r, k) = p
      BY <1>2, <1>3, <1>13
    <2>6. q \in Nat /\ p \in 0..(Limb - 1) /\ t * W = q * (Limb * W) + p * W
      <3> HIDE DEF t, W
      <3> QED
        BY <2>2, <2>4, WordSplits DEF t, W
    <2>7. W = w * v /\ Weight[k + 1] = Limb * W
      BY <1>5, <1>6, <2>1
    <2>8. /\ Up(r)[k + 1] = Up(r)[k] + p * W /\ Up(acc)[k + 1] = Up(acc)[k] + z * W
          /\ Up(b)[j + 1] = u + y * v
      BY <1>11, <2>1, <2>5
    <2>9. Up(r)[k] + e * W = Up(acc)[k] + (x * u) * w
      BY <1>13
    <2>10. u \in Int /\ Up(r)[k] \in Int /\ Up(acc)[k] \in Int
      BY <1>11, <2>1
    <2> HIDE DEF y, z, e, W, v, q, p, u, k
    <2>11. t * W = z * W + (x * y) * W + e * W
      <3> DEFINE xy == x * y
      <3> HIDE DEF xy
      <3>1. xy \in Nat
        BY <2>3 DEF xy
      <3>2. (z + xy + e) * W = z * W + xy * W + e * W
        BY <2>2, <3>1
      <3> QED
        BY <3>2 DEF xy
    <2>12. (x * (u + y * v)) * w = (x * u) * w + (x * y) * W
      <3>1. (x * (u + y * v)) * w = (x * u) * w + (x * (y * v)) * w
        <4> DEFINE yv == y * v
        <4>1. yv \in Int
          BY <2>2
        <4> HIDE DEF yv
        <4>2. x * (u + yv) = x * u + x * yv /\ x * u \in Int /\ x * yv \in Int
          BY <1>10, <2>10, <4>1
        <4> DEFINE A == x * u
                   B == x * yv
        <4> HIDE DEF A, B
        <4>3. (A + B) * w = A * w + B * w
          BY <1>10, <4>2, Distribute DEF A, B
        <4> QED
          BY <4>2, <4>3 DEF A, B, yv
      <3>2. (x * (y * v)) * w = (x * y) * (w * v)
        BY <1>10, <2>2
      <3> QED
        BY <2>7, <3>1, <3>2
    <2> HIDE DEF t
    <2>13. /\ z * W \in Int /\ (x * y) * W \in Int /\ e * W \in Int /\ p * W \in Int
           /\ q * (Limb * W) \in Int /\ (x * u) * w \in Int
      <3>1. Limb * W \in Int /\ x * u \in Int /\ p \in Int
        BY <1>5, <1>10, <2>2, <2>6, <2>10
      <3> QED
        BY <1>10, <2>2, <2>3, <2>6, <3>1, Products
    <2>14. (Up(r)[k] + p * W) + q * (Limb * W)
               = (Up(acc)[k] + z * W) + (x * (u + y * v)) * w
      <3> DEFINE A == p * W
                 B == q * (Limb * W)
                 C == z * W
                 D == (x * y) * W
                 E == e * W
                 F == (x * u) * w
                 G == (x * (u + y * v)) * w
                 H == t * W
                 X == Up(r)[k]
                 Y == Up(acc)[k]
      <3>1. /\ A \in Int /\ B \in Int /\ C \in Int /\ D \in Int /\ E \in Int /\ F \in Int
            /\ H = B + A /\ H = C + D + E /\ G = F + D
            /\ X + E = Y + F
        BY <2>6, <2>9, <2>11, <2>12, <2>13
      <3>2. X \in Int /\ Y \in Int
        BY <2>10
      <3> HIDE DEF A, B, C, D, E, F, G, H, X, Y
      <3>3. (X + A) + B = (Y + C) + G
        BY <3>1, <3>2
      <3> QED
        BY <3>3 DEF A, B, C, G, X, Y
    <2>15. Up(r)[k + 1] + c[j + 1] * Weight[k + 1] = Up(acc)[k + 1] + (x * Up(b)[j + 1]) * w
      BY <2>5, <2>7, <2>8, <2>14
    <2> QED
      BY <2>1, <2>15
  <1>14. m \in S
    <2>1. \A j \in 0..m : j \in S
      <3> HIDE DEF S
      <3> QED
        BY <1>1, <1>12, <1>13, BoundedInduction
    <2> QED
      BY <1>1, <2>1
  <1>15. Up(r)[i + m + 1] = Up(r)[i + m] + c[m] * Weight[i + m]
    <2>1. i + m \in Nat
      BY <1>1
    <2> QED
      BY <1>7, <1>11, <2>1
  <1>16. Val(r) = Up(r)[i + m + 1]
    <2>1. i + m + 1 \in Nat
      BY <1>1
    <2> QED
      BY <1>2, <1>9, <2>1, UpBeyond
  <1>17. Val(acc) = Up(acc)[i + m]
    <2>1. i + m \in Nat
      BY <1>1
    <2> QED
      BY <1>1, <2>1, UpBeyond DEF m
  <1>18. Val(b) = Up(b)[m]
    BY DEF Val, m
  <1>19. Val(r) = Val(acc) + (x * Val(b)) * w
    BY <1>14, <1>15, <1>16, <1>17, <1>18
  <1> QED
    BY <1>2, <1>8, <1>9, <1>19 DEF r, m, x, w

LEMMA RowsRun ==
    ASSUME NEW a \in Seq(Nat), NEW b \in Seq(Nat)
    PROVE  /\ Rows(a, b) \in [Nat -> Seq(Nat)]
           /\ Rows(a, b)[0] = [k \in 1..(Len(a) + Len(b)) |-> 0]
           /\ \A i \in Nat : Rows(a, b)[i + 1] = Row(a, b, Rows(a, b)[i], i)
  <1> DEFINE A == Seq(Nat)
             z == [k \in 1..(Len(a) + Len(b)) |-> 0]
             F == [i \in Nat |-> [acc \in Seq(Nat) |-> Row(a, b, acc, i)]]
  <1>1. z \in A
    <2>1. Len(a) + Len(b) \in Nat /\ z \in [1..(Len(a) + Len(b)) -> Nat]
      OBVIOUS
    <2> HIDE DEF z
    <2> QED
      BY <2>1, Table
  <1>2. F \in [Nat -> [A -> A]]
    <2>1. ASSUME NEW i \in Nat, NEW acc \in Seq(Nat) PROVE Row(a, b, acc, i) \in Seq(Nat)
      BY RowType
    <2> QED
      BY <2>1
  <1>3. Rows(a, b) = Loop(z, F)
    BY DEF Rows
  <1>4. Loop(z, F) \in [Nat -> A] /\ Runs(Loop(z, F), z, F)
    <2> HIDE DEF A, F, z
    <2> QED
      BY <1>1, <1>2, LoopRuns
  <1> QED
    BY <1>3, <1>4 DEF Runs

LEMMA Zeros ==
    ASSUME NEW n \in Nat
    PROVE  /\ [k \in 1..n |-> 0] \in Words /\ Len([k \in 1..n |-> 0]) = n
           /\ Val([k \in 1..n |-> 0]) = 0
           /\ \A i \in Nat : At([k \in 1..n |-> 0], i) = 0
  <1> DEFINE z == [k \in 1..n |-> 0]
  <1>1. z \in [1..n -> 0..(Limb - 1)] /\ z \in [1..n -> Nat]
    BY LimbType
  <1>2. \A k \in 1..n : z[k] = 0
    OBVIOUS
  <1> HIDE DEF z
  <1>3. z \in Seq(Nat) /\ Len(z) = n /\ z \in Words
    <2> DEFINE S == 0..(Limb - 1)
    <2>1. z \in [1..n -> S]
      BY <1>1
    <2> HIDE DEF S
    <2>2. z \in Seq(S) /\ Len(z) = n
      BY <2>1, Table
    <2>3. z \in Seq(Nat)
      BY <1>1, Table
    <2> QED
      BY <2>2, <2>3 DEF S, Words
  <1>4. \A i \in Nat : At(z, i) = 0
    BY <1>2, <1>3 DEF At
  <1>5. Val(z) = Up(z)[0]
    BY <1>3, <1>4, UpBeyond
  <1>6. Up(z)[0] = 0
    BY <1>3, UpRuns
  <1> QED
    BY <1>3, <1>4, <1>5, <1>6 DEF z

\* The rows done so far hold so many limbs of a times b.
LEMMA RowsMultiply ==
    ASSUME NEW a \in Words, NEW b \in Words
    PROVE  /\ Rows(a, b)[Len(a)] \in Words
           /\ Len(Rows(a, b)[Len(a)]) = Len(a) + Len(b)
           /\ Val(Rows(a, b)[Len(a)]) = Val(a) * Val(b)
  <1> DEFINE n == Len(a)
             m == Len(b)
             acc == Rows(a, b)
             Done(i) == /\ acc[i] \in Words /\ Len(acc[i]) = n + m
                        /\ \A k \in Nat : k >= i + m => At(acc[i], k) = 0
                        /\ Val(acc[i]) = Up(a)[i] * Val(b)
             S == {i \in Nat : Done(i)}
  <1>1. a \in Seq(Nat) /\ b \in Seq(Nat) /\ n \in Nat /\ m \in Nat
    BY WordsAreNaturals
  <1>2. /\ acc[0] = [k \in 1..(n + m) |-> 0]
        /\ \A i \in Nat : acc[i + 1] = Row(a, b, acc[i], i)
    BY <1>1, RowsRun
  <1>3. Up(a) \in [Nat -> Int] /\ Up(a)[0] = 0
        /\ \A i \in Nat : Up(a)[i + 1] = Up(a)[i] + At(a, i) * Weight[i]
    BY <1>1, UpRuns
  <1>4. Val(b) \in Nat
    BY ValBounded
  <1> HIDE DEF acc, n, m
  <1>5. 0 \in S
    <2> DEFINE z == [k \in 1..(n + m) |-> 0]
    <2>1. n + m \in Nat
      BY <1>1
    <2>2. z \in Words /\ Len(z) = n + m /\ Val(z) = 0 /\ \A i \in Nat : At(z, i) = 0
      BY <2>1, Zeros
    <2>3. 0 * Val(b) = 0
      BY <1>4
    <2> HIDE DEF z
    <2>4. acc[0] = z
      BY <1>2 DEF z
    <2> QED
      BY <1>3, <2>2, <2>3, <2>4
  <1>6. ASSUME NEW i \in Nat, i < n, i \in S PROVE i + 1 \in S
    <2> DEFINE s == acc[i]
               r == Row(a, b, s, i)
               x == At(a, i)
               w == Weight[i]
    <2>1. s \in Words /\ Len(s) = n + m /\ (\A k \in Nat : k >= i + m => At(s, k) = 0)
          /\ Val(s) = Up(a)[i] * Val(b)
      BY <1>6
    <2>2. i + m < n + m
      BY <1>1, <1>6
    <2> HIDE DEF s
    <2>3. /\ r \in Words /\ Len(r) = Len(s)
          /\ \A k \in Nat : k >= i + m + 1 => At(r, k) = 0
          /\ Val(r) = Val(s) + (x * Val(b)) * w
      <3>1. /\ s \in Words /\ i + Len(b) < Len(s)
            /\ \A k \in Nat : k >= i + Len(b) => At(s, k) = 0
        BY <2>1, <2>2 DEF m
      <3>2. /\ r \in Words /\ Len(r) = Len(s)
            /\ \A k \in Nat : k >= i + Len(b) + 1 => At(r, k) = 0
            /\ Val(r) = Val(s) + (At(a, i) * Val(b)) * Weight[i]
        BY <3>1, RowAdds
      <3> QED
        BY <3>2 DEF m
    <2>4. acc[i + 1] = r
      BY <1>2 DEF s
    <2>5. x \in Nat /\ w \in Nat /\ Up(a)[i] \in Int
      BY <1>1, <1>3, AtNatural, WeightRuns
    <2>6. Up(a)[i + 1] = Up(a)[i] + x * w
      BY <1>3
    <2> HIDE DEF r, x, w
    <2>7. Up(a)[i + 1] * Val(b) = Up(a)[i] * Val(b) + (x * Val(b)) * w
      <3> DEFINE u == Up(a)[i]
                 v == Val(b)
      <3>1. u \in Int /\ v \in Int /\ x * w \in Int
        BY <1>4, <2>5, Products
      <3> HIDE DEF u, v
      <3>2. (u + x * w) * v = u * v + (x * w) * v
        <4> DEFINE xw == x * w
        <4> HIDE DEF xw
        <4>1. (u + xw) * v = u * v + xw * v
          BY <3>1, Distribute DEF xw
        <4> QED
          BY <4>1 DEF xw
      <3>3. (x * w) * v = (x * v) * w
        BY <2>5, <3>1
      <3> QED
        BY <2>6, <3>2, <3>3 DEF u, v
    <2>8. \A k \in Nat : k >= (i + 1) + m => k >= i + m + 1
      BY <1>1
    <2>9. Val(r) = Up(a)[i + 1] * Val(b)
      BY <2>1, <2>3, <2>7
    <2> QED
      BY <2>1, <2>3, <2>4, <2>8, <2>9
  <1>7. \A i \in 0..n : i \in S
    <2> HIDE DEF S
    <2> QED
      BY <1>1, <1>5, <1>6, BoundedInduction
  <1>8. Done(n)
    BY <1>1, <1>7
  <1>9. Up(a)[n] = Val(a)
    BY DEF Val, n
  <1> QED
    BY <1>8, <1>9 DEF n, m, acc

\* mul_mag multiplies.
LEMMA Multiplication ==
    ASSUME NEW a \in Words, NEW b \in Words
    PROVE  MulMag(a, b) \in Magnitudes /\ Val(MulMag(a, b)) = Val(a) * Val(b)
  <1> DEFINE n == Len(a) + Len(b)
             s == Rows(a, b)[Len(a)]
             t == [k \in 1..n |-> s[k] % Limb]
  <1>1. s \in Words /\ Len(s) = n /\ Val(s) = Val(a) * Val(b)
    BY RowsMultiply
  <1>2. MulMag(a, b) = Strip(t)
    BY DEF MulMag
  <1> HIDE DEF s, n
  <1>3. t = s
    <2>1. s \in [1..n -> 0..(Limb - 1)]
      <3> DEFINE S == 0..(Limb - 1)
      <3>1. s \in Seq(S)
        BY <1>1 DEF Words
      <3> HIDE DEF S
      <3>2. s \in [1..n -> S]
        BY <1>1, <3>1, SequenceIsFunction
      <3> QED
        BY <3>2 DEF S
    <2>2. ASSUME NEW k \in 1..n PROVE s[k] % Limb = s[k]
      <3> DEFINE x == s[k]
      <3>1. x \in 0..(Limb - 1)
        BY <2>1
      <3> HIDE DEF x
      <3>2. Limb \in Nat \ {0} /\ x \in Int /\ x = Limb * 0 + x
        BY <3>1, LimbType
      <3>3. x % Limb = x
        BY <3>1, <3>2, DivisionOf
      <3> QED
        BY <3>3 DEF x
    <2> QED
      BY <2>1, <2>2
  <1> QED
    BY <1>1, <1>2, <1>3, StripKeeps

-----------------------------------------------------------------------------
(* Division by one limb *)

\* One digit is the number it is.
LEMMA SingleLimb ==
    ASSUME NEW c \in 0..(Limb - 1)
    PROVE  LET s == IF c # 0 THEN <<c>> ELSE <<>>
           IN s \in Magnitudes /\ Val(s) = c
  <1>1. CASE c = 0
    BY <1>1, EmptyVal
  <1>2. CASE c # 0
    <2>1. <<>> \in Words /\ <<>> \o <<c>> = <<c>> /\ Len(<<>>) = 0
      BY DEF Words
    <2>2. /\ <<c>> \in Words /\ Len(<<c>>) = 1 /\ <<c>>[1] = c
          /\ Val(<<c>>) = Val(<<>>) + c * Weight[0]
      <3>1. /\ <<>> \o <<c>> \in Words
            /\ Val(<<>> \o <<c>>) = Val(<<>>) + c * Weight[Len(<<>>)]
        BY <2>1, PushLimb
      <3> QED
        BY <2>1, <3>1
    <2>3. c \in Nat
      BY LimbType
    <2>4. Val(<<c>>) = c
      BY <2>2, <2>3, EmptyVal, WeightRuns
    <2>5. <<c>> \in Magnitudes
      BY <1>2, <2>2 DEF Magnitudes, Words
    <2> QED
      BY <1>2, <2>4, <2>5
  <1> QED
    BY <1>1, <1>2

LEMMA RemaindersRun ==
    ASSUME NEW a \in Words, NEW d \in Nat \ {0}
    PROVE  /\ Remainders(a, d) \in [Nat -> Nat] /\ Remainders(a, d)[0] = 0
           /\ \A k \in Nat :
                 Remainders(a, d)[k + 1] =
                     (Remainders(a, d)[k] * Limb + At(a, Len(a) - 1 - k)) % d
           /\ \A k \in Nat : Remainders(a, d)[k] < d
  <1> DEFINE A == Nat
             F == [i \in Nat |-> [r \in Nat |-> (r * Limb + At(a, Len(a) - 1 - i)) % d]]
             x == Remainders(a, d)
  <1>0. Limb \in Nat /\ Len(a) \in Nat
    BY LimbType DEF Words
  <1>1. ASSUME NEW i \in Nat, NEW r \in Nat
        PROVE  (r * Limb + At(a, Len(a) - 1 - i)) % d \in 0..(d - 1)
    <2> DEFINE y == At(a, Len(a) - 1 - i)
               t == r * Limb + y
    <2>1. Len(a) - 1 - i \in Int
      BY <1>0
    <2>2. y \in 0..(Limb - 1)
      BY <2>1, AtType
    <2>3. r * Limb \in Nat
      BY <1>0, Products
    <2> HIDE DEF y
    <2>4. t \in Int
      BY <1>0, <2>2, <2>3
    <2> HIDE DEF t
    <2>5. t % d \in 0..(d - 1)
      BY <2>4, Division
    <2> QED
      BY <2>5 DEF t, y
  <1>2. F \in [Nat -> [A -> A]] /\ 0 \in A
    BY <1>1
  <1>3. x = Loop(0, F)
    BY DEF Remainders
  <1>4. Loop(0, F) \in [Nat -> A] /\ Runs(Loop(0, F), 0, F)
    <2> HIDE DEF A, F
    <2> QED
      BY <1>2, LoopRuns
  <1>5. /\ x \in [Nat -> Nat] /\ x[0] = 0
        /\ \A k \in Nat : x[k + 1] = (x[k] * Limb + At(a, Len(a) - 1 - k)) % d
    BY <1>3, <1>4 DEF Runs
  <1> HIDE DEF x
  <1>6. ASSUME NEW k \in Nat PROVE x[k] < d
    <2>1. CASE k = 0
      BY <1>5, <2>1
    <2>2. CASE k # 0
      <3>1. k - 1 \in Nat /\ (k - 1) + 1 = k
        BY <2>2
      <3> DEFINE j == k - 1
                 t == (x[j] * Limb + At(a, Len(a) - 1 - j)) % d
      <3>2. x[k] = t
        BY <1>5, <3>1
      <3>3. x[j] \in Nat
        BY <1>5, <3>1
      <3> HIDE DEF j
      <3>4. t \in 0..(d - 1)
        BY <1>1, <3>1, <3>3 DEF j
      <3> HIDE DEF t
      <3> QED
        BY <3>2, <3>4
    <2> QED
      BY <2>1, <2>2
  <1> QED
    BY <1>5, <1>6 DEF x

\* A remainder and the next limb, divided, give one limb.
LEMMA QuotientIsLimb ==
    ASSUME NEW d \in Nat \ {0}, NEW r \in 0..(d - 1), NEW y \in 0..(Limb - 1)
    PROVE  /\ r * Limb + y \in Nat
           /\ (r * Limb + y) \div d \in 0..(Limb - 1)
           /\ r * Limb + y = d * ((r * Limb + y) \div d) + ((r * Limb + y) % d)
           /\ (r * Limb + y) % d \in 0..(d - 1)
  <1> DEFINE t == r * Limb + y
             q == t \div d
             p == t % d
  <1>1. Limb \in Nat /\ Limb >= 2 /\ r \in Nat /\ y \in Nat
    BY LimbType
  <1>2. r * Limb \in Nat /\ r * Limb <= (d - 1) * Limb /\ (d - 1) * Limb = d * Limb - Limb
        /\ d * Limb \in Nat
    BY <1>1
  <1>3. t \in Nat /\ t < d * Limb
    <2> DEFINE rl == r * Limb
               dl == d * Limb
               el == (d - 1) * Limb
    <2>1. rl \in Nat /\ rl <= el /\ el = dl - Limb /\ dl \in Nat
      BY <1>2
    <2> HIDE DEF rl, dl, el
    <2>2. rl + y \in Nat /\ rl + y < dl
      BY <1>1, <2>1
    <2> QED
      BY <2>2 DEF rl, dl
  <1> HIDE DEF t
  <1>4. q \in Int /\ p \in 0..(d - 1) /\ t = d * q + p
    <2>1. t \in Int
      BY <1>3
    <2> QED
      BY <2>1, Division
  <1> HIDE DEF q, p
  <1>5. ASSUME q < 0 PROVE FALSE
    <2>1. q + 1 <= 0 /\ d * (q + 1) <= 0 /\ d * (q + 1) = d * q + d
      BY <1>4, <1>5
    <2> QED
      BY <1>3, <1>4, <2>1
  <1>6. ASSUME q >= Limb PROVE FALSE
    <2>1. d * q >= d * Limb /\ d * q \in Int /\ d * Limb \in Int
      BY <1>1, <1>4, <1>6
    <2> QED
      BY <1>3, <1>4, <2>1
  <1>7. q \in 0..(Limb - 1)
    BY <1>1, <1>4, <1>5, <1>6
  <1> QED
    BY <1>3, <1>4, <1>7 DEF q, p, t

\* Short division divides.
LEMMA ShortDivides ==
    ASSUME NEW a \in Words, NEW d \in 1..(Limb - 1)
    PROVE  LET s == ShortDivision(a, d) IN
           /\ s.quotient \in Magnitudes /\ s.rem \in Magnitudes
           /\ Val(a) = Val(s.quotient) * d + Val(s.rem)
           /\ Val(s.rem) < d
  <1> DEFINE n == Len(a)
             x == Remainders(a, d)
             q == [i \in 1..n |-> (x[n - i] * Limb + a[i]) \div d]
  <1>1. d \in Nat \ {0} /\ Limb \in Nat /\ n \in Nat /\ a \in Seq(Nat)
    BY LimbType, WordsAreNaturals
  <1>2. /\ x \in [Nat -> Nat] /\ x[0] = 0 /\ \A k \in Nat : x[k] < d
        /\ \A k \in Nat : x[k + 1] = (x[k] * Limb + At(a, n - 1 - k)) % d
    BY <1>1, RemaindersRun
  <1>15. \A k \in Nat : x[k] \in Nat
    <2> HIDE DEF x
    <2>1. x \in [Nat -> Nat]
      BY <1>2
    <2> QED
      BY <2>1
  <1> HIDE DEF x
  <1>3. ASSUME NEW i \in Nat, i < n
        PROVE  /\ (x[n - 1 - i] * Limb + At(a, i)) \div d \in 0..(Limb - 1)
               /\ At(a, i) = a[i + 1] /\ n - 1 - i \in Nat /\ n - (i + 1) = n - 1 - i
               /\ x[n - 1 - i] * Limb + At(a, i) =
                     d * ((x[n - 1 - i] * Limb + At(a, i)) \div d) + x[n - i]
               /\ x[n - i] \in Nat
    <2> DEFINE k == n - 1 - i
               r == x[k]
               y == At(a, i)
    <2>1. k \in Nat /\ n - 1 - k = i /\ k + 1 = n - i /\ n - (i + 1) = k
      BY <1>1, <1>3
    <2>2. y \in 0..(Limb - 1) /\ y = a[i + 1]
      <3>1. i \in Int
        OBVIOUS
      <3>2. i \in 0..(Len(a) - 1)
        BY <1>1, <1>3
      <3> QED
        BY <3>1, <3>2, AtType DEF At
    <2> HIDE DEF k
    <2>3. r \in 0..(d - 1)
      <3>1. x[k] \in Nat /\ x[k] < d
        BY <1>2, <2>1
      <3> QED
        BY <1>1, <3>1
    <2>4. x[n - i] = (r * Limb + y) % d /\ x[n - i] \in Nat
      <3>1. x[k + 1] = (x[k] * Limb + At(a, n - 1 - k)) % d
        BY <1>2, <2>1
      <3>2. k + 1 \in Nat
        BY <2>1
      <3>3. x[k + 1] \in Nat
        BY <1>15, <3>2
      <3> QED
        BY <2>1, <3>1, <3>3
    <2> HIDE DEF r, y
    <2>5. /\ (r * Limb + y) \div d \in 0..(Limb - 1)
          /\ r * Limb + y = d * ((r * Limb + y) \div d) + ((r * Limb + y) % d)
      BY <1>1, <2>2, <2>3, QuotientIsLimb
    <2> QED
      BY <2>1, <2>2, <2>4, <2>5 DEF r, y, k
  <1>4. q \in Words /\ Len(q) = n /\ q \in Seq(Nat)
    <2>1. ASSUME NEW i \in 1..n PROVE (x[n - i] * Limb + a[i]) \div d \in 0..(Limb - 1)
      <3> DEFINE j == i - 1
      <3>1. j \in Nat /\ j < n /\ i = j + 1 /\ n - i = n - 1 - j
        BY <1>1
      <3> HIDE DEF j
      <3>2. (x[n - 1 - j] * Limb + At(a, j)) \div d \in 0..(Limb - 1) /\ At(a, j) = a[i]
        BY <1>3, <3>1
      <3> QED
        BY <3>1, <3>2
    <2> DEFINE L == 0..(Limb - 1)
    <2>2. q \in [1..n -> L]
      BY <2>1
    <2> HIDE DEF q, L
    <2>3. q \in Seq(L) /\ Len(q) = n
      BY <1>1, <2>2, Table
    <2> QED
      BY <2>3, WordsAreNaturals DEF Words, L
  <1>5. ASSUME NEW i \in Nat, i < n
        PROVE  At(q, i) = (x[n - 1 - i] * Limb + At(a, i)) \div d
    <2>1. i \in 0..(Len(q) - 1) /\ i + 1 \in 1..n
      BY <1>1, <1>4, <1>5
    <2>2. At(q, i) = q[i + 1]
      BY <2>1 DEF At
    <2>3. q[i + 1] = (x[n - (i + 1)] * Limb + a[i + 1]) \div d
      BY <2>1
    <2> QED
      BY <1>3, <1>5, <2>2, <2>3
  <1> HIDE DEF q
  <1>6. /\ LimbsOf(a) \in [Nat -> Int] /\ LimbsOf(q) \in [Nat -> Int]
        /\ Val(a) = Positional(Limb, LimbsOf(a))[n]
        /\ Val(q) = Positional(Limb, LimbsOf(q))[n] /\ Val(q) \in Int
    <2>1. LimbsOf(a) \in [Nat -> Int]
      BY <1>1, UpRuns
    <2>2. LimbsOf(q) \in [Nat -> Int] /\ Val(q) \in Int
      BY <1>4, UpRuns
    <2>3. Len(a) = n /\ Len(q) = n
      BY <1>4
    <2> QED
      BY <2>1, <2>2, <2>3 DEF Val, Up
  <1>7. ASSUME NEW k \in Nat, k < n
        PROVE  x[k] * Limb + LimbsOf(a)[n - 1 - k] = d * LimbsOf(q)[n - 1 - k] + x[k + 1]
    <2> DEFINE i == n - 1 - k
    <2>1. i \in Nat /\ i < n /\ n - 1 - i = k /\ n - i = k + 1
      BY <1>1, <1>7
    <2> HIDE DEF i
    <2>2. /\ x[k] * Limb + At(a, i) = d * ((x[k] * Limb + At(a, i)) \div d) + x[k + 1]
          /\ At(q, i) = (x[k] * Limb + At(a, i)) \div d
      <3>1. x[n - 1 - i] * Limb + At(a, i)
                = d * ((x[n - 1 - i] * Limb + At(a, i)) \div d) + x[n - i]
        BY <1>3, <2>1
      <3>2. At(q, i) = (x[n - 1 - i] * Limb + At(a, i)) \div d
        BY <1>5, <2>1
      <3> HIDE DEF n
      <3> QED
        BY <2>1, <3>1, <3>2
    <2>3. x[k] * Limb + At(a, i) = d * At(q, i) + x[k + 1]
      BY <2>2
    <2>4. LimbsOf(a)[i] = At(a, i) /\ LimbsOf(q)[i] = At(q, i)
      BY <2>1 DEF LimbsOf
    <2>5. x[k] * Limb + LimbsOf(a)[i] = d * LimbsOf(q)[i] + x[k + 1]
      BY <2>3, <2>4
    <2> QED
      BY <2>5 DEF i
  <1>11. Val(a) = Val(q) * d + x[n]
    <2> DEFINE e == LimbsOf(a)
               f == LimbsOf(q)
    <2>1. e \in [Nat -> Int] /\ f \in [Nat -> Int] /\ x \in [Nat -> Int]
      <3>1. x \in [Nat -> Nat]
        BY <1>2
      <3> HIDE DEF n
      <3>2. x \in [Nat -> Int]
        BY <3>1
      <3> QED
        BY <1>6, <3>2
    <2>2. Limb \in Nat \ {0} /\ d \in Int
      BY <1>1, LimbType
    <2>3. Longhand(Limb, e, n, d, f, x)
      <3> HIDE DEF n
      <3>1. \A k \in Nat : k < n => x[k] * Limb + e[n - 1 - k] = d * f[n - 1 - k] + x[k + 1]
        BY <1>7
      <3> HIDE DEF e, f
      <3> QED
        BY <1>1, <1>2, <2>1, <2>2, <3>1 DEF Longhand
    <2> HIDE DEF e, f, n
    <2>4. Positional(Limb, e)[n] = d * Positional(Limb, f)[n] + x[n]
      BY <2>3, Schoolbook DEF Divided
    <2>5. Val(a) = d * Val(q) + x[n]
      BY <1>6, <2>4 DEF e, f
    <2>6. d * Val(q) = Val(q) * d
      BY <1>1, <1>6
    <2> QED
      BY <2>5, <2>6
  <1> DEFINE rest == IF x[n] # 0 THEN <<x[n]>> ELSE <<>>
  <1>12. rest \in Magnitudes /\ Val(rest) = x[n] /\ x[n] < d
    <2>1. x[n] \in Nat /\ x[n] < d
      BY <1>1, <1>2
    <2>2. x[n] \in 0..(Limb - 1)
      BY <1>1, <2>1
    <2> QED
      BY <2>1, <2>2, SingleLimb
  <1>13. ShortDivision(a, d) = [quotient |-> Strip(q), rem |-> rest]
    BY DEF ShortDivision, q, x
  <1>14. Strip(q) \in Magnitudes /\ Val(Strip(q)) = Val(q)
    BY <1>4, StripKeeps
  <1> HIDE DEF rest
  <1> QED
    BY <1>11, <1>12, <1>13, <1>14

-----------------------------------------------------------------------------
(* Bits *)

LEMMA WeightIsPower == \A i \in Nat : Powers(2)[i * Bits] = Weight[i]
  <1> DEFINE P == Powers(2)
             S == {i \in Nat : P[i * Bits] = Weight[i]}
  <1>1. Bits \in Nat /\ Limb \in Nat /\ P[Bits] = Limb /\ P[0] = 1
    <2>1. P[0] = 1
      BY PowersRun
    <2> QED
      BY <2>1, LimbType
  <1>2. Weight \in [Nat -> Nat \ {0}] /\ Weight[0] = 1 /\ \A i \in Nat : Weight[i + 1] = Limb * Weight[i]
    BY WeightRuns
  <1>3. 0 \in S
    BY <1>1, <1>2
  <1>4. ASSUME NEW i \in Nat, i \in S PROVE i + 1 \in S
    <2>1. i * Bits \in Nat /\ (i + 1) * Bits = i * Bits + Bits
      BY <1>1
    <2>2. P[i * Bits + Bits] = P[i * Bits] * P[Bits]
      <3> DEFINE k == i * Bits
      <3>1. k \in Nat
        BY <2>1
      <3> HIDE DEF k
      <3>2. P[k + Bits] = P[k] * P[Bits]
        BY <1>1, <3>1, PowersAdd
      <3> QED
        BY <3>2 DEF k
    <2>3. Weight[i] * Limb = Limb * Weight[i]
      BY <1>1, <1>2
    <2> QED
      BY <1>1, <1>2, <1>4, <2>1, <2>2, <2>3
  <1>5. \A i \in Nat : i \in S
    <2> HIDE DEF S
    <2> QED
      BY <1>3, <1>4, SetInduction
  <1> QED
    BY <1>5

\* Bits from i on, by how many of them are counted.
BitsFrom(e, i) == Positional(2, [j \in Nat |-> e[i + j]])

LEMMA BitsFromType ==
    ASSUME NEW e \in [Nat -> Int], NEW i \in Nat
    PROVE  BitsFrom(e, i) \in [Nat -> Int]
  <1> DEFINE f == [j \in Nat |-> e[i + j]]
  <1>1. f \in [Nat -> Int] /\ 2 \in Int
    OBVIOUS
  <1> HIDE DEF f
  <1>2. Positional(2, f) \in [Nat -> Int]
    BY <1>1, PositionalRuns
  <1> QED
    BY <1>2 DEF BitsFrom, f

\* Bits taken Bits at a time are limbs.
LEMMA Regroup ==
    ASSUME NEW e \in [Nat -> Int], NEW g \in [Nat -> Int],
           \A i \in Nat : g[i] = BitsFrom(e, i * Bits)[Bits]
    PROVE  \A m \in Nat : Positional(2, e)[m * Bits] = Positional(Limb, g)[m]
  <1> DEFINE V == Positional(2, e)
             G == Positional(Limb, g)
             S == {m \in Nat : V[m * Bits] = G[m]}
  <1>1. Bits \in Nat /\ Limb \in Int /\ 2 \in Int
    BY LimbType
  <1>2. V[0] = 0
    BY <1>1, PositionalRuns
  <1>3. G[0] = 0 /\ \A i \in Nat : G[i + 1] = G[i] + g[i] * Weight[i]
    BY <1>1, PositionalRuns DEF Weight
  <1>4. 0 \in S
    BY <1>1, <1>2, <1>3
  <1>5. ASSUME NEW i \in Nat, i \in S PROVE i + 1 \in S
    <2> DEFINE k == i * Bits
    <2>1. k \in Nat /\ (i + 1) * Bits = k + Bits
      BY <1>1
    <2>2. Powers(2)[k] = Weight[i]
      BY WeightIsPower
    <2>3. g[i] = BitsFrom(e, k)[Bits]
      OBVIOUS
    <2>4. V[k] = G[i]
      BY <1>5
    <2> HIDE DEF k
    <2>5. V[k + Bits] = V[k] + BitsFrom(e, k)[Bits] * Powers(2)[k]
      <3>1. Positional(2, e)[k + Bits]
                = Positional(2, e)[k]
                      + Positional(2, [j \in Nat |-> e[k + j]])[Bits] * Powers(2)[k]
        <4>1. \A m \in Nat :
                 Positional(2, e)[k + m]
                     = Positional(2, e)[k]
                           + Positional(2, [j \in Nat |-> e[k + j]])[m] * Powers(2)[k]
          BY <1>1, <2>1, PositionalSplits
        <4> QED
          BY <1>1, <4>1
      <3> QED
        BY <3>1 DEF BitsFrom
    <2>6. V[k + Bits] = G[i + 1]
      BY <1>3, <2>2, <2>3, <2>4, <2>5
    <2> QED
      BY <2>1, <2>6
  <1>6. \A m \in Nat : m \in S
    <2> HIDE DEF S
    <2> QED
      BY <1>4, <1>5, SetInduction
  <1> QED
    BY <1>6

\* The bits of a number below a power of 2 make it up.
LEMMA BinaryDigits ==
    ASSUME NEW m \in Nat, NEW x \in 0..(Powers(2)[m] - 1), NEW f \in [Nat -> Int],
           \A j \in Nat : j < m => f[j] = (x \div Powers(2)[j]) % 2
    PROVE  Positional(2, f)[m] = x
  <1> DEFINE P == Powers(2)
             V == Positional(2, f)
             S == {k \in Nat : V[k] = x % P[k]}
  <1>1. P \in [Nat -> Nat \ {0}] /\ P[0] = 1 /\ \A k \in Nat : P[k + 1] = 2 * P[k]
    <2>1. 2 \in Nat \ {0} /\ 2 \in Int
      OBVIOUS
    <2> QED
      BY <2>1, PowersRun, PowersPositive
  <1>2. V[0] = 0 /\ \A k \in Nat : V[k + 1] = V[k] + f[k] * P[k]
    <2>1. 2 \in Int
      OBVIOUS
    <2> QED
      BY <2>1, PositionalRuns
  <1>3. x \in Nat /\ x < P[m]
    BY <1>1
  <1> HIDE DEF P, V
  <1>4. 0 \in S
    BY <1>1, <1>2, <1>3
  <1>5. ASSUME NEW k \in Nat, k < m, k \in S PROVE k + 1 \in S
    <2> DEFINE p == P[k]
               y == x \div p
               z == y % 2
               r == x % p
               h == y \div 2
    <2>1. p \in Nat \ {0} /\ P[k + 1] = 2 * p
      BY <1>1
    <2> HIDE DEF p
    <2>2. y \in Int /\ r \in 0..(p - 1) /\ x = p * y + r
      <3>1. x \in Int
        BY <1>3
      <3> QED
        BY <2>1, <3>1, Division
    <2> HIDE DEF y, r
    <2>3. h \in Int /\ z \in 0..1 /\ y = 2 * h + z
      BY <2>2
    <2>4. f[k] = z
      BY <1>5 DEF y, p, P
    <2>5. V[k + 1] = r + z * p
      BY <1>2, <1>5, <2>4 DEF r, p
    <2> HIDE DEF h, z
    <2>6. x = (2 * p) * h + (r + z * p)
      BY <2>1, <2>2, <2>3
    <2>7. r + z * p \in 0..(2 * p - 1)
      <3>1. CASE z = 0
        BY <2>1, <2>2, <3>1
      <3>2. CASE z = 1
        BY <2>1, <2>2, <3>2
      <3> QED
        BY <2>3, <3>1, <3>2
    <2>8. x % (2 * p) = r + z * p
      <3> DEFINE D == 2 * p
                 R == r + z * p
      <3>1. D \in Nat \ {0} /\ R \in 0..(D - 1) /\ x = D * h + R /\ x \in Int /\ h \in Int
        BY <1>3, <2>1, <2>3, <2>6, <2>7
      <3> HIDE DEF D, R
      <3>2. x % D = R
        BY <3>1, DivisionOf
      <3> QED
        BY <3>2 DEF D, R
    <2> QED
      BY <2>1, <2>5, <2>8
  <1>6. m \in S
    <2>1. \A k \in 0..m : k \in S
      <3> HIDE DEF S
      <3> QED
        BY <1>4, <1>5, BoundedInduction
    <2> QED
      BY <2>1
  <1>7. x % P[m] = x
    <2>1. P[m] \in Nat \ {0} /\ x \in 0..(P[m] - 1) /\ x = P[m] * 0 + x
      BY <1>1, <1>3
    <2> QED
      BY <1>3, <2>1, DivisionOf
  <1> QED
    BY <1>6, <1>7 DEF V

\* Shifts by up to a limb.
LEMMA Shifts ==
    ASSUME NEW j \in Nat, j < Bits
    PROVE  2^j = Powers(2)[j] /\ 2^j \in Nat \ {0}
  <1>1. HalfBits \in Nat
    BY BigIntAssumption
  <1> DEFINE B == 2 * HalfBits
  <1>2. B \in Nat /\ j < B
    BY <1>1 DEF Bits
  <1> HIDE DEF B
  <1>3. j \in 0..B
    BY <1>2
  <1>4. 2^j = Powers(2)[j]
    BY <1>3, PowAssumption DEF B
  <1>5. 2 \in Nat \ {0}
    OBVIOUS
  <1>6. Powers(2) \in [Nat -> Nat \ {0}]
    BY <1>5, PowersPositive
  <1> QED
    BY <1>4, <1>6

LEMMA GetBitType ==
    ASSUME NEW a \in Words, NEW i \in Int
    PROVE  GetBit(a, i) \in {0, 1}
  <1> DEFINE k == i \div Bits
             j == i % Bits
             x == At(a, k)
             y == x \div 2^j
  <1>1. Bits \in Nat \ {0}
    BY LimbType
  <1>2. k \in Int /\ j \in 0..(Bits - 1)
    BY <1>1, Division
  <1> HIDE DEF k, j
  <1>3. x \in Int
    <2>1. x \in 0..(Limb - 1)
      BY <1>2, AtType
    <2> QED
      BY <2>1, LimbType
  <1>4. j \in Nat /\ j < Bits
    BY <1>1, <1>2
  <1>5. 2^j \in Nat \ {0}
    BY <1>4, Shifts
  <1> HIDE DEF x
  <1>6. y \in Int
    <2> DEFINE w == 2^j
    <2> HIDE DEF w
    <2>1. x \div w \in Int
      BY <1>3, <1>5, Division DEF w
    <2> QED
      BY <2>1 DEF w
  <1> HIDE DEF y
  <1>7. y % 2 \in {0, 1}
    BY <1>6
  <1> QED
    BY <1>7 DEF GetBit, y, x, k, j

\* The bits of all limbs are the number.
LEMMA BitsAreValue ==
    ASSUME NEW a \in Words
    PROVE  /\ [i \in Nat |-> GetBit(a, i)] \in [Nat -> Int]
           /\ Positional(2, [i \in Nat |-> GetBit(a, i)])[Len(a) * Bits] = Val(a)
  <1> DEFINE e == [i \in Nat |-> GetBit(a, i)]
             g == LimbsOf(a)
  <1>1. Bits \in Nat \ {0} /\ Limb = Powers(2)[Bits] /\ a \in Seq(Nat) /\ Len(a) \in Nat
    BY LimbType, WordsAreNaturals
  <1>2. e \in [Nat -> Int]
    <2>1. ASSUME NEW i \in Nat PROVE GetBit(a, i) \in Int
      <3>1. i \in Int
        OBVIOUS
      <3>2. GetBit(a, i) \in {0, 1}
        BY <3>1, GetBitType
      <3> QED
        BY <3>2
    <2> QED
      BY <2>1
  <1>3. g \in [Nat -> Int]
    BY <1>1, UpRuns
  <1>4. ASSUME NEW i \in Nat PROVE g[i] = BitsFrom(e, i * Bits)[Bits]
    <2> DEFINE k == i * Bits
               f == [j \in Nat |-> e[k + j]]
               x == At(a, i)
    <2>1. k \in Nat
      BY <1>1
    <2>2. ASSUME NEW j \in Nat, j < Bits
          PROVE  f[j] = (x \div Powers(2)[j]) % 2
      <3>1. k + j \in Nat /\ k + j \in Int /\ k + j = Bits * i + j /\ j \in 0..(Bits - 1) /\ i \in Int
        BY <1>1, <2>1, <2>2
      <3>2. (k + j) \div Bits = i /\ (k + j) % Bits = j
        <4> DEFINE n == k + j
        <4> HIDE DEF n, k
        <4>1. n \in Int /\ n = Bits * i + j /\ j \in 0..(Bits - 1) /\ i \in Int
          BY <3>1 DEF n
        <4>2. n \div Bits = i /\ n % Bits = j
          BY <1>1, <4>1, DivisionOf
        <4> QED
          BY <4>2 DEF n
      <3>3. 2^j = Powers(2)[j]
        BY <2>2, Shifts
      <3> HIDE DEF k
      <3>4. f[j] = GetBit(a, k + j)
        BY <3>1
      <3> QED
        BY <3>2, <3>3, <3>4 DEF GetBit
    <2>3. f \in [Nat -> Int]
      <3> HIDE DEF e, k
      <3> QED
        BY <1>2, <2>1
    <2>4. x \in 0..(Limb - 1)
      <3>1. i \in Int
        OBVIOUS
      <3> QED
        BY <3>1, AtType
    <2>5. g[i] = x
      BY DEF LimbsOf
    <2>6. Positional(2, f)[Bits] = x
      <3> HIDE DEF f, x
      <3>1. x \in 0..(Powers(2)[Bits] - 1)
        BY <1>1, <2>4
      <3> QED
        BY <1>1, <2>2, <2>3, <3>1, BinaryDigits
    <2>7. Positional(2, f) = BitsFrom(e, k)
      BY DEF BitsFrom
    <2> QED
      BY <2>5, <2>6, <2>7
  <1> HIDE DEF e, g
  <1>5. Positional(2, e)[Len(a) * Bits] = Positional(Limb, g)[Len(a)]
    BY <1>1, <1>2, <1>3, <1>4, Regroup
  <1> QED
    BY <1>2, <1>5 DEF Val, Up, g, e

-----------------------------------------------------------------------------
(* Division by several limbs *)

\* Twice a limb is a limb, one short of full, and a bit carried out.
LEMMA DoubleLimb ==
    ASSUME NEW y \in 0..(Limb - 1)
    PROVE  /\ (2 * y) \div Limb \in {0, 1} /\ (2 * y) % Limb \in 0..(Limb - 2)
           /\ 2 * y = Limb * ((2 * y) \div Limb) + ((2 * y) % Limb)
           /\ (2 * y) \div Limb = 0 => (2 * y) % Limb = 2 * y
  <1> DEFINE M == Powers(2)[Bits - 1]
             t == 2 * y
  <1>1. Limb \in Nat \ {0} /\ y \in Nat
    BY LimbType
  <1>2. M \in Nat \ {0} /\ Limb = 2 * M
    <2>1. Bits - 1 \in Nat /\ (Bits - 1) + 1 = Bits
      BY LimbType
    <2>2. 2 \in Nat \ {0} /\ 2 \in Int
      OBVIOUS
    <2>3. Powers(2)[(Bits - 1) + 1] = 2 * M
      BY <2>1, <2>2, PowersRun
    <2>4. Powers(2) \in [Nat -> Nat \ {0}]
      BY <2>2, PowersPositive
    <2> QED
      BY <2>1, <2>3, <2>4, LimbType
  <1> HIDE DEF M
  <1>3. CASE y < M
    <2>1. t \in 0..(Limb - 2) /\ t \in 0..(Limb - 1) /\ t = Limb * 0 + t /\ t \in Int
      BY <1>1, <1>2, <1>3
    <2> HIDE DEF t
    <2>2. t \div Limb = 0 /\ t % Limb = t
      BY <1>1, <2>1, DivisionOf
    <2> QED
      BY <1>1, <2>1, <2>2 DEF t
  <1>4. CASE ~(y < M)
    <2> DEFINE r == t - Limb
    <2>1. r \in 0..(Limb - 2) /\ r \in 0..(Limb - 1) /\ t = Limb * 1 + r /\ t \in Int
      BY <1>1, <1>2, <1>4
    <2> HIDE DEF t, r
    <2>2. t \div Limb = 1 /\ t % Limb = r
      BY <1>1, <2>1, DivisionOf
    <2> QED
      BY <1>1, <2>1, <2>2 DEF t
  <1> QED
    BY <1>3, <1>4

\* shl1 doubles, and leaves room for a bit.
LEMMA Doubling ==
    ASSUME NEW a \in Magnitudes
    PROVE  /\ Shl1(a) \in Magnitudes /\ Val(Shl1(a)) = 2 * Val(a)
           /\ Len(Shl1(a)) > 0 => Shl1(a)[1] \in 0..(Limb - 2)
  <1> DEFINE n == Len(a)
             h(k) == (2 * At(a, k - 1)) \div Limb
             l(k) == (2 * At(a, k)) % Limb
             s == [i \in 1..n |-> ((2 * a[i]) % Limb) + (2 * At(a, i - 2)) \div Limb]
             out == h(n)
  <1>1. a \in Words /\ a \in Seq(Nat) /\ n \in Nat /\ Limb \in Nat \ {0} /\ Limb >= 2
    <2>1. a \in Words /\ a \in Seq(Nat)
      BY WordsAreNaturals
    <2> QED
      BY <2>1, LimbType
  <1>2. Shl1(a) = s \o (IF out # 0 THEN <<out>> ELSE <<>>)
    BY DEF Shl1
  <1>3. ASSUME NEW k \in Nat
        PROVE  /\ h(k) \in {0, 1} /\ l(k) \in 0..(Limb - 2) /\ At(a, k) \in 0..(Limb - 1)
               /\ 2 * At(a, k) = Limb * h(k + 1) + l(k)
               /\ h(k + 1) = 0 => l(k) = 2 * At(a, k)
    <2>1. k \in Int /\ k - 1 \in Int /\ (k + 1) - 1 = k
      OBVIOUS
    <2>2. At(a, k) \in 0..(Limb - 1) /\ At(a, k - 1) \in 0..(Limb - 1)
      BY <1>1, <2>1, AtType
    <2>3. h(k) \in {0, 1}
      BY <2>2, DoubleLimb
    <2> DEFINE y == At(a, k)
    <2>4. h(k + 1) = (2 * y) \div Limb
      BY <2>1
    <2>5. /\ l(k) \in 0..(Limb - 2) /\ 2 * y = Limb * ((2 * y) \div Limb) + l(k)
          /\ (2 * y) \div Limb = 0 => l(k) = 2 * y
      BY <2>2, DoubleLimb
    <2> HIDE DEF h
    <2> QED
      BY <2>2, <2>3, <2>4, <2>5
  <1>4. h(0) = 0
    <2>1. At(a, 0 - 1) = 0
      BY <1>1 DEF At
    <2>2. 0 \in 0..(Limb - 1) /\ 2 * 0 = 0
      BY <1>1
    <2>3. 0 \div Limb = 0
      BY <1>1, <2>2
    <2> QED
      BY <2>1, <2>2, <2>3
  <1>5. ASSUME NEW k \in Nat, k < n PROVE s[k + 1] = l(k) + h(k)
    <2>1. k + 1 \in 1..n /\ k \in 0..(n - 1) /\ (k + 1) - 2 = k - 1
      BY <1>1, <1>5
    <2>2. At(a, k) = a[k + 1]
      BY <2>1 DEF At
    <2> QED
      BY <2>1, <2>2
  <1>6. s \in Words /\ Len(s) = n /\ s \in Seq(Nat)
    <2>1. ASSUME NEW i \in 1..n
          PROVE ((2 * a[i]) % Limb) + (2 * At(a, i - 2)) \div Limb \in 0..(Limb - 1)
      <3> DEFINE k == i - 1
      <3>1. k \in Nat /\ k < n /\ k + 1 = i
        BY <1>1
      <3> HIDE DEF k
      <3>2. s[i] = l(k) + h(k) /\ l(k) \in 0..(Limb - 2) /\ h(k) \in {0, 1}
        BY <1>3, <1>5, <3>1
      <3> HIDE DEF h, l
      <3>3. l(k) + h(k) \in 0..(Limb - 1)
        <4> DEFINE y == l(k)
                   z == h(k)
        <4>1. y \in 0..(Limb - 2) /\ z \in {0, 1}
          BY <3>2
        <4> HIDE DEF y, z
        <4>2. y + z \in 0..(Limb - 1)
          BY <1>1, <4>1
        <4> QED
          BY <4>2 DEF y, z
      <3> QED
        BY <3>2, <3>3
    <2> DEFINE S == 0..(Limb - 1)
    <2>2. s \in [1..n -> S]
      BY <2>1
    <2> HIDE DEF s, S
    <2>3. s \in Seq(S) /\ Len(s) = n
      BY <1>1, <2>2, Table
    <2> QED
      BY <2>3, WordsAreNaturals DEF Words, S
  <1> HIDE DEF s
  <1>7. ASSUME NEW k \in Nat, k < n PROVE At(s, k) = l(k) + h(k)
    <2>1. k \in 0..(Len(s) - 1)
      BY <1>1, <1>6, <1>7
    <2>2. At(s, k) = s[k + 1]
      BY <2>1 DEF At
    <2> QED
      BY <1>5, <1>7, <2>2
  <1> DEFINE S == {k \in Nat : Up(s)[k] + h(k) * Weight[k] = 2 * Up(a)[k]}
  <1>8. /\ Up(a) \in [Nat -> Int] /\ Up(s) \in [Nat -> Int] /\ Up(a)[0] = 0 /\ Up(s)[0] = 0
        /\ \A k \in Nat : Up(a)[k + 1] = Up(a)[k] + At(a, k) * Weight[k]
        /\ \A k \in Nat : Up(s)[k + 1] = Up(s)[k] + At(s, k) * Weight[k]
    <2>1. /\ Up(a) \in [Nat -> Int] /\ Up(a)[0] = 0
          /\ \A k \in Nat : Up(a)[k + 1] = Up(a)[k] + At(a, k) * Weight[k]
      BY <1>1, UpRuns
    <2>2. /\ Up(s) \in [Nat -> Int] /\ Up(s)[0] = 0
          /\ \A k \in Nat : Up(s)[k + 1] = Up(s)[k] + At(s, k) * Weight[k]
      BY <1>6, UpRuns
    <2> QED
      BY <2>1, <2>2
  <1>9. Weight \in [Nat -> Nat \ {0}] /\ \A k \in Nat : Weight[k + 1] = Limb * Weight[k]
    BY WeightRuns
  <1> HIDE DEF h, l
  <1>10. 0 \in S
    <2>1. Weight[0] \in Nat /\ 2 * 0 = 0
      BY <1>9
    <2>2. 0 * Weight[0] = 0
      BY <2>1
    <2>3. Up(s)[0] + h(0) * Weight[0] = 2 * Up(a)[0]
      BY <1>4, <1>8, <2>1, <2>2
    <2> QED
      BY <2>3
  <1>11. ASSUME NEW k \in Nat, k < n, k \in S PROVE k + 1 \in S
    <2> DEFINE y == At(a, k)
               w == Weight[k]
               p == l(k)
               e == h(k)
               q == h(k + 1)
               ua == Up(a)[k]
               us == Up(s)[k]
    <2>1. /\ y \in Int /\ w \in Int /\ p \in Int /\ e \in Int /\ q \in Int
          /\ 2 * y = Limb * q + p
      <3>1. e \in {0, 1} /\ p \in 0..(Limb - 2) /\ y \in 0..(Limb - 1) /\ 2 * y = Limb * q + p
        BY <1>3
      <3>2. q \in {0, 1}
        <4>1. k + 1 \in Nat
          OBVIOUS
        <4> QED
          BY <1>3, <4>1
      <3>3. w \in Int
        BY <1>9
      <3> HIDE DEF e, p, y, q, w
      <3> QED
        BY <1>1, <3>1, <3>2, <3>3
    <2>2. /\ Up(a)[k + 1] = ua + y * w /\ Up(s)[k + 1] = us + (p + e) * w
          /\ Weight[k + 1] = Limb * w /\ us + e * w = 2 * ua
      BY <1>7, <1>8, <1>9, <1>11
    <2>3. ua \in Int /\ us \in Int
      BY <1>8
    <2> HIDE DEF y, w, p, e, q, ua, us
    <2>4. (2 * y) * w = q * (Limb * w) + p * w
      <3>1. Limb * q \in Int
        BY <1>1, <2>1
      <3> DEFINE A == Limb * q
      <3> HIDE DEF A
      <3>2. (A + p) * w = A * w + p * w
        BY <2>1, <3>1, Distribute DEF A
      <3>3. A * w = q * (Limb * w)
        BY <1>1, <2>1 DEF A
      <3> QED
        BY <2>1, <3>2, <3>3 DEF A
    <2>5. (us + (p + e) * w) + q * (Limb * w) = 2 * (ua + y * w)
      <3>1. (p + e) * w = p * w + e * w
        BY <2>1, Distribute
      <3>2. (2 * y) * w = 2 * (y * w)
        BY <2>1
      <3> DEFINE A == p * w
                 B == e * w
                 C == y * w
                 D == q * (Limb * w)
                 E == (p + e) * w
                 F == (2 * y) * w
      <3>3. /\ A \in Int /\ B \in Int /\ C \in Int /\ D \in Int
            /\ E = A + B /\ F = 2 * C /\ F = D + A /\ us + B = 2 * ua
        <4>1. Limb * w \in Int
          BY <1>1, <2>1
        <4> QED
          BY <2>1, <2>2, <2>4, <3>1, <3>2, <4>1, Products
      <3> HIDE DEF A, B, C, D, E, F
      <3>4. (us + E) + D = 2 * (ua + C)
        BY <2>3, <3>3
      <3> QED
        BY <3>4 DEF E, D, C
    <2> QED
      BY <2>2, <2>5 DEF q
  <1>12. Up(s)[n] + out * Weight[n] = 2 * Up(a)[n]
    <2>1. \A k \in 0..n : k \in S
      <3> HIDE DEF S
      <3> QED
        BY <1>1, <1>10, <1>11, BoundedInduction
    <2> QED
      BY <1>1, <2>1
  <1>13. Up(s)[n] = Val(s) /\ Up(a)[n] = Val(a)
    BY <1>6 DEF Val
  <1>14. out \in {0, 1}
    BY <1>1, <1>3
  <1>15. CASE out # 0
    <2>1. out = 1 /\ out \in 0..(Limb - 1)
      BY <1>1, <1>14, <1>15
    <2>2. Shl1(a) = s \o <<out>>
      BY <1>2, <1>15
    <2> HIDE DEF out
    <2>3. /\ Shl1(a) \in Words /\ Len(Shl1(a)) = n + 1 /\ Shl1(a)[n + 1] = out
          /\ Val(Shl1(a)) = Val(s) + out * Weight[n]
      <3>1. s \in Words /\ Len(s) = n
        BY <1>6
      <3> HIDE DEF s
      <3>2. /\ s \o <<out>> \in Words /\ Len(s \o <<out>>) = Len(s) + 1
            /\ (s \o <<out>>)[Len(s) + 1] = out
            /\ Val(s \o <<out>>) = Val(s) + out * Weight[Len(s)]
        BY <2>1, <3>1, PushLimb
      <3> QED
        BY <2>2, <3>1, <3>2
    <2>4. Shl1(a) \in Magnitudes
      BY <2>1, <2>3 DEF Magnitudes, Words
    <2>5. n > 0
      <3>1. ASSUME n = 0 PROVE FALSE
        BY <1>4, <1>15, <3>1 DEF out
      <3> QED
        BY <1>1, <3>1
    <2>6. Shl1(a)[1] = s[1]
      BY <1>6, <2>2, <2>5
    <2>7. s[1] \in 0..(Limb - 2)
      <3>1. s[0 + 1] = l(0) + h(0) /\ l(0) \in 0..(Limb - 2)
        BY <1>3, <1>5, <2>5
      <3>2. l(0) + h(0) = l(0)
        BY <1>4, <3>1
      <3> QED
        BY <3>1, <3>2
    <2> QED
      BY <1>12, <1>13, <2>3, <2>4, <2>6, <2>7 DEF out
  <1>16. CASE out = 0
    <2>1. Shl1(a) = s
      <3>1. Shl1(a) = s \o <<>>
        BY <1>2, <1>16
      <3> QED
        BY <1>6, <3>1
    <2>2. Val(s) = 2 * Val(a)
      <3>1. Val(s) \in Int /\ Weight[n] \in Int
        <4>1. Val(s) \in Int
          BY <1>6, UpRuns
        <4> QED
          BY <1>1, <1>9, <4>1
      <3>2. 0 * Weight[n] = 0
        BY <3>1
      <3> QED
        BY <1>12, <1>13, <1>16, <3>1, <3>2
    <2>3. ASSUME n > 0 PROVE s[n] # 0 /\ s[1] \in 0..(Limb - 2)
      <3> DEFINE k == n - 1
      <3>1. k \in Nat /\ k < n /\ k + 1 = n
        BY <1>1, <2>3
      <3>2. At(a, k) = a[n] /\ a[n] # 0
        <4>1. k \in 0..(Len(a) - 1)
          BY <1>1, <3>1
        <4>2. At(a, k) = a[k + 1]
          BY <4>1 DEF At
        <4> QED
          BY <2>3, <3>1, <4>2 DEF Magnitudes
      <3> HIDE DEF k
      <3>3. /\ s[n] = l(k) + h(k) /\ h(k) \in {0, 1} /\ At(a, k) \in 0..(Limb - 1)
            /\ h(k + 1) = 0 => l(k) = 2 * At(a, k)
        BY <1>3, <1>5, <3>1
      <3>4. l(k) = 2 * At(a, k)
        BY <1>16, <3>1, <3>3
      <3>5. s[n] # 0
        <4> DEFINE y == At(a, k)
        <4>1. y \in Nat /\ y # 0 /\ s[n] = 2 * y + h(k) /\ h(k) \in {0, 1}
          BY <1>1, <3>2, <3>3, <3>4
        <4> HIDE DEF y
        <4> QED
          BY <4>1
      <3>6. s[0 + 1] = l(0) + h(0) /\ l(0) \in 0..(Limb - 2)
        BY <1>3, <1>5, <2>3
      <3>7. l(0) + h(0) = l(0)
        BY <1>4, <3>6
      <3> QED
        BY <3>5, <3>6, <3>7
    <2>4. s \in Magnitudes
      BY <1>6, <2>3 DEF Magnitudes, Words
    <2> QED
      BY <1>6, <2>1, <2>2, <2>3, <2>4
  <1> QED
    BY <1>15, <1>16

\* Setting the bit that doubling left free adds it.
LEMMA LowBit ==
    ASSUME NEW s \in Magnitudes, Len(s) > 0 => s[1] \in 0..(Limb - 2), NEW bit \in {0, 1}
    PROVE  SetBit0(s, bit) \in Magnitudes /\ Val(SetBit0(s, bit)) = Val(s) + bit
  <1>1. s \in Words /\ s \in Seq(Nat) /\ Len(s) \in Nat /\ Val(s) \in Int
    <2>1. s \in Words /\ s \in Seq(Nat)
      BY WordsAreNaturals
    <2> QED
      BY <2>1, UpRuns
  <1>2. CASE bit = 0
    BY <1>1, <1>2 DEF SetBit0
  <1>3. CASE bit = 1 /\ s = <<>>
    <2>1. 1 \in 0..(Limb - 1)
      BY LimbType
    <2>2. <<1>> \in Magnitudes /\ Val(<<1>>) = 1
      BY <2>1, SingleLimb
    <2>3. SetBit0(s, bit) = <<1>>
      BY <1>3 DEF SetBit0
    <2> QED
      BY <1>3, <2>2, <2>3, EmptyVal
  <1>4. CASE bit = 1 /\ s # <<>>
    <2> DEFINE t == [s EXCEPT ![1] = @ + 1]
               n == Len(s)
    <2>1. SetBit0(s, bit) = t
      BY <1>4 DEF SetBit0
    <2>2. n > 0 /\ 1 \in 1..n /\ s[1] \in 0..(Limb - 2) /\ s[1] + 1 \in 0..(Limb - 1)
      <3>1. n > 0 /\ 1 \in 1..n
        BY <1>1, <1>4
      <3>2. s[1] \in 0..(Limb - 2)
        BY <3>1
      <3>3. Limb \in Nat
        BY LimbType
      <3> QED
        BY <3>1, <3>2, <3>3
    <2>3. t \in Words /\ Len(t) = n /\ t \in Seq(Nat)
      <3> DEFINE S == 0..(Limb - 1)
      <3>1. s \in Seq(S) /\ s[1] + 1 \in S
        BY <1>1, <2>2 DEF Words
      <3> HIDE DEF S
      <3>2. s \in [1..n -> S]
        BY <3>1, SequenceIsFunction
      <3>3. t \in [1..n -> S]
        BY <2>2, <3>1, <3>2
      <3> HIDE DEF t
      <3>4. t \in Seq(S) /\ Len(t) = n
        BY <1>1, <3>3, Table
      <3> QED
        BY <3>4, WordsAreNaturals DEF Words, S
    <2>4. t[1] = s[1] + 1 /\ \A i \in 2..n : t[i] = s[i]
      BY <1>1, <2>2
    <2> HIDE DEF t, n
    <2>5. At(s, 0) \in Nat /\ At(t, 0) = At(s, 0) + 1 /\ \A k \in Nat : At(t, k + 1) = At(s, k + 1)
      <3>1. At(s, 0) = s[1] /\ At(t, 0) = t[1]
        BY <1>1, <2>2, <2>3 DEF At, n
      <3>2. s[1] \in Nat
        BY <2>2, LimbType
      <3>3. ASSUME NEW k \in Nat PROVE At(t, k + 1) = At(s, k + 1)
        BY <1>1, <2>3, <2>4 DEF At, n
      <3> QED
        BY <2>4, <3>1, <3>2, <3>3
    <2>6. /\ Up(s) \in [Nat -> Int] /\ Up(t) \in [Nat -> Int] /\ Up(s)[0] = 0 /\ Up(t)[0] = 0
          /\ \A k \in Nat : Up(s)[k + 1] = Up(s)[k] + At(s, k) * Weight[k]
          /\ \A k \in Nat : Up(t)[k + 1] = Up(t)[k] + At(t, k) * Weight[k]
      <3>1. /\ Up(s) \in [Nat -> Int] /\ Up(s)[0] = 0
            /\ \A k \in Nat : Up(s)[k + 1] = Up(s)[k] + At(s, k) * Weight[k]
        BY <1>1, UpRuns
      <3>2. /\ Up(t) \in [Nat -> Int] /\ Up(t)[0] = 0
            /\ \A k \in Nat : Up(t)[k + 1] = Up(t)[k] + At(t, k) * Weight[k]
        BY <2>3, UpRuns
      <3> QED
        BY <3>1, <3>2
    <2>7. Weight[0] = 1 /\ \A k \in Nat : Weight[k] \in Int
      BY WeightRuns
    <2> DEFINE S == {k \in Nat : Up(t)[k + 1] = Up(s)[k + 1] + 1}
    <2>8. 0 \in S
      <3>1. Up(t)[0 + 1] = 0 + (At(s, 0) + 1) * 1 /\ Up(s)[0 + 1] = 0 + At(s, 0) * 1
        BY <2>5, <2>6, <2>7
      <3> QED
        BY <2>5, <3>1
    <2>9. ASSUME NEW k \in Nat, k \in S PROVE k + 1 \in S
      <3> DEFINE x == At(s, k + 1) * Weight[k + 1]
                 us == Up(s)[k + 1]
                 ut == Up(t)[k + 1]
      <3>1. k + 1 \in Nat
        OBVIOUS
      <3>2. x \in Int
        <4>1. At(s, k + 1) \in Nat
          BY <1>1, <3>1, AtNatural
        <4> QED
          BY <2>7, <3>1, <4>1, Products
      <3>3. us \in Int /\ ut \in Int /\ ut = us + 1
        BY <2>6, <2>9, <3>1
      <3>4. Up(s)[(k + 1) + 1] = us + x /\ Up(t)[(k + 1) + 1] = ut + x
        BY <2>5, <2>6, <3>1
      <3> HIDE DEF us, ut, x
      <3>5. Up(t)[(k + 1) + 1] = Up(s)[(k + 1) + 1] + 1
        BY <3>2, <3>3, <3>4
      <3> QED
        BY <3>1, <3>5
    <2>10. \A k \in Nat : k \in S
      <3> HIDE DEF S
      <3> QED
        BY <2>8, <2>9, SetInduction
    <2>11. Up(t)[n] = Up(s)[n] + 1
      <3>1. n - 1 \in Nat /\ (n - 1) + 1 = n
        BY <1>1, <2>2 DEF n
      <3> QED
        BY <2>10, <3>1
    <2>12. Val(t) = Val(s) + 1
      BY <2>3, <2>11 DEF Val, n
    <2>13. t \in Magnitudes
      <3>1. t[n] # 0
        <4>1. CASE n = 1
          BY <2>2, <2>4, <4>1, LimbType
        <4>2. CASE n # 1
          <5>0. n \in Nat /\ n > 0
            BY <1>1, <2>2 DEF n
          <5>1. n \in 2..n
            BY <4>2, <5>0
          <5>2. s[n] # 0
            <6>1. Len(s) > 0 => s[Len(s)] # 0
              BY DEF Magnitudes
            <6> QED
              BY <2>2, <6>1 DEF n
          <5> QED
            BY <2>4, <5>1, <5>2
        <4> QED
          BY <4>1, <4>2
      <3> QED
        BY <2>3, <3>1 DEF Magnitudes, Words
    <2> QED
      BY <1>4, <2>1, <2>12, <2>13
  <1> QED
    BY <1>2, <1>3, <1>4

LEMMA ShiftTakesBit ==
    ASSUME NEW a \in Words, NEW r \in Magnitudes, NEW i \in Int
    PROVE  /\ Shifted(a, r, i) \in Magnitudes /\ GetBit(a, i) \in {0, 1}
           /\ Val(Shifted(a, r, i)) = 2 * Val(r) + GetBit(a, i)
  <1>1. GetBit(a, i) \in {0, 1}
    BY GetBitType
  <1>2. /\ Shl1(r) \in Magnitudes /\ Val(Shl1(r)) = 2 * Val(r)
        /\ Len(Shl1(r)) > 0 => Shl1(r)[1] \in 0..(Limb - 2)
    BY Doubling
  <1> DEFINE s == Shl1(r)
             e == GetBit(a, i)
  <1>3. Shifted(a, r, i) = SetBit0(s, e)
    BY DEF Shifted
  <1> HIDE DEF s, e
  <1>4. SetBit0(s, e) \in Magnitudes /\ Val(SetBit0(s, e)) = Val(s) + e
    BY <1>1, <1>2, LowBit DEF s, e
  <1> QED
    BY <1>1, <1>2, <1>3, <1>4 DEF s, e

LEMMA RestoredRuns ==
    ASSUME NEW a \in Words, NEW b \in Magnitudes
    PROVE  /\ Restored(a, b) \in [Nat -> Magnitudes] /\ Restored(a, b)[0] = <<>>
           /\ \A k \in Nat :
                 Restored(a, b)[k + 1] =
                     LET s == Shifted(a, Restored(a, b)[k], Len(a) * Bits - 1 - k)
                     IN IF LessMag(s, b) THEN s ELSE SubMag(s, b)
  <1> DEFINE A == Magnitudes
             Step(k, r) == LET s == Shifted(a, r, Len(a) * Bits - 1 - k)
                           IN IF LessMag(s, b) THEN s ELSE SubMag(s, b)
             F == [k \in Nat |-> [r \in Magnitudes |-> Step(k, r)]]
  <1>1. ASSUME NEW k \in Nat, NEW r \in Magnitudes PROVE Step(k, r) \in Magnitudes
    <2> DEFINE i == Len(a) * Bits - 1 - k
               s == Shifted(a, r, i)
    <2>1. i \in Int
      <3>1. Len(a) \in Nat /\ Bits \in Nat
        BY LimbType DEF Words
      <3>2. Len(a) * Bits \in Nat
        BY <3>1, Products
      <3> QED
        BY <3>2
    <2> HIDE DEF i
    <2>2. s \in Magnitudes
      BY <2>1, ShiftTakesBit
    <2> HIDE DEF s
    <2>3. CASE LessMag(s, b)
      BY <2>2, <2>3 DEF s, i
    <2>4. CASE ~LessMag(s, b)
      <3>1. Val(b) <= Val(s)
        <4>1. Val(s) \in Nat /\ Val(b) \in Nat /\ ~(Val(s) < Val(b))
          BY <2>2, <2>4, Comparison
        <4> QED
          BY <4>1
      <3>2. SubMag(s, b) \in Magnitudes
        BY <2>2, <3>1, Subtraction
      <3> QED
        BY <2>4, <3>2 DEF s, i
    <2> QED
      BY <2>3, <2>4
  <1>2. F \in [Nat -> [A -> A]] /\ <<>> \in A
    <2> HIDE DEF Step
    <2> QED
      BY <1>1, EmptyVal
  <1>3. Restored(a, b) = Loop(<<>>, F)
    BY DEF Restored
  <1>4. Loop(<<>>, F) \in [Nat -> A] /\ Runs(Loop(<<>>, F), <<>>, F)
    <2> HIDE DEF A, F
    <2> QED
      BY <1>2, LoopRuns
  <1> HIDE DEF Step
  <1>5. /\ Restored(a, b) \in [Nat -> Magnitudes] /\ Restored(a, b)[0] = <<>>
        /\ \A k \in Nat : Restored(a, b)[k + 1] = Step(k, Restored(a, b)[k])
    BY <1>3, <1>4 DEF Runs
  <1> QED
    BY <1>5 DEF Step

\* The bit-at-a-time division divides.
LEMMA LongDivides ==
    ASSUME NEW a \in Words, NEW b \in Magnitudes, b # <<>>
    PROVE  LET s == LongDivision(a, b) IN
           /\ s.quotient \in Magnitudes /\ s.rem \in Magnitudes
           /\ Val(a) = Val(s.quotient) * Val(b) + Val(s.rem)
           /\ Val(s.rem) < Val(b)
  <1> DEFINE n == Len(a) * Bits
             left == Restored(a, b)
             bit(i) == IF LessMag(Shifted(a, left[n - 1 - i], i), b) THEN 0 ELSE 1
             limb(i) == Positional(2, [j \in Nat |-> bit(i * Bits + j)])[Bits]
             q == [i \in 1..Len(a) |-> limb(i - 1)]
             e == [i \in Nat |-> GetBit(a, i)]
             f == [i \in Nat |-> bit(i)]
             r == [k \in Nat |-> Val(left[k])]
             v == Val(b)
  <1>1. LongDivision(a, b) = [quotient |-> Strip(q), rem |-> left[n]]
    BY DEF LongDivision
  <1>2. Len(a) \in Nat /\ Bits \in Nat \ {0} /\ n \in Nat /\ a \in Seq(Nat)
    <2>1. Len(a) \in Nat /\ Bits \in Nat \ {0} /\ Bits \in Nat /\ a \in Seq(Nat)
      BY LimbType, WordsAreNaturals
    <2> QED
      BY <2>1, Products
  <1>3. /\ left \in [Nat -> Magnitudes] /\ left[0] = <<>>
        /\ \A k \in Nat :
              left[k + 1] = LET s == Shifted(a, left[k], n - 1 - k)
                            IN IF LessMag(s, b) THEN s ELSE SubMag(s, b)
    BY RestoredRuns
  <1>4. v \in Nat /\ v > 0
    <2>1. b \in Words
      BY WordsAreNaturals
    <2> QED
      BY <2>1, TopCounts, ValBounded
  <1> HIDE DEF left, n, v
  <1>5. /\ r \in [Nat -> Int] /\ r[0] = 0 /\ \A k \in Nat : r[k] = Val(left[k]) /\ r[k] \in Nat
    <2>1. \A k \in Nat : Val(left[k]) \in Nat
      <3>1. ASSUME NEW k \in Nat PROVE Val(left[k]) \in Nat
        <4>1. left[k] \in Magnitudes
          BY <1>3
        <4> QED
          BY <4>1, WordsAreNaturals, ValBounded
      <3> QED
        BY <3>1
    <2> QED
      BY <1>3, <2>1, EmptyVal
  <1>6. ASSUME NEW k \in Nat, r[k] < v
        PROVE  LET i == n - 1 - k IN
               /\ 2 * r[k] + GetBit(a, i) = v * bit(i) + r[k + 1]
               /\ r[k + 1] < v
    <2> DEFINE i == n - 1 - k
               s == Shifted(a, left[k], i)
               t == Val(s)
    <2>1. i \in Int /\ n - 1 - i = k
      BY <1>2
    <2>2. left[k] \in Magnitudes /\ left[k + 1] = IF LessMag(s, b) THEN s ELSE SubMag(s, b)
      BY <1>3
    <2> HIDE DEF i
    <2>3. s \in Magnitudes /\ GetBit(a, i) \in {0, 1} /\ t = 2 * r[k] + GetBit(a, i)
      <3>1. r[k] = Val(left[k])
        BY <1>5
      <3> QED
        BY <2>1, <2>2, <3>1, ShiftTakesBit
    <2>4. bit(i) = IF LessMag(s, b) THEN 0 ELSE 1
      BY <2>1
    <2>5. t \in Nat /\ (LessMag(s, b) <=> t < v)
      BY <2>3, Comparison DEF v
    <2>6. r[k] \in Nat /\ r[k + 1] = Val(left[k + 1])
      BY <1>5
    <2> HIDE DEF r, bit
    <2>7. CASE LessMag(s, b)
      <3>1. bit(i) = 0 /\ r[k + 1] = t /\ t < v
        BY <2>2, <2>4, <2>5, <2>6, <2>7
      <3>2. v * 0 = 0
        BY <1>4
      <3> HIDE DEF t
      <3>3. t = v * bit(i) + r[k + 1]
        BY <2>5, <3>1, <3>2
      <3> QED
        BY <2>3, <3>1, <3>3 DEF i, t
    <2>8. CASE ~LessMag(s, b)
      <3>1. bit(i) = 1 /\ v <= t
        BY <1>4, <2>4, <2>5, <2>8
      <3>2. Val(SubMag(s, b)) = t - v
        BY <2>3, <3>1, Subtraction DEF v
      <3>3. r[k + 1] = t - v
        BY <2>2, <2>6, <2>8, <3>2
      <3> HIDE DEF t
      <3>4. t = v * bit(i) + r[k + 1]
        BY <1>4, <2>5, <3>1, <3>3
      <3>5. r[k + 1] < v
        BY <1>4, <1>6, <2>3, <2>5, <2>6, <3>3
      <3> QED
        BY <2>3, <3>4, <3>5 DEF i, t
    <2> QED
      BY <2>7, <2>8
  <1>7. \A k \in Nat : r[k] < v
    <2> DEFINE S == {k \in Nat : r[k] < v}
    <2>1. 0 \in S
      BY <1>4, <1>5
    <2>2. ASSUME NEW k \in Nat, k \in S PROVE k + 1 \in S
      BY <1>6, <2>2
    <2>3. \A k \in Nat : k \in S
      <3> HIDE DEF S
      <3> QED
        BY <2>1, <2>2, SetInduction
    <2> QED
      BY <2>3
  <1>8. f \in [Nat -> Int] /\ f \in [Nat -> {0, 1}]
    OBVIOUS
  <1>9. e \in [Nat -> Int] /\ Positional(2, e)[n] = Val(a)
    BY BitsAreValue DEF n
  <1>10. Longhand(2, e, n, v, f, r)
    <2>1. ASSUME NEW k \in Nat, k < n
          PROVE  r[k] * 2 + e[n - 1 - k] = v * f[n - 1 - k] + r[k + 1]
      <3> DEFINE i == n - 1 - k
      <3>1. i \in Nat
        BY <1>2, <2>1
      <3>2. 2 * r[k] + GetBit(a, i) = v * bit(i) + r[k + 1]
        BY <1>6, <1>7
      <3>3. e[i] = GetBit(a, i) /\ f[i] = bit(i)
        BY <3>1
      <3>4. r[k] \in Nat
        BY <1>5
      <3> HIDE DEF e, f, r, bit, i
      <3>5. r[k] * 2 = 2 * r[k]
        BY <3>4
      <3>6. r[k] * 2 + e[i] = v * f[i] + r[k + 1]
        BY <3>2, <3>3, <3>5
      <3> QED
        BY <3>6 DEF i
    <2>2. v \in Int /\ 2 \in Nat \ {0}
      BY <1>4
    <2> HIDE DEF r, e, f
    <2> QED
      BY <1>2, <1>5, <1>8, <1>9, <2>1, <2>2 DEF Longhand
  <1> HIDE DEF e, r
  <1>11. Positional(2, e)[n] = v * Positional(2, f)[n] + r[n]
    <2> HIDE DEF f
    <2> QED
      BY <1>10, Schoolbook DEF Divided
  <1>12. \A i \in Nat : limb(i) = BitsFrom(f, i * Bits)[Bits]
    <2>1. ASSUME NEW i \in Nat
          PROVE  [j \in Nat |-> bit(i * Bits + j)] = [j \in Nat |-> f[i * Bits + j]]
      <3>1. i * Bits \in Nat
        BY <1>2
      <3> DEFINE k == i * Bits
      <3> HIDE DEF k, bit
      <3>2. \A j \in Nat : f[k + j] = bit(k + j)
        BY <3>1 DEF k
      <3> QED
        BY <3>2 DEF k
    <2> HIDE DEF bit, f
    <2> QED
      BY <2>1 DEF BitsFrom
  <1> HIDE DEF f
  <1>13. ASSUME NEW i \in Nat PROVE limb(i) \in 0..(Limb - 1)
    <2> DEFINE k == i * Bits
               g == [j \in Nat |-> f[k + j]]
    <2>1. k \in Nat
      BY <1>2
    <2> HIDE DEF k
    <2>2. g \in [Nat -> Int] /\ \A j \in Nat : g[j] \in 0..(2 - 1)
      BY <1>8, <2>1
    <2> HIDE DEF g
    <2>3. \A j \in 0..Bits : Positional(2, g)[j] \in 0..(Powers(2)[j] - 1)
      <3>1. 2 \in Nat \ {0} /\ Bits \in Nat
        BY <1>2
      <3> QED
        BY <2>2, <3>1, PositionalBounded
    <2>4. Positional(2, g)[Bits] \in 0..(Limb - 1)
      <3>1. Bits \in 0..Bits
        BY <1>2
      <3>2. Limb = Powers(2)[Bits]
        BY LimbType
      <3> QED
        BY <2>3, <3>1, <3>2
    <2>5. limb(i) = Positional(2, g)[Bits]
      BY <1>12 DEF BitsFrom, g, k
    <2> HIDE DEF limb
    <2> QED
      BY <2>4, <2>5
  <1> HIDE DEF limb
  <1>14. q \in Words /\ Len(q) = Len(a) /\ q \in Seq(Nat)
    <2> DEFINE S == 0..(Limb - 1)
    <2>1. ASSUME NEW i \in 1..Len(a) PROVE limb(i - 1) \in S
      <3>1. i - 1 \in Nat
        BY <1>2
      <3> QED
        BY <1>13, <3>1
    <2> HIDE DEF S
    <2>2. q \in [1..Len(a) -> S]
      BY <2>1
    <2> HIDE DEF q
    <2>3. q \in Seq(S) /\ Len(q) = Len(a)
      BY <1>2, <2>2, Table
    <2> QED
      BY <2>3, WordsAreNaturals DEF Words, S
  <1>15. \A i \in 0..(Len(a) - 1) : At(q, i) = limb(i)
    <2>1. ASSUME NEW i \in 0..(Len(a) - 1) PROVE At(q, i) = limb(i)
      <3>1. i + 1 \in 1..Len(a) /\ (i + 1) - 1 = i /\ i \in 0..(Len(q) - 1)
        BY <1>2, <1>14
      <3>2. At(q, i) = q[i + 1]
        BY <3>1 DEF At
      <3> QED
        BY <3>1, <3>2
    <2> QED
      BY <2>1
  <1> HIDE DEF q
  <1>16. Positional(2, f)[n] = Val(q)
    <2> DEFINE g == [i \in Nat |-> limb(i)]
    <2>1. g \in [Nat -> Int]
      <3>1. ASSUME NEW i \in Nat PROVE limb(i) \in Int
        BY <1>13, LimbType
      <3> QED
        BY <3>1
    <2>2. \A i \in Nat : g[i] = BitsFrom(f, i * Bits)[Bits]
      BY <1>12
    <2>3. LimbsOf(q) \in [Nat -> Int] /\ \A i \in Nat : i < Len(a) => LimbsOf(q)[i] = g[i]
      <3>1. LimbsOf(q) \in [Nat -> Int]
        BY <1>14, UpRuns
      <3>2. ASSUME NEW i \in Nat, i < Len(a) PROVE LimbsOf(q)[i] = g[i]
        <4>1. i \in 0..(Len(a) - 1)
          BY <1>2, <3>2
        <4> QED
          BY <1>15, <4>1 DEF LimbsOf
      <3> QED
        BY <3>1, <3>2
    <2> HIDE DEF g
    <2>4. Positional(2, f)[Len(a) * Bits] = Positional(Limb, g)[Len(a)]
      BY <1>2, <1>8, <2>1, <2>2, Regroup
    <2>5. Positional(Limb, LimbsOf(q))[Len(a)] = Positional(Limb, g)[Len(a)]
      <3>1. Limb \in Int
        BY LimbType
      <3> QED
        BY <1>2, <2>1, <2>3, <3>1, PositionalAgrees
    <2>6. Val(q) = Positional(Limb, LimbsOf(q))[Len(a)]
      BY <1>14 DEF Val, Up
    <2> QED
      BY <2>4, <2>5, <2>6 DEF n
  <1>17. Strip(q) \in Magnitudes /\ Val(Strip(q)) = Val(q)
    BY <1>14, StripKeeps
  <1>18. left[n] \in Magnitudes /\ Val(left[n]) = r[n] /\ r[n] < v
    BY <1>2, <1>3, <1>5, <1>7
  <1>19. Val(a) = Val(q) * v + r[n]
    <2>1. Val(a) = v * Val(q) + r[n]
      BY <1>9, <1>11, <1>16
    <2>2. Val(q) \in Int
      BY <1>14, UpRuns
    <2>3. v * Val(q) = Val(q) * v
      BY <1>4, <2>2
    <2> QED
      BY <2>1, <2>3
  <1> QED
    BY <1>1, <1>17, <1>18, <1>19 DEF v

\* divmod_mag divides.
LEMMA MagDivides ==
    ASSUME NEW a \in Magnitudes, NEW b \in Magnitudes, b # <<>>
    PROVE  LET s == DivModMag(a, b) IN
           /\ s.quotient \in Magnitudes /\ s.rem \in Magnitudes
           /\ Val(a) = Val(s.quotient) * Val(b) + Val(s.rem)
           /\ Val(s.rem) < Val(b)
  <1>1. a \in Words /\ b \in Words /\ b \in Seq(0..(Limb - 1))
    BY WordsAreNaturals DEF Words
  <1>2. Len(b) \in Nat /\ Len(b) > 0 /\ b[Len(b)] # 0 /\ b[Len(b)] \in 0..(Limb - 1)
    <2>1. Len(b) \in Nat /\ Len(b) > 0
      BY <1>1
    <2>2. b[Len(b)] \in 0..(Limb - 1)
      <3> DEFINE R == 0..(Limb - 1)
      <3>1. b \in Seq(R)
        BY <1>1
      <3> HIDE DEF R
      <3>2. b[Len(b)] \in R
        BY <3>1, <2>1
      <3> QED
        BY <3>2 DEF R
    <2> QED
      BY <2>1, <2>2 DEF Magnitudes
  <1>3. Val(a) \in Nat /\ Val(b) \in Nat /\ (LessMag(a, b) <=> Val(a) < Val(b))
    BY Comparison
  <1>4. CASE LessMag(a, b)
    <2>1. DivModMag(a, b) = [quotient |-> <<>>, rem |-> a]
      BY <1>4 DEF DivModMag
    <2>2. Val(a) = 0 * Val(b) + Val(a)
      BY <1>3
    <2> QED
      BY <1>3, <1>4, <2>1, <2>2, EmptyVal
  <1>5. CASE ~LessMag(a, b) /\ Len(b) = 1
    <2>1. DivModMag(a, b) = ShortDivision(a, b[1])
      BY <1>5 DEF DivModMag
    <2>2. b[1] \in 1..(Limb - 1)
      BY <1>2, <1>5, LimbType
    <2>3. Val(b) = b[1]
      <3>1. b = <<b[1]>>
        BY <1>1, <1>5
      <3>2. Val(<<b[1]>>) = b[1]
        BY <2>2, SingleLimb
      <3> QED
        BY <3>1, <3>2
    <2> QED
      BY <1>1, <2>1, <2>2, <2>3, ShortDivides
  <1>6. CASE ~LessMag(a, b) /\ Len(b) > 1
    <2>1. DivModMag(a, b) = LongDivision(a, b)
      BY <1>6 DEF DivModMag
    <2> QED
      BY <1>1, <2>1, LongDivides
  <1>7. Len(b) = 1 \/ Len(b) > 1
    <2> DEFINE n == Len(b)
    <2>1. n \in Nat /\ n > 0
      BY <1>2
    <2> HIDE DEF n
    <2>2. n = 1 \/ n > 1
      BY <2>1
    <2> QED
      BY <2>2 DEF n
  <1> QED
    <2> HIDE DEF DivModMag
    <2> QED
      BY <1>4, <1>5, <1>6, <1>7

-----------------------------------------------------------------------------
(* Signed integers *)

LEMMA SignedType ==
    ASSUME NEW m \in Magnitudes, NEW neg \in BOOLEAN
    PROVE  /\ Signed(m, neg) \in BigInts
           /\ ValueOf(Signed(m, neg)) = IF neg THEN -Val(m) ELSE Val(m)
  <1>1. Val(m) \in Nat /\ (m = <<>> => Val(m) = 0)
    BY Comparison, EmptyVal
  <1>2. Signed(m, neg) \in BigInts
    BY DEF Signed, BigInts
  <1>3. ValueOf(Signed(m, neg)) = IF neg /\ m # <<>> THEN -Val(m) ELSE Val(m)
    BY DEF Signed, ValueOf, Val, Up, LimbsOf
  <1> QED
    BY <1>1, <1>2, <1>3

\* Every integer is its magnitude and its sign.
LEMMA IntSplits ==
    ASSUME NEW x \in BigInts
    PROVE  /\ x.mag \in Magnitudes /\ x.negative \in BOOLEAN
           /\ ValueOf(x) = IF x.negative THEN -Val(x.mag) ELSE Val(x.mag)
           /\ Val(x.mag) \in Nat /\ ValueOf(x) \in Int
           /\ x.mag = <<>> <=> Val(x.mag) = 0
           /\ x.negative <=> ValueOf(x) < 0
           /\ x = Signed(x.mag, x.negative)
  <1>1. x.mag \in Magnitudes /\ x.negative \in BOOLEAN /\ (x.negative => x.mag # <<>>)
    BY DEF BigInts
  <1>2. ValueOf(x) = IF x.negative THEN -Val(x.mag) ELSE Val(x.mag)
    BY DEF ValueOf, Val, Up, LimbsOf
  <1>3. Val(x.mag) \in Nat /\ (x.mag = <<>> <=> Val(x.mag) = 0)
    BY <1>1, Comparison, EmptyVal
  <1>4. x = Signed(x.mag, x.negative)
    BY DEF Signed, BigInts
  <1> QED
    BY <1>1, <1>2, <1>3, <1>4

\* Equal integers are equal in every limb and in their sign.
LEMMA IntsDiffer ==
    ASSUME NEW x \in BigInts, NEW y \in BigInts, ValueOf(x) = ValueOf(y)
    PROVE  x = y
  <1>1. /\ x.mag \in Magnitudes /\ y.mag \in Magnitudes
        /\ Val(x.mag) = Val(y.mag) /\ (x.negative <=> y.negative)
    BY IntSplits
  <1>2. x.mag = y.mag /\ x.negative = y.negative
    BY <1>1, Comparison, IntSplits
  <1> QED
    BY <1>2 DEF BigInts

LEMMA ZeroIs == Zero \in BigInts /\ ValueOf(Zero) = 0
  <1>1. <<>> \in Magnitudes /\ Val(<<>>) = 0
    BY EmptyVal
  <1> QED
    BY <1>1, SignedType DEF Zero

LEMMA Negation ==
    ASSUME NEW x \in BigInts
    PROVE  Negate(x) \in BigInts /\ ValueOf(Negate(x)) = -ValueOf(x)
  <1>1. x.mag \in Magnitudes /\ x.negative \in BOOLEAN /\ (~x.negative) \in BOOLEAN
    BY IntSplits
  <1>2. /\ Negate(x) \in BigInts
        /\ ValueOf(Negate(x)) = IF ~x.negative THEN -Val(x.mag) ELSE Val(x.mag)
    BY <1>1, SignedType DEF Negate
  <1> QED
    BY <1>2, IntSplits

\* operator+ adds.
LEMMA PlusAdds ==
    ASSUME NEW x \in BigInts, NEW y \in BigInts
    PROVE  Plus(x, y) \in BigInts /\ ValueOf(Plus(x, y)) = ValueOf(x) + ValueOf(y)
  <1> DEFINE a == x.mag
             b == y.mag
  <1>1. /\ a \in Magnitudes /\ b \in Magnitudes /\ Val(a) \in Nat /\ Val(b) \in Nat
        /\ x.negative \in BOOLEAN /\ y.negative \in BOOLEAN
        /\ ValueOf(x) = IF x.negative THEN -Val(a) ELSE Val(a)
        /\ ValueOf(y) = IF y.negative THEN -Val(b) ELSE Val(b)
    BY IntSplits
  <1>2. CASE x.negative = y.negative
    <2>1. Plus(x, y) = Signed(AddMag(a, b), x.negative)
      BY <1>2 DEF Plus
    <2>2. AddMag(a, b) \in Magnitudes /\ Val(AddMag(a, b)) = Val(a) + Val(b)
      BY <1>1, Addition
    <2>3. /\ Signed(AddMag(a, b), x.negative) \in BigInts
          /\ ValueOf(Signed(AddMag(a, b), x.negative))
                 = IF x.negative THEN -Val(AddMag(a, b)) ELSE Val(AddMag(a, b))
      BY <1>1, <2>2, SignedType
    <2> HIDE DEF a, b
    <2> QED
      BY <1>1, <1>2, <2>1, <2>2, <2>3
  <1>3. CASE x.negative # y.negative /\ a = b
    <2>1. Plus(x, y) = Zero
      <3>1. ~LessMag(a, b) /\ ~LessMag(b, a)
        BY <1>1, <1>3, Comparison
      <3> QED
        BY <1>3, <3>1 DEF Plus
    <2> HIDE DEF a, b
    <2> QED
      BY <1>1, <1>3, <2>1, ZeroIs
  <1>4. CASE x.negative # y.negative /\ LessMag(b, a)
    <2>1. a # b /\ ~LessMag(a, b) /\ Val(b) <= Val(a)
      BY <1>1, <1>4, Comparison
    <2>2. Plus(x, y) = Signed(SubMag(a, b), x.negative)
      BY <1>4, <2>1 DEF Plus
    <2>3. SubMag(a, b) \in Magnitudes /\ Val(SubMag(a, b)) = Val(a) - Val(b)
      BY <1>1, <2>1, Subtraction
    <2>4. /\ Signed(SubMag(a, b), x.negative) \in BigInts
          /\ ValueOf(Signed(SubMag(a, b), x.negative))
                 = IF x.negative THEN -Val(SubMag(a, b)) ELSE Val(SubMag(a, b))
      BY <1>1, <2>3, SignedType
    <2> HIDE DEF a, b
    <2> QED
      BY <1>1, <1>4, <2>2, <2>3, <2>4
  <1>5. CASE x.negative # y.negative /\ LessMag(a, b)
    <2>1. a # b /\ ~LessMag(b, a) /\ Val(a) <= Val(b)
      BY <1>1, <1>5, Comparison
    <2>2. Plus(x, y) = Signed(SubMag(b, a), y.negative)
      BY <1>5, <2>1 DEF Plus
    <2>3. SubMag(b, a) \in Magnitudes /\ Val(SubMag(b, a)) = Val(b) - Val(a)
      BY <1>1, <2>1, Subtraction
    <2>4. /\ Signed(SubMag(b, a), y.negative) \in BigInts
          /\ ValueOf(Signed(SubMag(b, a), y.negative))
                 = IF y.negative THEN -Val(SubMag(b, a)) ELSE Val(SubMag(b, a))
      BY <1>1, <2>3, SignedType
    <2> HIDE DEF a, b
    <2> QED
      BY <1>1, <1>5, <2>2, <2>3, <2>4
  <1> QED
    BY <1>1, <1>2, <1>3, <1>4, <1>5, Trichotomy

\* The product of two magnitudes and of their signs.
LEMMA SignedProducts ==
    ASSUME NEW m \in Nat, NEW n \in Nat
    PROVE  /\ (-m) * n = -(m * n) /\ m * (-n) = -(m * n) /\ (-m) * (-n) = m * n
           /\ m * n \in Nat
  OBVIOUS

\* operator* multiplies.
LEMMA TimesMultiplies ==
    ASSUME NEW x \in BigInts, NEW y \in BigInts
    PROVE  Times(x, y) \in BigInts /\ ValueOf(Times(x, y)) = ValueOf(x) * ValueOf(y)
  <1> DEFINE a == x.mag
             b == y.mag
             m == Val(a)
             n == Val(b)
             neg == x.negative # y.negative
             p == MulMag(a, b)
  <1>1. /\ a \in Magnitudes /\ b \in Magnitudes /\ m \in Nat /\ n \in Nat
        /\ x.negative \in BOOLEAN /\ y.negative \in BOOLEAN
        /\ ValueOf(x) = IF x.negative THEN -m ELSE m
        /\ ValueOf(y) = IF y.negative THEN -n ELSE n
    BY IntSplits
  <1>1a. (a = <<>> <=> m = 0) /\ (b = <<>> <=> n = 0)
    BY IntSplits
  <1>2. CASE a = <<>> \/ b = <<>>
    <2>1. Times(x, y) = Zero
      BY <1>2 DEF Times
    <2>2. ValueOf(x) \in Int /\ ValueOf(y) \in Int /\ (ValueOf(x) = 0 \/ ValueOf(y) = 0)
      BY <1>1, <1>1a, <1>2, IntSplits
    <2>3. ValueOf(x) * ValueOf(y) = 0
      BY <2>2
    <2> QED
      BY <2>1, <2>3, ZeroIs
  <1>3. CASE a # <<>> /\ b # <<>>
    <2>1. Times(x, y) = Signed(p, neg)
      BY <1>3 DEF Times
    <2>2. p \in Magnitudes /\ Val(p) = m * n
      BY <1>1, WordsAreNaturals, Multiplication
    <2>3. neg \in BOOLEAN
      OBVIOUS
    <2>4. /\ Signed(p, neg) \in BigInts
          /\ ValueOf(Signed(p, neg)) = IF neg THEN -Val(p) ELSE Val(p)
      BY <2>2, <2>3, SignedType
    <2>5. ValueOf(x) * ValueOf(y) = IF neg THEN -(m * n) ELSE m * n
      <3> HIDE DEF m, n
      <3>1. /\ (-m) * n = -(m * n) /\ m * (-n) = -(m * n) /\ (-m) * (-n) = m * n
        BY <1>1, SignedProducts
      <3> QED
        BY <1>1, <3>1
    <2> QED
      BY <2>1, <2>2, <2>4, <2>5
  <1> QED
    BY <1>2, <1>3

-----------------------------------------------------------------------------
(* From an integer to its limbs *)

\* A limb below the others.
LEMMA PrependLimb ==
    ASSUME NEW m \in Magnitudes, NEW c \in 0..(Limb - 1), c # 0 \/ m # <<>>
    PROVE  <<c>> \o m \in Magnitudes /\ Val(<<c>> \o m) = c + Limb * Val(m)
  <1> DEFINE t == <<c>> \o m
             n == Len(m)
             R == 0..(Limb - 1)
  <1>1. m \in Seq(R) /\ n \in Nat /\ c \in R
    BY DEF Magnitudes
  <1>2. t \in Seq(R) /\ Len(t) = n + 1 /\ t[1] = c /\ \A i \in 1..n : t[i + 1] = m[i]
    <2> HIDE DEF R
    <2> QED
      BY <1>1
  <1>3. t[n + 1] # 0
    <2>1. CASE n = 0
      <3>1. m = <<>>
        BY <1>1, <2>1
      <3> QED
        BY <1>2, <2>1, <3>1
    <2>2. CASE n # 0
      <3>1. n \in 1..n
        BY <1>1, <2>2
      <3> QED
        BY <1>1, <1>2, <3>1 DEF Magnitudes
    <2> QED
      BY <2>1, <2>2
  <1>4. t \in Magnitudes
    <2> HIDE DEF t
    <2> QED
      BY <1>2, <1>3 DEF Magnitudes
  <1>5. t \in Seq(Nat) /\ m \in Seq(Nat) /\ t \in Words /\ m \in Words
    BY <1>4, WordsAreNaturals
  <1>6. At(t, 0) = c /\ \A k \in Nat : At(t, 1 + k) = At(m, k)
    <2>1. 1 + n = n + 1
      BY <1>1
    <2>2. At(t, 0) = c
      <3> HIDE DEF t, n
      <3> QED
        BY <1>1, <1>2 DEF At
    <2>3. ASSUME NEW k \in Nat PROVE At(t, 1 + k) = At(m, k)
      <3>1. CASE k < n
        <4>1. k + 1 \in 1..n /\ 1 + k \in 0..n /\ k \in 0..(n - 1)
          BY <1>1, <3>1
        <4>2. t[(1 + k) + 1] = m[k + 1]
          <5>1. t[(k + 1) + 1] = m[k + 1]
            BY <1>2, <4>1
          <5>2. (k + 1) + 1 = (1 + k) + 1
            OBVIOUS
          <5> QED
            BY <5>1, <5>2
        <4>3. 0..(Len(t) - 1) = 0..n
          BY <1>1, <1>2
        <4> HIDE DEF t
        <4> QED
          BY <4>1, <4>2, <4>3 DEF At, n
      <3>2. CASE ~(k < n)
        <4>1. 1 + k \notin 0..(Len(t) - 1) /\ k \notin 0..(n - 1)
          <5> HIDE DEF t, n
          <5> QED
            BY <1>1, <1>2, <3>2
        <4> HIDE DEF t
        <4> QED
          BY <4>1 DEF At, n
      <3> QED
        BY <3>1, <3>2
    <2> QED
      BY <2>2, <2>3
  <1> HIDE DEF t, n
  <1>7. LimbsOf(t) \in [Nat -> Int] /\ Limb \in Int
    <2>1. LimbsOf(t) \in [Nat -> Int]
      BY <1>5, UpRuns
    <2> QED
      BY <2>1, LimbType
  <1>8. [k \in Nat |-> LimbsOf(t)[1 + k]] = LimbsOf(m)
    <2>1. \A k \in Nat : LimbsOf(t)[1 + k] = At(m, k)
      BY <1>6 DEF LimbsOf
    <2> QED
      BY <2>1 DEF LimbsOf
  <1>9. Up(t)[1 + n] = Up(t)[1] + Up(m)[n] * Weight[1]
    <2>1. Positional(Limb, LimbsOf(t))[1 + n]
              = Positional(Limb, LimbsOf(t))[1]
                    + Positional(Limb, [k \in Nat |-> LimbsOf(t)[1 + k]])[n] * Powers(Limb)[1]
      <3>1. \A j \in Nat :
               Positional(Limb, LimbsOf(t))[1 + j]
                   = Positional(Limb, LimbsOf(t))[1]
                         + Positional(Limb, [k \in Nat |-> LimbsOf(t)[1 + k]])[j] * Powers(Limb)[1]
        <4> DEFINE e == LimbsOf(t)
        <4>1. e \in [Nat -> Int] /\ Limb \in Int /\ 1 \in Nat
          BY <1>7
        <4> HIDE DEF e
        <4>2. ASSUME NEW i \in Nat
              PROVE  \A j \in Nat :
                        Positional(Limb, e)[i + j]
                            = Positional(Limb, e)[i]
                                  + Positional(Limb, [k \in Nat |-> e[i + k]])[j] * Powers(Limb)[i]
          BY <4>1, PositionalSplits
        <4> QED
          BY <4>1, <4>2 DEF e
      <3>2. n \in Nat
        BY <1>1
      <3> QED
        BY <3>1, <3>2
    <2> QED
      BY <1>8, <2>1 DEF Up, Weight
  <1>10. Weight[1] = Limb /\ Weight[0] = 1
    <2>1. Weight[0] = 1 /\ Weight[0 + 1] = Limb * Weight[0] /\ Limb \in Nat
      BY WeightRuns, LimbType
    <2> QED
      BY <2>1
  <1>11. Up(t)[1] = c
    <2>1. Up(t)[0] = 0 /\ Up(t)[0 + 1] = Up(t)[0] + At(t, 0) * Weight[0]
      BY <1>5, UpRuns
    <2>2. c \in Nat
      BY LimbType
    <2> QED
      BY <1>6, <1>10, <2>1, <2>2
  <1>12. Val(t) = Up(t)[1 + n] /\ Val(m) = Up(m)[n]
    <2>1. 1 + n = n + 1
      BY <1>1
    <2> QED
      BY <1>2, <2>1 DEF Val, n
  <1>13. Val(m) \in Int
    BY <1>5, UpRuns
  <1>14. Val(m) * Limb = Limb * Val(m)
    BY <1>7, <1>13, Associate
  <1> QED
    BY <1>4, <1>9, <1>10, <1>11, <1>12, <1>14 DEF t

\* Division by the base leaves less.
LEMMA LimbLowers ==
    ASSUME NEW u \in Nat, u # 0
    PROVE  /\ u \div Limb \in Nat /\ u \div Limb < u
           /\ u % Limb \in 0..(Limb - 1) /\ u = (u % Limb) + Limb * (u \div Limb)
  <1>1. Limb \in Nat \ {0} /\ Limb >= 2
    BY LimbType
  <1>2. /\ u \div Limb \in Int /\ u % Limb \in 0..(Limb - 1)
        /\ u = Limb * (u \div Limb) + (u % Limb)
    BY <1>1, Division
  <1> DEFINE L == Limb
             q == u \div Limb
             r == u % Limb
  <1> HIDE DEF L, q, r
  <1>3. L \in Nat /\ L >= 2 /\ q \in Int /\ r \in 0..(L - 1) /\ u = L * q + r
    BY <1>1, <1>2 DEF L, q, r
  <1>4. q \in Nat
    <2> SUFFICES ASSUME q <= -1 PROVE FALSE
      BY <1>3
    <2>1. L * q <= L * (-1)
      BY <1>3
    <2> QED
      BY <1>3, <2>1
  <1>5. q < u
    <2>1. L * q >= 2 * q
      BY <1>3, <1>4
    <2> QED
      BY <1>3, <1>4, <2>1
  <1>6. u % Limb \in 0..(Limb - 1)
    BY <1>2
  <1>7. u = (u % Limb) + Limb * (u \div Limb)
    BY <1>3 DEF L, q, r
  <1> QED
    BY <1>4, <1>5, <1>6, <1>7 DEF q

\* The recursive definition of the limbs defines them.
LEMMA LimbsStep ==
    \A u \in Nat :
        Limbs[u] = IF u = 0 THEN <<>> ELSE <<u % Limb>> \o Limbs[u \div Limb]
  <1> DEFINE A == Seq(0..(Limb - 1))
             Stop == {0}
             measure == [u \in Nat |-> u]
             value == [u \in Nat |-> <<>>]
             next == [u \in Nat |-> IF u = 0 THEN 0 ELSE u \div Limb]
             F == [u \in Nat |-> [s \in A |-> IF u = 0 THEN s ELSE <<u % Limb>> \o s]]
             Is(f) == f = [u \in Nat |-> IF u = 0 THEN <<>>
                                         ELSE <<u % Limb>> \o f[u \div Limb]]
  <1>1. next \in [Nat -> Nat]
    BY LimbLowers
  <1>2. \A u \in Nat \ Stop : measure[next[u]] < measure[u]
    BY LimbLowers
  <1>3. F \in [Nat -> [A -> A]]
    <2>1. ASSUME NEW u \in Nat, u # 0, NEW s \in A PROVE <<u % Limb>> \o s \in A
      <3> DEFINE R == 0..(Limb - 1)
                 c == u % Limb
      <3>1. c \in R /\ s \in Seq(R)
        BY <2>1, LimbLowers
      <3> HIDE DEF R, c
      <3>2. <<c>> \o s \in Seq(R)
        BY <3>1
      <3> QED
        BY <3>2 DEF R, c
    <2> QED
      BY <2>1
  <1>4. Stop \in SUBSET Nat /\ measure \in [Nat -> Nat] /\ value \in [Nat -> A]
    OBVIOUS
  <1>5. PICK f \in [Nat -> A] : Descends(f, Nat, Stop, value, next, F)
    <2> HIDE DEF A, Stop, measure, value, next, F
    <2> QED
      BY <1>1, <1>2, <1>3, <1>4, MeasuredRecursion
  <1>6. Is(f)
    <2>1. ASSUME NEW u \in Nat
          PROVE  f[u] = IF u = 0 THEN <<>> ELSE <<u % Limb>> \o f[u \div Limb]
      <3>1. f[u] = IF u \in Stop THEN value[u] ELSE F[u][f[next[u]]]
        BY <1>5 DEF Descends
      <3>2. CASE u = 0
        BY <3>1, <3>2
      <3>3. CASE u # 0
        <4>1. u \div Limb \in Nat /\ next[u] = u \div Limb
          BY <3>3, LimbLowers
        <4>2. f[u \div Limb] \in A
          BY <4>1
        <4> HIDE DEF A
        <4>3. F[u][f[u \div Limb]] = <<u % Limb>> \o f[u \div Limb]
          BY <3>3, <4>2
        <4> QED
          BY <3>1, <3>3, <4>1, <4>3
      <3> QED
        BY <3>2, <3>3
    <2> QED
      BY <2>1
  <1>7. Is(Limbs)
    BY <1>6 DEF Limbs
  <1> QED
    BY <1>7

\* The limbs of a natural number are its representation.
LEMMA LimbsType ==
    \A u \in Nat : Limbs[u] \in Magnitudes /\ Val(Limbs[u]) = u
  <1> DEFINE Right(u) == Limbs[u] \in Magnitudes /\ Val(Limbs[u]) = u
             S == {n \in Nat : \A u \in 0..n : Right(u)}
  <1>1. Right(0)
    <2>1. Limbs[0] = <<>>
      <3>1. 0 \in Nat
        OBVIOUS
      <3> QED
        BY <3>1, LimbsStep
    <2> QED
      BY <2>1, EmptyVal
  <1>2. 0 \in S
    BY <1>1
  <1>3. ASSUME NEW n \in Nat, n \in S PROVE n + 1 \in S
    <2> DEFINE u == n + 1
               q == u \div Limb
               c == u % Limb
    <2>1. /\ u \in Nat /\ u # 0 /\ q \in Nat /\ q < u
          /\ c \in 0..(Limb - 1) /\ u = c + Limb * q
      BY LimbLowers
    <2> HIDE DEF u
    <2>2. q \in 0..n
      BY <2>1 DEF u
    <2>3. Right(q)
      BY <1>3, <2>2
    <2>4. c # 0 \/ Limbs[q] # <<>>
      <3>1. c # 0 \/ q # 0
        <4>1. Limb \in Nat
          BY LimbType
        <4> HIDE DEF q, c
        <4> QED
          BY <2>1, <4>1
      <3>2. q # 0 => Limbs[q] # <<>>
        <4>1. Val(<<>>) = 0
          BY EmptyVal
        <4> HIDE DEF q
        <4> QED
          BY <2>3, <4>1
      <3> QED
        BY <3>1, <3>2
    <2>5. Limbs[u] = <<c>> \o Limbs[q]
      BY <2>1, LimbsStep
    <2>6. Right(u)
      <3>1. /\ <<c>> \o Limbs[q] \in Magnitudes
            /\ Val(<<c>> \o Limbs[q]) = c + Limb * Val(Limbs[q])
        BY <2>1, <2>3, <2>4, PrependLimb
      <3> QED
        BY <2>1, <2>3, <2>5, <3>1
    <2> HIDE DEF Right
    <2>7. \A v \in 0..(n + 1) : v \in 0..n \/ v = u
      BY DEF u
    <2> QED
      BY <1>3, <2>6, <2>7
  <1>4. \A n \in Nat : n \in S
    <2> HIDE DEF S
    <2> QED
      BY <1>2, <1>3, SetInduction
  <1>5. ASSUME NEW u \in Nat PROVE Right(u)
    <2>1. u \in 0..u /\ u \in S
      BY <1>4
    <2> HIDE DEF Right
    <2> QED
      BY <2>1
  <1> QED
    BY <1>5

\* The integer of a number is that number.
LEMMA OfIs ==
    ASSUME NEW n \in Int
    PROVE  Of(n) \in BigInts /\ ValueOf(Of(n)) = n
  <1> DEFINE u == IF n < 0 THEN -n ELSE n
  <1>1. u \in Nat /\ (n < 0) \in BOOLEAN
    OBVIOUS
  <1>2. Limbs[u] \in Magnitudes /\ Val(Limbs[u]) = u
    BY <1>1, LimbsType
  <1>3. Of(n) = Signed(Limbs[u], n < 0)
    BY DEF Of
  <1> HIDE DEF u
  <1>4. /\ Signed(Limbs[u], n < 0) \in BigInts
        /\ ValueOf(Signed(Limbs[u], n < 0)) = IF n < 0 THEN -Val(Limbs[u]) ELSE Val(Limbs[u])
    BY <1>1, <1>2, SignedType
  <1> QED
    BY <1>2, <1>3, <1>4 DEF u

-----------------------------------------------------------------------------
(* Signed division *)

\* The signs of a division of magnitudes.
LEMMA SignedDivision ==
    ASSUME NEW m \in Int, NEW n \in Int, NEW q \in Int, NEW r \in Int, m = q * n + r
    PROVE  /\ -m = (-q) * n + (-r) /\ m = (-q) * (-n) + r
           /\ -m = q * (-n) + (-r)
           /\ -m = (-q - 1) * n + (n - r) /\ m = (-q - 1) * (-n) + (r - n)
  <1>1. q * n \in Int
    OBVIOUS
  <1>2. (-q) * n = -(q * n) /\ (-q) * (-n) = q * n /\ q * (-n) = -(q * n)
    OBVIOUS
  <1>3. (-q - 1) * n = -(q * n) - n /\ (-q - 1) * (-n) = q * n + n
    OBVIOUS
  <1> QED
    BY <1>1, <1>2, <1>3

\* What a truncated quotient and its remainder are.
Truncates(x, y, q, r) ==
    /\ q = Quotient(x, y) /\ x = q * y + r
    /\ Magnitude(r) < Magnitude(y)
    /\ r > 0 => x > 0
    /\ r < 0 => x < 0

\* divmod divides toward zero.
LEMMA DivModDivides ==
    ASSUME NEW x \in BigInts, NEW y \in BigInts, ValueOf(y) # 0
    PROVE  LET s == DivMod(x, y) IN
           /\ s.quotient \in BigInts /\ s.rem \in BigInts
           /\ Truncates(ValueOf(x), ValueOf(y), ValueOf(s.quotient), ValueOf(s.rem))
  <1> DEFINE d == DivModMag(x.mag, y.mag)
             m == Val(x.mag)
             n == Val(y.mag)
             q == Val(d.quotient)
             r == Val(d.rem)
             X == ValueOf(x)
             Y == ValueOf(y)
             neg == x.negative # y.negative
  <1>1. /\ x.mag \in Magnitudes /\ m \in Nat /\ x.negative \in BOOLEAN
        /\ X = IF x.negative THEN -m ELSE m
        /\ x.negative <=> X < 0
    BY IntSplits
  <1>2. /\ y.mag \in Magnitudes /\ n \in Nat /\ y.negative \in BOOLEAN
        /\ Y = IF y.negative THEN -n ELSE n
        /\ y.negative <=> Y < 0
        /\ y.mag = <<>> <=> n = 0
    BY IntSplits
  <1>3. y.mag # <<>> /\ n # 0
    BY <1>2
  <1>4. d.quotient \in Magnitudes /\ d.rem \in Magnitudes /\ m = q * n + r /\ r < n
    BY <1>1, <1>2, <1>3, MagDivides
  <1>5. q \in Nat /\ r \in Nat
    BY <1>4, Comparison
  <1>6. DivMod(x, y) = [quotient |-> Signed(d.quotient, neg),
                        rem |-> Signed(d.rem, x.negative)]
    BY DEF DivMod
  <1>7. /\ Signed(d.quotient, neg) \in BigInts
        /\ ValueOf(Signed(d.quotient, neg)) = IF neg THEN -q ELSE q
    <2>1. neg \in BOOLEAN
      OBVIOUS
    <2> HIDE DEF neg, d
    <2> QED
      BY <1>4, <2>1, SignedType
  <1>8. /\ Signed(d.rem, x.negative) \in BigInts
        /\ ValueOf(Signed(d.rem, x.negative)) = IF x.negative THEN -r ELSE r
    <2> HIDE DEF d
    <2> QED
      BY <1>1, <1>4, SignedType
  <1> DEFINE Q == IF neg THEN -q ELSE q
             R == IF x.negative THEN -r ELSE r
  <1>9. Truncates(X, Y, Q, R)
    <2> HIDE DEF d, m, n, q, r, X, Y
    <2>1. neg <=> (X < 0) # (Y < 0)
      BY <1>1, <1>2
    <2>2. (IF X < 0 THEN -X ELSE X) = m /\ (IF Y < 0 THEN -Y ELSE Y) = n
      BY <1>1, <1>2
    <2>3. m \div n = q
      <3>1. n \in Nat \ {0} /\ r \in 0..(n - 1) /\ q \in Int /\ m \in Int
        BY <1>1, <1>2, <1>3, <1>4, <1>5
      <3>2. m = n * q + r
        <4>1. q * n = n * q
          BY <1>2, <1>5, Associate
        <4> QED
          BY <1>4, <4>1
      <3> QED
        BY <3>1, <3>2, DivisionOf
    <2>4. Q = Quotient(X, Y)
      <3>1. Quotient(X, Y) = IF (X < 0) # (Y < 0) THEN -(m \div n) ELSE m \div n
        BY <2>2 DEF Quotient
      <3> HIDE DEF neg
      <3> QED
        BY <2>1, <2>3, <3>1
    <2>5. X = Q * Y + R
      <3>1. m \in Int /\ n \in Int /\ q \in Int /\ r \in Int
        BY <1>1, <1>2, <1>5
      <3>2. /\ -m = (-q) * n + (-r) /\ m = (-q) * (-n) + r
            /\ -m = q * (-n) + (-r)
        BY <3>1, <1>4, SignedDivision
      <3>3. CASE x.negative /\ y.negative
        BY <1>1, <1>2, <3>2, <3>3
      <3>4. CASE x.negative /\ ~y.negative
        BY <1>1, <1>2, <3>2, <3>4
      <3>5. CASE ~x.negative /\ y.negative
        BY <1>1, <1>2, <3>2, <3>5
      <3>6. CASE ~x.negative /\ ~y.negative
        <4>1. X = m /\ Y = n /\ Q = q /\ R = r
          BY <1>1, <1>2, <3>6
        <4> QED
          BY <4>1, <1>4
      <3> QED
        BY <3>3, <3>4, <3>5, <3>6
    <2>6. Magnitude(R) = r /\ Magnitude(Y) = n
      BY <1>1, <1>2, <1>5 DEF Magnitude
    <2>7. (R > 0 => X > 0) /\ (R < 0 => X < 0)
      <3>1. r > 0 => m > 0
        <4>1. q * n \in Nat
          BY <1>2, <1>5, Products
        <4> QED
          BY <1>1, <1>4, <1>5, <4>1
      <3> QED
        BY <1>1, <1>5, <3>1
    <2> QED
      BY <1>4, <2>4, <2>5, <2>6, <2>7 DEF Truncates
  <1> HIDE DEF Truncates, d, neg
  <1> QED
    BY <1>6, <1>7, <1>8, <1>9

\* What a floored quotient and its remainder are.
Floors(x, y, q, r) ==
    /\ q = Floor(x, y) /\ x = q * y + r
    /\ y > 0 => r \in 0..(y - 1)
    /\ y < 0 => r \in (y + 1)..0

\* A remainder with the sign of the divisor makes the quotient the floor.
LEMMA FloorIs ==
    ASSUME NEW x \in Int, NEW y \in Int \ {0}, NEW q \in Int, NEW r \in Int,
           x = q * y + r, y > 0 => r \in 0..(y - 1), y < 0 => r \in (y + 1)..0
    PROVE  Floors(x, y, q, r)
  <1>1. CASE y > 0
    <2>1. x = y * q + r
      <3>1. q * y = y * q
        BY Associate
      <3> QED
        BY <3>1
    <2>2. x \div y = q
      BY <1>1, <2>1, DivisionOf
    <2>3. Floor(x, y) = q
      BY <1>1, <2>2 DEF Floor
    <2> QED
      BY <1>1, <2>3 DEF Floors
  <1>2. CASE y < 0
    <2>1. -x = (-y) * q + (-r)
      <3>1. (-y) * q = -(q * y) /\ q * y \in Int
        OBVIOUS
      <3> QED
        BY <3>1
    <2>2. -y \in Nat \ {0} /\ -r \in 0..((-y) - 1) /\ -x \in Int
      BY <1>2
    <2>3. (-x) \div (-y) = q
      BY <2>1, <2>2, DivisionOf
    <2>4. Floor(x, y) = q
      BY <1>2, <2>3 DEF Floor
    <2> QED
      BY <1>2, <2>4 DEF Floors
  <1> QED
    BY <1>1, <1>2

\* floordiv divides toward minus infinity.
LEMMA FloorDivDivides ==
    ASSUME NEW x \in BigInts, NEW y \in BigInts, ValueOf(y) # 0
    PROVE  LET s == FloorDiv(x, y) IN
           /\ s.quotient \in BigInts /\ s.rem \in BigInts
           /\ Floors(ValueOf(x), ValueOf(y), ValueOf(s.quotient), ValueOf(s.rem))
  <1> DEFINE d == DivMod(x, y)
             X == ValueOf(x)
             Y == ValueOf(y)
             Q == ValueOf(d.quotient)
             R == ValueOf(d.rem)
  <1>1. /\ d.quotient \in BigInts /\ d.rem \in BigInts /\ Truncates(X, Y, Q, R)
    BY DivModDivides
  <1>2. /\ X \in Int /\ Y \in Int /\ Q \in Int /\ R \in Int
        /\ x.negative \in BOOLEAN /\ y.negative \in BOOLEAN
    BY <1>1, IntSplits
  <1>3. x.negative <=> X < 0
    BY IntSplits
  <1>4. y.negative <=> Y < 0
    BY IntSplits
  <1> HIDE DEF d, X, Y, Q, R
  <1>5. /\ X = Q * Y + R /\ Magnitude(R) < Magnitude(Y)
        /\ R > 0 => X > 0
        /\ R < 0 => X < 0
    BY <1>1 DEF Truncates
  <1>6. Y \in Int \ {0}
    BY <1>2 DEF Y
  <1>7. CASE d.rem # Zero /\ x.negative # y.negative
    <2> DEFINE q == Plus(d.quotient, Of(-1))
               r == Plus(d.rem, y)
    <2>1. FloorDiv(x, y) = [quotient |-> q, rem |-> r]
      BY <1>7 DEF FloorDiv, d
    <2>2. Of(-1) \in BigInts /\ ValueOf(Of(-1)) = -1
      <3>1. -1 \in Int
        OBVIOUS
      <3> QED
        BY <3>1, OfIs
    <2>3. q \in BigInts /\ ValueOf(q) = Q - 1
      <3>1. q \in BigInts /\ ValueOf(q) = Q + -1
        BY <1>1, <2>2, PlusAdds DEF Q
      <3> QED
        BY <1>2, <3>1
    <2>4. r \in BigInts /\ ValueOf(r) = R + Y
      BY <1>1, PlusAdds DEF R, Y
    <2>5. R # 0
      BY <1>1, <1>7, ZeroIs, IntsDiffer DEF R
    <2>6. X = (Q - 1) * Y + (R + Y)
      <3>1. (Q - 1) * Y = Q * Y - Y /\ Q * Y \in Int
        BY <1>2
      <3> QED
        BY <1>2, <1>5, <3>1
    <2>7. (X < 0 /\ Y > 0) \/ (X >= 0 /\ Y < 0)
      BY <1>2, <1>3, <1>4, <1>6, <1>7
    <2>8. (Y > 0 => R + Y \in 0..(Y - 1)) /\ (Y < 0 => R + Y \in (Y + 1)..0)
      BY <1>2, <1>5, <2>5, <2>7 DEF Magnitude
    <2>9. Floors(X, Y, Q - 1, R + Y)
      <3>1. Q - 1 \in Int /\ R + Y \in Int
        BY <1>2
      <3> QED
        BY <1>2, <1>6, <2>6, <2>8, <3>1, FloorIs
    <2> HIDE DEF q, r, Floors
    <2> QED
      BY <2>1, <2>3, <2>4, <2>9 DEF X, Y
  <1>8. CASE ~(d.rem # Zero /\ x.negative # y.negative)
    <2>1. FloorDiv(x, y) = d
      BY <1>8 DEF FloorDiv, d
    <2>2. R = 0 \/ (X < 0 <=> Y < 0)
      BY <1>3, <1>4, <1>8, ZeroIs DEF R
    <2>3. (Y > 0 => R \in 0..(Y - 1)) /\ (Y < 0 => R \in (Y + 1)..0)
      BY <1>2, <1>5, <1>6, <2>2 DEF Magnitude
    <2>4. Floors(X, Y, Q, R)
      BY <1>2, <1>5, <1>6, <2>3, FloorIs
    <2> QED
      BY <1>1, <2>1, <2>4 DEF X, Y, Q, R
  <1> QED
    BY <1>7, <1>8

-----------------------------------------------------------------------------
(* Powers *)

\* Squaring the base halves the exponent.
LEMMA PowersSquare ==
    ASSUME NEW b \in Int
    PROVE  \A m \in Nat : Powers(b)[2 * m] = Powers(b * b)[m]
  <1> DEFINE P == Powers(b)
             Q == Powers(b * b)
             S == {m \in Nat : P[2 * m] = Q[m]}
  <1>1. P \in [Nat -> Int] /\ P[0] = 1 /\ \A i \in Nat : P[i + 1] = b * P[i]
    BY PowersRun
  <1>2. Q \in [Nat -> Int] /\ Q[0] = 1 /\ \A i \in Nat : Q[i + 1] = (b * b) * Q[i]
    <2>1. b * b \in Int
      OBVIOUS
    <2> QED
      BY <2>1, PowersRun
  <1> HIDE DEF P, Q
  <1>3. 0 \in S
    BY <1>1, <1>2
  <1>4. ASSUME NEW m \in Nat, m \in S PROVE m + 1 \in S
    <2>1. 2 * m \in Nat /\ 2 * m + 1 \in Nat /\ 2 * (m + 1) = (2 * m + 1) + 1
      OBVIOUS
    <2>2. P[(2 * m + 1) + 1] = b * P[2 * m + 1] /\ P[2 * m + 1] = b * P[2 * m]
      BY <1>1, <2>1
    <2>3. P[2 * m] \in Int
      BY <1>1, <2>1
    <2>4. b * (b * P[2 * m]) = (b * b) * P[2 * m]
      BY <2>3, Associate
    <2> QED
      BY <1>2, <1>4, <2>1, <2>2, <2>4
  <1>5. \A m \in Nat : m \in S
    <2> HIDE DEF S
    <2> QED
      BY <1>3, <1>4, SetInduction
  <1> QED
    BY <1>5 DEF P, Q

\* An exponent and its halves.
LEMMA Halves ==
    ASSUME NEW e \in Nat
    PROVE  /\ e \div 2 \in Nat /\ e % 2 \in {0, 1} /\ e = 2 * (e \div 2) + (e % 2)
           /\ e # 0 => e \div 2 < e
  OBVIOUS

\* One turn of the loop of big_pow keeps the result times the power of b.
LEMMA TurnKeeps ==
    ASSUME NEW R \in Int, NEW B \in Int, NEW e \in Nat
    PROVE  (IF e % 2 = 1 THEN R * B ELSE R) * Powers(B * B)[e \div 2]
               = R * Powers(B)[e]
  <1> DEFINE h == e \div 2
             p == Powers(B)[2 * h]
  <1>1. h \in Nat /\ e % 2 \in {0, 1} /\ e = 2 * h + (e % 2) /\ 2 * h \in Nat
    BY Halves
  <1>2. /\ Powers(B) \in [Nat -> Int]
        /\ \A i \in Nat : Powers(B)[i + 1] = B * Powers(B)[i]
    BY PowersRun
  <1>3. Powers(B * B)[h] = p /\ p \in Int
    BY <1>1, <1>2, PowersSquare
  <1>4. CASE e % 2 = 0
    <2>1. e = 2 * h
      BY <1>1, <1>4
    <2> HIDE DEF h
    <2> QED
      BY <1>3, <1>4, <2>1 DEF h
  <1>5. CASE e % 2 = 1
    <2>1. e = 2 * h + 1
      BY <1>1, <1>5
    <2> HIDE DEF h
    <2>2. Powers(B)[e] = B * p
      BY <1>1, <1>2, <2>1
    <2> HIDE DEF p
    <2>3. (R * B) * p = R * (B * p)
      BY <1>3, Associate
    <2> QED
      BY <1>3, <1>5, <2>2, <2>3 DEF h
  <1> QED
    BY <1>1, <1>4, <1>5

\* big_pow raises to a power.
LEMMA PowerRaises ==
    ASSUME NEW x \in BigInts, NEW n \in Nat
    PROVE  Power(x, n) \in BigInts /\ ValueOf(Power(x, n)) = Powers(ValueOf(x))[n]
  <1> DEFINE A == [exp : Nat, b : BigInts, result : BigInts]
             start == [exp |-> n, b |-> x, result |-> Of(1)]
             turn == [s \in A |->
                         IF s.exp = 0 THEN s
                         ELSE [exp |-> s.exp \div 2, b |-> Times(s.b, s.b),
                               result |-> IF s.exp % 2 = 1 THEN Times(s.result, s.b)
                                          ELSE s.result]]
             F == [i \in Nat |-> turn]
             L == Loop(start, F)
             X == ValueOf(x)
             goal == Powers(X)[n]
             Keeps(s) == ValueOf(s.result) * Powers(ValueOf(s.b))[s.exp] = goal
             S == {k \in Nat : Keeps(L[k]) /\ (L[k].exp = 0 \/ L[k].exp + k <= n)}
  <1>1. Power(x, n) = L[n].result
    BY DEF Power
  <1>2. Of(1) \in BigInts /\ ValueOf(Of(1)) = 1
    BY OfIs
  <1>3. start \in A
    BY <1>2
  <1>4. ASSUME NEW s \in A
        PROVE  turn[s] \in A
    <2>1. s.exp \in Nat /\ s.b \in BigInts /\ s.result \in BigInts
      OBVIOUS
    <2>2. Times(s.b, s.b) \in BigInts /\ Times(s.result, s.b) \in BigInts
      BY <2>1, TimesMultiplies
    <2>3. s.exp \div 2 \in Nat
      BY <2>1, Halves
    <2> QED
      BY <2>1, <2>2, <2>3
  <1>5. F \in [Nat -> [A -> A]]
    <2>1. turn \in [A -> A]
      BY <1>4
    <2> HIDE DEF A, turn
    <2> QED
      BY <2>1
  <1>6. L \in [Nat -> A] /\ Runs(L, start, F)
    <2> HIDE DEF A, F, start
    <2> QED
      BY <1>3, <1>5, LoopRuns
  <1>7. L[0] = start /\ \A k \in Nat : L[k + 1] = turn[L[k]] /\ L[k] \in A
    <2> HIDE DEF A, turn, start, L
    <2> QED
      BY <1>6 DEF Runs
  <1>8. 0 \in S
    <2>1. X \in Int
      BY IntSplits
    <2>2. Powers(X)[n] \in Int
      BY <2>1, PowersRun
    <2>3. L[0].exp = n /\ L[0].b = x /\ L[0].result = Of(1)
      <3> HIDE DEF L
      <3>1. L[0] = start
        BY <1>7
      <3> QED
        BY <3>1
    <2> HIDE DEF L, X
    <2>4. 1 * Powers(X)[n] = Powers(X)[n]
      BY <2>2
    <2> QED
      BY <1>2, <2>3, <2>4 DEF X
  <1>9. ASSUME NEW k \in Nat, k \in S PROVE k + 1 \in S
    <2> DEFINE s == L[k]
               e == s.exp
               B == ValueOf(s.b)
               R == ValueOf(s.result)
    <2>1. /\ s \in A /\ e \in Nat /\ s.b \in BigInts /\ s.result \in BigInts
          /\ L[k + 1] = turn[s]
      BY <1>7
    <2>2. B \in Int /\ R \in Int
      BY <2>1, IntSplits
    <2>3. Keeps(s) /\ (e = 0 \/ e + k <= n)
      BY <1>9
    <2>4. CASE e = 0
      <3>1. L[k + 1] = s
        BY <2>1, <2>4
      <3> HIDE DEF L, Keeps
      <3> QED
        BY <2>3, <2>4, <3>1
    <2>5. CASE e # 0
      <3>1. /\ L[k + 1].exp = e \div 2
            /\ L[k + 1].b = Times(s.b, s.b)
            /\ L[k + 1].result = IF e % 2 = 1 THEN Times(s.result, s.b) ELSE s.result
        <4>1. turn[s] = [exp |-> s.exp \div 2, b |-> Times(s.b, s.b),
                         result |-> IF s.exp % 2 = 1 THEN Times(s.result, s.b)
                                    ELSE s.result]
          <5> HIDE DEF s, A
          <5> QED
            BY <2>1, <2>5 DEF e
        <4> HIDE DEF L, turn
        <4> QED
          BY <2>1, <4>1
      <3>2. ValueOf(L[k + 1].b) = B * B
        BY <2>1, <3>1, TimesMultiplies
      <3>3. ValueOf(L[k + 1].result) = IF e % 2 = 1 THEN R * B ELSE R
        BY <2>1, <3>1, TimesMultiplies
      <3>4. Keeps(L[k + 1])
        <4> HIDE DEF s, L, e, B, R, goal
        <4>1. (IF e % 2 = 1 THEN R * B ELSE R) * Powers(B * B)[e \div 2] = R * Powers(B)[e]
          BY <2>1, <2>2, TurnKeeps
        <4> QED
          BY <2>3, <3>1, <3>2, <3>3, <4>1 DEF e, B, R
      <3>5. e \div 2 + (k + 1) <= n
        <4>1. e \div 2 \in Nat /\ e \div 2 < e
          BY <2>1, <2>5, Halves
        <4> DEFINE h == e \div 2
        <4> HIDE DEF e, h, Keeps
        <4>2. e \in Nat /\ h \in Nat /\ h < e /\ e + k <= n
          BY <2>1, <2>3, <2>5, <4>1 DEF h
        <4>3. h + (k + 1) <= n
          BY <4>2
        <4> QED
          BY <4>3 DEF h
      <3> HIDE DEF L, Keeps, e
      <3> QED
        BY <3>1, <3>4, <3>5
    <2> QED
      BY <2>4, <2>5
  <1>10. n \in S
    <2>1. \A k \in Nat : k \in S
      <3> HIDE DEF S
      <3> QED
        BY <1>8, <1>9, SetInduction
    <2> HIDE DEF S
    <2> QED
      BY <2>1
  <1> DEFINE s == L[n]
  <1>11. s \in A
    BY <1>7
  <1>12. Keeps(s) /\ (s.exp = 0 \/ s.exp + n <= n)
    <2> HIDE DEF Keeps, L
    <2> QED
      BY <1>10
  <1>13. s.exp = 0 /\ s.result \in BigInts /\ s.b \in BigInts
    <2> HIDE DEF s, Keeps
    <2>1. s.exp \in Nat /\ s.result \in BigInts /\ s.b \in BigInts
      BY <1>11
    <2> QED
      BY <1>12, <2>1
  <1>14. Powers(ValueOf(s.b))[0] = 1
    <2>1. ValueOf(s.b) \in Int
      BY <1>13, IntSplits
    <2> HIDE DEF s
    <2> QED
      BY <2>1, PowersRun
  <1>15. ValueOf(s.result) = goal
    <2>1. ValueOf(s.result) \in Int
      BY <1>13, IntSplits
    <2> HIDE DEF s, goal
    <2> QED
      BY <1>12, <1>13, <1>14, <2>1
  <1> HIDE DEF goal, L
  <1> QED
    BY <1>1, <1>13, <1>15 DEF goal

-----------------------------------------------------------------------------
(* The greatest common divisor *)

Divides(d, x) == \E k \in Int : x = k * d

LEMMA DividesCombination ==
    ASSUME NEW d \in Int, NEW x \in Int, NEW y \in Int, NEW q \in Int,
           Divides(d, x), Divides(d, y)
    PROVE  Divides(d, q * x + y) /\ Divides(d, y - q * x)
  <1>1. PICK i \in Int : x = i * d
    BY DEF Divides
  <1>2. PICK j \in Int : y = j * d
    BY DEF Divides
  <1>3. q * x = (q * i) * d /\ q * i \in Int /\ (q * i) * d \in Int
    BY <1>1, Associate
  <1> DEFINE t == q * i
  <1> HIDE DEF t
  <1>4. t \in Int /\ q * x = t * d
    BY <1>3 DEF t
  <1>5. q * x + y = (t + j) * d /\ t + j \in Int
    BY <1>2, <1>4, Distribute
  <1>6. y - q * x = (j - t) * d /\ j - t \in Int
    BY <1>2, <1>4, Distribute
  <1> QED
    BY <1>5, <1>6 DEF Divides

LEMMA DividesSigned ==
    ASSUME NEW d \in Int, NEW x \in Int
    PROVE  Divides(d, x) <=> Divides(d, -x)
  <1>1. ASSUME NEW y \in Int, Divides(d, y) PROVE Divides(d, -y)
    <2>1. PICK k \in Int : y = k * d
      BY <1>1 DEF Divides
    <2>2. -y = (-k) * d /\ -k \in Int
      BY <2>1
    <2> QED
      BY <2>2 DEF Divides
  <1>2. -x \in Int /\ -(-x) = x
    OBVIOUS
  <1> QED
    BY <1>1, <1>2

LEMMA DividesIsNoRemainder ==
    ASSUME NEW d \in Nat \ {0}, NEW x \in Int
    PROVE  Divides(d, x) <=> x % d = 0
  <1>1. ASSUME Divides(d, x) PROVE x % d = 0
    <2>1. PICK k \in Int : x = k * d
      BY <1>1 DEF Divides
    <2>2. x = d * k + 0 /\ 0 \in 0..(d - 1)
      BY <2>1
    <2> QED
      BY <2>2, DivisionOf
  <1>2. ASSUME x % d = 0 PROVE Divides(d, x)
    <2>1. x \div d \in Int /\ x = d * (x \div d) + (x % d)
      BY Division
    <2> DEFINE q == x \div d
    <2> HIDE DEF q
    <2>2. q \in Int /\ x = d * q + 0
      BY <1>2, <2>1 DEF q
    <2>3. d * q = q * d /\ q * d \in Int
      BY <2>2, Associate
    <2>4. x = q * d
      BY <2>2, <2>3
    <2> QED
      BY <2>2, <2>4 DEF Divides
  <1> QED
    BY <1>1, <1>2

\* g divides x and y and is divided by all that do.
Greatest(g, x, y) ==
    /\ Divides(g, x) /\ Divides(g, y)
    /\ \A d \in Nat : Divides(d, x) /\ Divides(d, y) => Divides(d, g)

\* A number and what it leaves of another have the divisors of the two.
LEMMA GreatestOfRest ==
    ASSUME NEW g \in Nat, NEW m \in Nat, NEW n \in Nat, NEW q \in Nat, NEW r \in Nat,
           m = q * n + r, Greatest(g, n, r)
    PROVE  Greatest(g, m, n)
  <1>1. Divides(g, n) /\ Divides(g, r)
    BY DEF Greatest
  <1>2. Divides(g, m)
    <2>0. g \in Int /\ n \in Int /\ q \in Int /\ r \in Int
      OBVIOUS
    <2>1. Divides(g, q * n + r)
      BY <1>1, <2>0, DividesCombination
    <2> QED
      BY <2>1
  <1>3. ASSUME NEW d \in Nat, Divides(d, m), Divides(d, n) PROVE Divides(d, g)
    <2>1. m - q * n = r
      <3>1. q * n \in Int
        OBVIOUS
      <3> QED
        BY <3>1
    <2>0. d \in Int /\ n \in Int /\ q \in Int /\ m \in Int
      OBVIOUS
    <2>2. Divides(d, m - q * n)
      BY <1>3, <2>0, DividesCombination
    <2> QED
      BY <1>3, <2>1, <2>2 DEF Greatest
  <1> QED
    BY <1>1, <1>2, <1>3 DEF Greatest

Pairs == Magnitudes \X Magnitudes

\* The recursive definition of Euclid's algorithm defines it.
LEMMA EuclidStep ==
    \A p \in Pairs :
        Euclid[p] = IF p[2] = <<>> THEN p[1]
                    ELSE Euclid[<<p[2], DivModMag(p[1], p[2]).rem>>]
  <1> DEFINE A == Magnitudes
             Rest(p) == <<p[2], DivModMag(p[1], p[2]).rem>>
             Stop == {p \in Pairs : p[2] = <<>>}
             measure == [p \in Pairs |-> Val(p[2])]
             value == [p \in Pairs |-> p[1]]
             next == [p \in Pairs |-> IF p[2] = <<>> THEN p ELSE Rest(p)]
             F == [p \in Pairs |-> [m \in A |-> m]]
             Is(f) == f = [p \in Pairs |-> IF p[2] = <<>> THEN p[1] ELSE f[Rest(p)]]
  <1>1. ASSUME NEW p \in Pairs, p[2] # <<>>
        PROVE  /\ Rest(p) \in Pairs
               /\ Val(DivModMag(p[1], p[2]).rem) < Val(p[2])
    <2>1. p[1] \in Magnitudes /\ p[2] \in Magnitudes
      BY DEF Pairs
    <2> DEFINE r == DivModMag(p[1], p[2]).rem
    <2>2. r \in Magnitudes /\ Val(r) < Val(p[2])
      BY <1>1, <2>1, MagDivides
    <2> HIDE DEF r
    <2>3. <<p[2], r>> \in Pairs
      BY <2>1, <2>2 DEF Pairs
    <2> QED
      BY <2>2, <2>3 DEF r
  <1>2. next \in [Pairs -> Pairs]
    <2> HIDE DEF Rest
    <2> QED
      BY <1>1
  <1>3. \A p \in Pairs \ Stop : measure[next[p]] < measure[p]
    <2> SUFFICES ASSUME NEW p \in Pairs \ Stop PROVE measure[next[p]] < measure[p]
      OBVIOUS
    <2>1. p \in Pairs /\ p[2] # <<>>
      OBVIOUS
    <2>2. next[p] = Rest(p) /\ Rest(p) \in Pairs
      BY <1>1, <2>1
    <2>3. measure[Rest(p)] = Val(DivModMag(p[1], p[2]).rem) /\ measure[p] = Val(p[2])
      BY <2>1, <2>2
    <2> HIDE DEF measure, next, Rest
    <2> QED
      BY <1>1, <2>1, <2>2, <2>3
  <1>4. measure \in [Pairs -> Nat]
    <2>1. ASSUME NEW p \in Pairs PROVE Val(p[2]) \in Nat
      <3>1. p[2] \in Magnitudes
        BY DEF Pairs
      <3> QED
        BY <3>1, Comparison
    <2> QED
      BY <2>1
  <1>5. value \in [Pairs -> A] /\ Stop \in SUBSET Pairs /\ F \in [Pairs -> [A -> A]]
    BY DEF Pairs
  <1>6. PICK f \in [Pairs -> A] : Descends(f, Pairs, Stop, value, next, F)
    <2> HIDE DEF A, Stop, measure, value, next, F
    <2> QED
      BY <1>2, <1>3, <1>4, <1>5, MeasuredRecursion
  <1>7. Is(f)
    <2>1. ASSUME NEW p \in Pairs
          PROVE  f[p] = IF p[2] = <<>> THEN p[1] ELSE f[Rest(p)]
      <3>1. f[p] = IF p \in Stop THEN value[p] ELSE F[p][f[next[p]]]
        BY <1>6 DEF Descends
      <3>2. CASE p[2] = <<>>
        BY <3>1, <3>2
      <3>3. CASE p[2] # <<>>
        <4>1. next[p] = Rest(p) /\ Rest(p) \in Pairs
          BY <1>1, <3>3
        <4>2. f[Rest(p)] \in A
          BY <4>1
        <4> HIDE DEF A, Rest
        <4>3. F[p][f[Rest(p)]] = f[Rest(p)]
          BY <4>2
        <4> QED
          BY <3>1, <3>3, <4>1, <4>3
      <3> QED
        BY <3>2, <3>3
    <2> HIDE DEF Rest
    <2> QED
      BY <1>6, <2>1 DEF Descends
  <1>8. Is(Euclid)
    BY <1>7 DEF Euclid, Pairs
  <1> QED
    BY <1>8

\* It finds the greatest common divisor.
LEMMA EuclidDivides ==
    \A m, n \in Magnitudes :
        /\ Euclid[<<m, n>>] \in Magnitudes
        /\ Greatest(Val(Euclid[<<m, n>>]), Val(m), Val(n))
  <1> DEFINE Right(m, n) == /\ Euclid[<<m, n>>] \in Magnitudes
                            /\ Greatest(Val(Euclid[<<m, n>>]), Val(m), Val(n))
             S == {k \in Nat : \A m, n \in Magnitudes : Val(n) <= k => Right(m, n)}
  <1>1. ASSUME NEW m \in Magnitudes PROVE Right(m, <<>>)
    <2>1. Euclid[<<m, <<>>>>] = m
      <3>1. <<m, <<>>>> \in Pairs
        BY EmptyVal DEF Pairs
      <3> QED
        BY <3>1, EuclidStep
    <2>2. Val(m) \in Nat /\ Val(<<>>) = 0
      BY Comparison, EmptyVal
    <2>3. Divides(Val(m), Val(m)) /\ Divides(Val(m), 0)
      <3>1. Val(m) = 1 * Val(m) /\ 0 = 0 * Val(m)
        BY <2>2
      <3> QED
        BY <3>1 DEF Divides
    <2> QED
      BY <2>1, <2>2, <2>3 DEF Greatest
  <1>2. ASSUME NEW m \in Magnitudes, NEW n \in Magnitudes, n # <<>>,
               \A k \in Magnitudes : Val(k) < Val(n) => Right(n, k)
        PROVE  Right(m, n)
    <2> DEFINE d == DivModMag(m, n)
    <2>1. /\ d.quotient \in Magnitudes /\ d.rem \in Magnitudes
          /\ Val(m) = Val(d.quotient) * Val(n) + Val(d.rem)
          /\ Val(d.rem) < Val(n)
      BY <1>2, MagDivides
    <2> HIDE DEF d
    <2>2. Right(n, d.rem)
      BY <1>2, <2>1
    <2>3. Euclid[<<m, n>>] = Euclid[<<n, d.rem>>]
      <3>1. <<m, n>> \in Pairs /\ <<m, n>>[1] = m /\ <<m, n>>[2] = n
        BY DEF Pairs
      <3> QED
        BY <1>2, <3>1, EuclidStep DEF d
    <2> DEFINE g == Val(Euclid[<<n, d.rem>>])
    <2>4. /\ g \in Nat /\ Val(m) \in Nat /\ Val(n) \in Nat
          /\ Val(d.quotient) \in Nat /\ Val(d.rem) \in Nat
      BY <2>1, <2>2, Comparison
    <2>5. Greatest(g, Val(n), Val(d.rem))
      BY <2>2
    <2> HIDE DEF g
    <2>6. Greatest(g, Val(m), Val(n))
      BY <2>1, <2>4, <2>5, GreatestOfRest
    <2> QED
      BY <2>2, <2>3, <2>6 DEF g
  <1> HIDE DEF Right
  <1>3. 0 \in S
    <2> SUFFICES ASSUME NEW m \in Magnitudes, NEW n \in Magnitudes, Val(n) <= 0
                 PROVE  Right(m, n)
      OBVIOUS
    <2>1. Val(n) \in Nat /\ Val(<<>>) = 0 /\ <<>> \in Magnitudes
      BY Comparison, EmptyVal
    <2>2. n = <<>>
      BY <2>1, Comparison
    <2> QED
      BY <1>1, <2>2
  <1>4. ASSUME NEW k \in Nat, k \in S PROVE k + 1 \in S
    <2> SUFFICES ASSUME NEW m \in Magnitudes, NEW n \in Magnitudes, Val(n) <= k + 1
                 PROVE  Right(m, n)
      OBVIOUS
    <2>1. CASE n = <<>>
      BY <1>1, <2>1
    <2>2. CASE n # <<>>
      <3>1. ASSUME NEW j \in Magnitudes, Val(j) < Val(n) PROVE Right(n, j)
        <4>1. Val(j) \in Nat /\ Val(n) \in Nat
          BY Comparison
        <4>2. Val(j) <= k
          BY <3>1, <4>1
        <4> QED
          BY <1>4, <4>2
      <3> QED
        BY <1>2, <2>2, <3>1
    <2> QED
      BY <2>1, <2>2
  <1>5. \A k \in Nat : k \in S
    <2> HIDE DEF S
    <2> QED
      BY <1>3, <1>4, SetInduction
  <1>6. ASSUME NEW m \in Magnitudes, NEW n \in Magnitudes PROVE Right(m, n)
    <2>1. Val(n) \in Nat /\ Val(n) <= Val(n)
      BY Comparison
    <2> QED
      BY <1>5, <2>1
  <1> QED
    BY <1>6 DEF Right

\* big_gcd finds it whatever the signs.
LEMMA GcdDivides ==
    ASSUME NEW x \in BigInts, NEW y \in BigInts
    PROVE  /\ Gcd(x, y) \in BigInts /\ ValueOf(Gcd(x, y)) \in Nat
           /\ Greatest(ValueOf(Gcd(x, y)), ValueOf(x), ValueOf(y))
  <1> DEFINE e == Euclid[<<x.mag, y.mag>>]
             g == Val(e)
             m == Val(x.mag)
             n == Val(y.mag)
             X == ValueOf(x)
             Y == ValueOf(y)
  <1>1. /\ x.mag \in Magnitudes /\ y.mag \in Magnitudes
        /\ m \in Nat /\ n \in Nat /\ X \in Int /\ Y \in Int
        /\ X = m \/ X = -m
        /\ Y = n \/ Y = -n
    BY IntSplits
  <1>2. e \in Magnitudes /\ Greatest(g, m, n)
    BY <1>1, EuclidDivides
  <1>3. Gcd(x, y) = Signed(e, FALSE)
    BY DEF Gcd
  <1> HIDE DEF e
  <1>4. Signed(e, FALSE) \in BigInts /\ ValueOf(Signed(e, FALSE)) = g
    BY <1>2, SignedType
  <1>5. g \in Nat
    BY <1>2, Comparison
  <1> HIDE DEF g, m, n, X, Y
  <1>6. \A d \in Nat : (Divides(d, X) <=> Divides(d, m)) /\ (Divides(d, Y) <=> Divides(d, n))
    <2> SUFFICES ASSUME NEW d \in Nat
                 PROVE  (Divides(d, X) <=> Divides(d, m)) /\ (Divides(d, Y) <=> Divides(d, n))
      OBVIOUS
    <2>1. d \in Int /\ m \in Int /\ n \in Int
      BY <1>1
    <2>2. (Divides(d, m) <=> Divides(d, -m)) /\ (Divides(d, n) <=> Divides(d, -n))
      BY <2>1, DividesSigned
    <2> QED
      BY <1>1, <2>2
  <1>7. Greatest(g, X, Y)
    BY <1>2, <1>5, <1>6 DEF Greatest
  <1> QED
    BY <1>3, <1>4, <1>5, <1>7 DEF g, X, Y

-----------------------------------------------------------------------------
(* Decimal text *)

FigureSet == {"0", "1", "2", "3", "4", "5", "6", "7", "8", "9"}

LEMMA FiguresAre ==
    /\ DOMAIN FigureValue = FigureSet
    /\ \A d \in 0..9 : Figures[d + 1] \in FigureSet /\ FigureValue[Figures[d + 1]] = d
    /\ \A c \in FigureSet : FigureValue[c] \in 0..9
  <1>1. /\ Figures[1] = "0" /\ Figures[2] = "1" /\ Figures[3] = "2" /\ Figures[4] = "3"
        /\ Figures[5] = "4" /\ Figures[6] = "5" /\ Figures[7] = "6" /\ Figures[8] = "7"
        /\ Figures[9] = "8" /\ Figures[10] = "9"
    BY DEF Figures
  <1>2. 1..10 = {1, 2, 3, 4, 5, 6, 7, 8, 9, 10}
    OBVIOUS
  <1>3. {Figures[d] : d \in 1..10} = FigureSet
    BY <1>1, <1>2 DEF FigureSet
  <1>4. DOMAIN FigureValue = FigureSet
    BY <1>3 DEF FigureValue
  <1>5. \A d, e \in 1..10 : Figures[d] = Figures[e] => d = e
    BY <1>1, <1>2
  <1>6. ASSUME NEW d \in 1..10
        PROVE  Figures[d] \in FigureSet /\ FigureValue[Figures[d]] = d - 1
    <2>1. Figures[d] \in FigureSet
      BY <1>3
    <2>2. (CHOOSE e \in 1..10 : Figures[e] = Figures[d]) = d
      BY <1>5
    <2> QED
      BY <1>3, <2>1, <2>2 DEF FigureValue
  <1>7. ASSUME NEW d \in 0..9
        PROVE  Figures[d + 1] \in FigureSet /\ FigureValue[Figures[d + 1]] = d
    <2>1. d + 1 \in 1..10 /\ (d + 1) - 1 = d
      OBVIOUS
    <2> QED
      BY <1>6, <2>1
  <1>8. ASSUME NEW c \in FigureSet PROVE FigureValue[c] \in 0..9
    <2>1. PICK d \in 1..10 : c = Figures[d]
      BY <1>3
    <2>2. d - 1 \in 0..9
      OBVIOUS
    <2> QED
      BY <1>6, <2>1, <2>2
  <1> QED
    BY <1>4, <1>7, <1>8

Texts == Seq(FigureSet)

\* What from_string has read of a text of figures after each of them.
LEMMA ScannedRuns ==
    ASSUME NEW t \in Texts
    PROVE  /\ Scanned(t) \in [Nat -> BigInts] /\ ValueOf(Scanned(t)[0]) = 0
           /\ \A i \in Nat : i < Len(t) =>
                 ValueOf(Scanned(t)[i + 1])
                     = 10 * ValueOf(Scanned(t)[i]) + FigureValue[t[i + 1]]
  <1> DEFINE A == BigInts
             Reads(i) == \A j \in 1..(i + 1) : j <= Len(t) /\ t[j] \in DOMAIN FigureValue
             next(i, x) == IF Reads(i) THEN Plus(Times(x, Ten), Of(FigureValue[t[i + 1]]))
                           ELSE x
             F == [i \in Nat |-> [x \in A |-> next(i, x)]]
             L == Scanned(t)
  <1>1. /\ Ten \in BigInts /\ ValueOf(Ten) = 10
        /\ Zero \in BigInts /\ ValueOf(Zero) = 0
    BY OfIs, ZeroIs DEF Ten
  <1>2. Len(t) \in Nat /\ \A j \in 1..Len(t) : t[j] \in FigureSet
    BY DEF Texts
  <1>3. ASSUME NEW i \in Nat, i < Len(t) PROVE Reads(i)
    BY <1>2, <1>3, FiguresAre
  <1>4. ASSUME NEW i \in Nat, Reads(i) PROVE FigureValue[t[i + 1]] \in Int
    <2>1. i + 1 \in 1..(i + 1)
      OBVIOUS
    <2>2. t[i + 1] \in FigureSet
      BY <1>4, <2>1, FiguresAre
    <2> QED
      BY <2>2, FiguresAre
  <1> HIDE DEF Reads
  <1>5. ASSUME NEW i \in Nat, NEW x \in A
        PROVE  /\ next(i, x) \in A
               /\ i < Len(t) => ValueOf(next(i, x)) = 10 * ValueOf(x) + FigureValue[t[i + 1]]
    <2>1. CASE Reads(i)
      <3> DEFINE y == Of(FigureValue[t[i + 1]])
                 z == Times(x, Ten)
      <3>1. y \in BigInts /\ ValueOf(y) = FigureValue[t[i + 1]]
        BY <1>4, <2>1, OfIs
      <3>2. z \in BigInts /\ ValueOf(z) = ValueOf(x) * 10
        BY <1>1, TimesMultiplies
      <3> HIDE DEF y, z
      <3>3. Plus(z, y) \in BigInts /\ ValueOf(Plus(z, y)) = ValueOf(z) + ValueOf(y)
        BY <3>1, <3>2, PlusAdds
      <3>4. ValueOf(x) * 10 = 10 * ValueOf(x)
        <4>1. ValueOf(x) \in Int
          BY IntSplits
        <4> QED
          BY <4>1
      <3> QED
        BY <2>1, <3>1, <3>2, <3>3, <3>4 DEF y, z
    <2>2. CASE ~Reads(i)
      BY <1>3, <2>2
    <2> QED
      BY <2>1, <2>2
  <1> HIDE DEF next
  <1>6. F \in [Nat -> [A -> A]]
    BY <1>5
  <1>7. L = Loop(Zero, F)
    BY DEF Scanned, Reads, next
  <1>8. L \in [Nat -> A] /\ Runs(L, Zero, F)
    <2>1. Zero \in A
      BY <1>1
    <2> HIDE DEF A, F, L
    <2> QED
      BY <2>1, <1>6, <1>7, LoopRuns
  <1>9. L[0] = Zero /\ \A i \in Nat : L[i + 1] = next(i, L[i]) /\ L[i] \in A
    <2> HIDE DEF L
    <2> QED
      BY <1>8 DEF Runs
  <1>10. ASSUME NEW i \in Nat, i < Len(t)
         PROVE  ValueOf(L[i + 1]) = 10 * ValueOf(L[i]) + FigureValue[t[i + 1]]
    <2> HIDE DEF L, A
    <2>1. L[i] \in A /\ L[i + 1] = next(i, L[i])
      BY <1>9
    <2> QED
      BY <1>5, <1>10, <2>1
  <1>11. ValueOf(L[0]) = 0
    BY <1>1, <1>9
  <1> QED
    BY <1>8, <1>10, <1>11

\* The number a text of figures is read as.
Number10(t) == ValueOf(Scanned(t)[Len(t)])

\* One more figure.
LEMMA OneMoreFigure ==
    ASSUME NEW t \in Texts, NEW c \in FigureSet
    PROVE  t \o <<c>> \in Texts /\ Number10(t \o <<c>>) = 10 * Number10(t) + FigureValue[c]
  <1> DEFINE u == t \o <<c>>
             n == Len(t)
             S == {i \in Nat : i <= n => ValueOf(Scanned(u)[i]) = ValueOf(Scanned(t)[i])}
  <1>1. u \in Texts /\ n \in Nat /\ Len(u) = n + 1 /\ u[n + 1] = c
        /\ \A i \in 1..n : u[i] = t[i]
    BY DEF Texts
  <1> HIDE DEF u, n
  <1>2. 0 \in S
    BY <1>1, ScannedRuns
  <1>3. ASSUME NEW i \in Nat, i \in S PROVE i + 1 \in S
    <2> SUFFICES ASSUME i + 1 <= n
                 PROVE  ValueOf(Scanned(u)[i + 1]) = ValueOf(Scanned(t)[i + 1])
      OBVIOUS
    <2>1. i < n /\ i < Len(u) /\ i < Len(t) /\ i + 1 \in 1..n
      BY <1>1 DEF n
    <2>2. ValueOf(Scanned(u)[i + 1]) = 10 * ValueOf(Scanned(u)[i]) + FigureValue[u[i + 1]]
      BY <1>1, <2>1, ScannedRuns
    <2>3. ValueOf(Scanned(t)[i + 1]) = 10 * ValueOf(Scanned(t)[i]) + FigureValue[t[i + 1]]
      BY <2>1, ScannedRuns
    <2>4. ValueOf(Scanned(u)[i]) = ValueOf(Scanned(t)[i]) /\ u[i + 1] = t[i + 1]
      BY <1>1, <1>3, <2>1
    <2> QED
      BY <2>2, <2>3, <2>4
  <1>4. \A i \in Nat : i \in S
    <2> HIDE DEF S
    <2> QED
      BY <1>2, <1>3, SetInduction
  <1>5. ValueOf(Scanned(u)[n]) = Number10(t)
    BY <1>1, <1>4 DEF Number10, n
  <1>6. ValueOf(Scanned(u)[n + 1]) = 10 * ValueOf(Scanned(u)[n]) + FigureValue[u[n + 1]]
    <2>1. n < Len(u)
      BY <1>1
    <2> QED
      BY <1>1, <2>1, ScannedRuns
  <1> QED
    BY <1>1, <1>5, <1>6 DEF Number10, u

\* Taking off the last figure leaves less.
LEMMA TenLowers ==
    ASSUME NEW m \in Magnitudes, m # <<>>
    PROVE  LET d == DivModMag(m, Ten.mag) IN
           /\ d.quotient \in Magnitudes /\ d.rem \in Magnitudes
           /\ Val(d.quotient) < Val(m) /\ Val(d.rem) \in 0..9
           /\ Val(m) = 10 * Val(d.quotient) + Val(d.rem)
  <1> DEFINE d == DivModMag(m, Ten.mag)
  <1>1. Ten.mag \in Magnitudes /\ Val(Ten.mag) = 10 /\ Ten.mag # <<>>
    <2>1. Ten \in BigInts /\ ValueOf(Ten) = 10
      BY OfIs DEF Ten
    <2>2. /\ Ten.mag \in Magnitudes /\ Val(Ten.mag) \in Nat
          /\ ValueOf(Ten) = IF Ten.negative THEN -Val(Ten.mag) ELSE Val(Ten.mag)
          /\ Ten.mag = <<>> <=> Val(Ten.mag) = 0
      BY <2>1, IntSplits
    <2> QED
      BY <2>1, <2>2
  <1>2. /\ d.quotient \in Magnitudes /\ d.rem \in Magnitudes
        /\ Val(m) = Val(d.quotient) * 10 + Val(d.rem)
        /\ Val(d.rem) < 10
    BY <1>1, MagDivides
  <1> HIDE DEF d
  <1>3. Val(d.quotient) \in Nat /\ Val(d.rem) \in Nat /\ Val(m) \in Nat /\ Val(m) # 0
    BY <1>2, Comparison, EmptyVal
  <1> DEFINE q == Val(d.quotient)
             r == Val(d.rem)
             v == Val(m)
  <1>4. q \in Nat /\ r \in Nat /\ v \in Nat /\ v # 0 /\ v = q * 10 + r /\ r < 10
    BY <1>2, <1>3
  <1> HIDE DEF q, r, v
  <1>5. q < v /\ r \in 0..9 /\ v = 10 * q + r
    BY <1>4
  <1> QED
    BY <1>2, <1>5 DEF q, r, v, d

\* The recursive definition of the figures defines them.
LEMMA InFiguresStep ==
    \A m \in Magnitudes :
        InFigures[m] =
            IF m = <<>> THEN <<>>
            ELSE InFigures[DivModMag(m, Ten.mag).quotient]
                     \o <<Figures[ValueOf(Signed(DivModMag(m, Ten.mag).rem, FALSE)) + 1]>>
  <1> DEFINE S == Magnitudes
             Over(m) == DivModMag(m, Ten.mag).quotient
             Final(m) == Figures[ValueOf(Signed(DivModMag(m, Ten.mag).rem, FALSE)) + 1]
             Stop == {<<>>}
             measure == [m \in S |-> Val(m)]
             value == [m \in S |-> <<>>]
             next == [m \in S |-> IF m = <<>> THEN m ELSE Over(m)]
             F == [m \in S |-> [t \in Texts |-> IF m = <<>> THEN t ELSE t \o <<Final(m)>>]]
             Is(f) == f = [m \in S |-> IF m = <<>> THEN <<>> ELSE f[Over(m)] \o <<Final(m)>>]
  <1>1. ASSUME NEW m \in S, m # <<>>
        PROVE  Over(m) \in S /\ Val(Over(m)) < Val(m) /\ Final(m) \in FigureSet
    <2>1. Over(m) \in S /\ Val(Over(m)) < Val(m)
      BY <1>1, TenLowers
    <2>2. DivModMag(m, Ten.mag).rem \in S /\ Val(DivModMag(m, Ten.mag).rem) \in 0..9
      BY <1>1, TenLowers
    <2>3. ValueOf(Signed(DivModMag(m, Ten.mag).rem, FALSE)) \in 0..9
      BY <2>2, SignedType
    <2>4. Final(m) \in FigureSet
      BY <2>3, FiguresAre
    <2> QED
      BY <2>1, <2>4
  <1> HIDE DEF Over, Final
  <1>2. next \in [S -> S]
    BY <1>1
  <1>3. \A m \in S \ Stop : measure[next[m]] < measure[m]
    BY <1>1
  <1>4. F \in [S -> [Texts -> Texts]]
    <2>1. ASSUME NEW m \in S, m # <<>>, NEW t \in Texts PROVE t \o <<Final(m)>> \in Texts
      BY <1>1, <2>1 DEF Texts
    <2> QED
      BY <2>1
  <1>5. Stop \in SUBSET S /\ measure \in [S -> Nat] /\ value \in [S -> Texts]
    <2>1. <<>> \in S /\ \A m \in S : Val(m) \in Nat
      BY EmptyVal, Comparison
    <2>2. <<>> \in Texts
      BY DEF Texts
    <2> QED
      BY <2>1, <2>2
  <1>6. PICK f \in [S -> Texts] : Descends(f, S, Stop, value, next, F)
    <2> HIDE DEF S, Stop, measure, value, next, F
    <2> QED
      BY <1>2, <1>3, <1>4, <1>5, MeasuredRecursion
  <1>7. Is(f)
    <2>1. ASSUME NEW m \in S
          PROVE  f[m] = IF m = <<>> THEN <<>> ELSE f[Over(m)] \o <<Final(m)>>
      <3>1. f[m] = IF m \in Stop THEN value[m] ELSE F[m][f[next[m]]]
        BY <1>6 DEF Descends
      <3>2. CASE m = <<>>
        BY <3>1, <3>2
      <3>3. CASE m # <<>>
        <4>1. next[m] = Over(m) /\ Over(m) \in S
          BY <1>1, <3>3
        <4>2. f[Over(m)] \in Texts
          BY <4>1
        <4>3. F[m][f[Over(m)]] = f[Over(m)] \o <<Final(m)>>
          BY <3>3, <4>2
        <4> QED
          BY <3>1, <3>3, <4>1, <4>3
      <3> QED
        BY <3>2, <3>3
    <2> QED
      BY <1>6, <2>1 DEF Descends
  <1>8. Is(InFigures)
    BY <1>7 DEF InFigures, Over, Final
  <1> QED
    BY <1>8 DEF Over, Final

\* The figures of a magnitude are read as its value.
LEMMA FiguresReadBack ==
    \A m \in Magnitudes :
        /\ InFigures[m] \in Texts /\ Number10(InFigures[m]) = Val(m)
        /\ m # <<>> => InFigures[m] # <<>>
  <1> DEFINE Right(m) == InFigures[m] \in Texts /\ Number10(InFigures[m]) = Val(m)
             S == {k \in Nat : \A m \in Magnitudes : Val(m) <= k => Right(m)}
  <1>1. Right(<<>>)
    <2>1. InFigures[<<>>] = <<>> /\ Val(<<>>) = 0
      BY EmptyVal, InFiguresStep
    <2>2. <<>> \in Texts /\ Len(<<>>) = 0
      BY DEF Texts
    <2>3. ValueOf(Scanned(<<>>)[0]) = 0
      BY <2>2, ScannedRuns
    <2> QED
      BY <2>1, <2>2, <2>3 DEF Number10
  <1>2. ASSUME NEW m \in Magnitudes, m # <<>>,
               \A k \in Magnitudes : Val(k) < Val(m) => Right(k)
        PROVE  Right(m) /\ InFigures[m] # <<>>
    <2> DEFINE d == DivModMag(m, Ten.mag)
               t == InFigures[d.quotient]
               c == Figures[ValueOf(Signed(d.rem, FALSE)) + 1]
    <2>1. /\ d.quotient \in Magnitudes /\ d.rem \in Magnitudes
          /\ Val(d.quotient) < Val(m) /\ Val(d.rem) \in 0..9
          /\ Val(m) = 10 * Val(d.quotient) + Val(d.rem)
      BY <1>2, TenLowers
    <2>2. InFigures[m] = t \o <<c>>
      BY <1>2, InFiguresStep
    <2> HIDE DEF d
    <2>3. Right(d.quotient)
      BY <1>2, <2>1
    <2>4. c \in FigureSet /\ FigureValue[c] = Val(d.rem)
      <3>1. ValueOf(Signed(d.rem, FALSE)) = Val(d.rem)
        BY <2>1, SignedType
      <3> QED
        BY <2>1, <3>1, FiguresAre
    <2>5. t \in Texts /\ Number10(t) = Val(d.quotient)
      BY <2>3
    <2> HIDE DEF t, c
    <2>6. t \o <<c>> \in Texts /\ Number10(t \o <<c>>) = 10 * Number10(t) + FigureValue[c]
      BY <2>4, <2>5, OneMoreFigure
    <2>7. t \o <<c>> # <<>>
      BY <2>4, <2>5 DEF Texts
    <2> QED
      BY <2>1, <2>2, <2>4, <2>5, <2>6, <2>7
  <1> HIDE DEF Right
  <1>3. 0 \in S
    <2> SUFFICES ASSUME NEW m \in Magnitudes, Val(m) <= 0 PROVE Right(m)
      OBVIOUS
    <2>1. Val(m) \in Nat /\ Val(<<>>) = 0 /\ <<>> \in Magnitudes
      BY Comparison, EmptyVal
    <2>2. m = <<>>
      BY <2>1, Comparison
    <2> QED
      BY <1>1, <2>2
  <1>4. ASSUME NEW k \in Nat, k \in S PROVE k + 1 \in S
    <2> SUFFICES ASSUME NEW m \in Magnitudes, Val(m) <= k + 1 PROVE Right(m)
      OBVIOUS
    <2>1. CASE m = <<>>
      BY <1>1, <2>1
    <2>2. CASE m # <<>>
      <3>1. ASSUME NEW j \in Magnitudes, Val(j) < Val(m) PROVE Right(j)
        <4>1. Val(j) \in Nat /\ Val(m) \in Nat
          BY Comparison
        <4>2. Val(j) <= k
          BY <3>1, <4>1
        <4> QED
          BY <1>4, <4>2
      <3> QED
        BY <1>2, <2>2, <3>1
    <2> QED
      BY <2>1, <2>2
  <1>5. \A k \in Nat : k \in S
    <2> HIDE DEF S
    <2> QED
      BY <1>3, <1>4, SetInduction
  <1>6. ASSUME NEW m \in Magnitudes PROVE Right(m)
    <2>1. Val(m) \in Nat /\ Val(m) <= Val(m)
      BY Comparison
    <2> QED
      BY <1>5, <2>1
  <1>7. ASSUME NEW m \in Magnitudes, m # <<>> PROVE InFigures[m] # <<>>
    BY <1>2, <1>6, <1>7
  <1> QED
    BY <1>6, <1>7 DEF Right

\* to_string and from_string, and limbs() and from_limbs: each integer is read
\* back as it was written (serialize.hpp:59-61), in figures and in limbs.
THEOREM TextReadsBack ==
    \A x \in BigInts :
        FromString(InDecimal(x)) = x /\ FromLimbs(x.mag, x.negative) = x
  <1> SUFFICES ASSUME NEW x \in BigInts
               PROVE  FromString(InDecimal(x)) = x /\ FromLimbs(x.mag, x.negative) = x
    OBVIOUS
  <1>1. /\ x.mag \in Magnitudes /\ x.negative \in BOOLEAN
        /\ ValueOf(x) = IF x.negative THEN -Val(x.mag) ELSE Val(x.mag)
        /\ Val(x.mag) \in Nat
        /\ x.mag = <<>> <=> Val(x.mag) = 0
        /\ x = Signed(x.mag, x.negative)
    BY IntSplits
  <1>2. FromLimbs(x.mag, x.negative) = x
    <2>1. Strip(x.mag) \in Magnitudes /\ Val(Strip(x.mag)) = Val(x.mag)
      BY <1>1, WordsAreNaturals, StripKeeps
    <2>2. Strip(x.mag) = x.mag
      BY <1>1, <2>1, Comparison
    <2> QED
      BY <1>1, <2>2 DEF FromLimbs
  <1>3. ASSUME NEW t \in Texts, t # <<>>
        PROVE  /\ FromString(t) = Scanned(t)[Len(t)]
               /\ FromString(<<"-">> \o t) = Negate(Scanned(t)[Len(t)])
    <2>1. t[1] \notin {"-", "+"}
      <3>1. t[1] \in FigureSet
        BY <1>3 DEF Texts
      <3> QED
        BY <3>1 DEF FigureSet
    <2>2. /\ <<"-">> \o t # <<>> /\ (<<"-">> \o t)[1] = "-"
          /\ Tail(<<"-">> \o t) = t
      BY DEF Texts
    <2>3. FromString(t) = Scanned(t)[Len(t)]
      BY <2>1 DEF FromString
    <2>4. FromString(<<"-">> \o t) = Negate(Scanned(t)[Len(t)])
      BY <2>2 DEF FromString
    <2> QED
      BY <2>3, <2>4
  <1>4. CASE x.mag = <<>>
    <2>1. InDecimal(x) = <<"0">>
      BY <1>4 DEF InDecimal
    <2>2. <<"0">> \in Texts /\ <<"0">> # <<>> /\ Len(<<"0">>) = 1 /\ <<"0">>[1] = "0"
      BY DEF Texts, FigureSet
    <2>3. Number10(<<"0">>) = 0
      <3>1. <<>> \in Texts /\ "0" \in FigureSet /\ <<>> \o <<"0">> = <<"0">>
        BY DEF Texts, FigureSet
      <3>2. Number10(<<>> \o <<"0">>) = 10 * Number10(<<>>) + FigureValue["0"]
        BY <3>1, OneMoreFigure
      <3>3. Number10(<<>>) = 0
        <4>1. Len(<<>>) = 0
          OBVIOUS
        <4> QED
          BY <3>1, <4>1, ScannedRuns DEF Number10
      <3>4. FigureValue["0"] = 0
        <4>1. Figures[0 + 1] = "0"
          BY DEF Figures
        <4>2. 0 \in 0..9
          OBVIOUS
        <4> QED
          BY <4>1, <4>2, FiguresAre
      <3> QED
        BY <3>1, <3>2, <3>3, <3>4
    <2>4. Scanned(<<"0">>)[1] \in BigInts
      BY <2>2, ScannedRuns
    <2>5. ValueOf(Scanned(<<"0">>)[1]) = ValueOf(x)
      BY <1>1, <1>4, <2>2, <2>3 DEF Number10
    <2>6. Scanned(<<"0">>)[1] = x
      BY <2>4, <2>5, IntsDiffer
    <2> QED
      BY <1>2, <1>3, <2>1, <2>2, <2>6
  <1>5. CASE x.mag # <<>>
    <2> DEFINE t == InFigures[x.mag]
               s == Scanned(t)[Len(t)]
    <2>1. t \in Texts /\ t # <<>> /\ ValueOf(s) = Val(x.mag)
      BY <1>1, <1>5, FiguresReadBack DEF Number10
    <2>2. s \in BigInts
      <3>1. Len(t) \in Nat
        BY <2>1 DEF Texts
      <3> QED
        BY <2>1, <3>1, ScannedRuns
    <2>3. InDecimal(x) = (IF x.negative THEN <<"-">> ELSE <<>>) \o t
      BY <1>5 DEF InDecimal
    <2> HIDE DEF t
    <2>4. FromString(t) = s /\ FromString(<<"-">> \o t) = Negate(s)
      BY <1>3, <2>1
    <2> HIDE DEF s
    <2>5. CASE x.negative
      <3>1. Negate(s) \in BigInts /\ ValueOf(Negate(s)) = ValueOf(x)
        BY <1>1, <2>1, <2>2, <2>5, Negation
      <3>2. Negate(s) = x
        BY <3>1, IntsDiffer
      <3>3. InDecimal(x) = <<"-">> \o t
        BY <2>3, <2>5
      <3> QED
        BY <1>2, <2>4, <3>2, <3>3
    <2>6. CASE ~x.negative
      <3>1. s = x
        BY <1>1, <2>1, <2>2, <2>6, IntsDiffer
      <3>2. InDecimal(x) = t
        <4>1. <<>> \o t = t
          BY <2>1 DEF Texts
        <4> QED
          BY <2>3, <2>6, <4>1
      <3> QED
        BY <1>2, <2>4, <3>1, <3>2
    <2> QED
      BY <2>5, <2>6
  <1> QED
    BY <1>4, <1>5

-----------------------------------------------------------------------------
(* Reading a text: places and runs of characters *)

\* peek and get, within the text and past its end.
LEMMA PeekIs ==
    ASSUME NEW C, NEW s \in Seq(C), NEW p
    PROVE  /\ p \in 1..Len(s) => Peek(s, p) = s[p]
           /\ p \notin 1..Len(s) => Peek(s, p) = "nul"
  BY DEF Peek

\* Past stands at the first character at or after p that is not in the set.
LEMMA PastIs ==
    ASSUME NEW C, NEW s \in Seq(C), NEW p \in Places, NEW set, "nul" \notin set
    PROVE  /\ Past(s, p, set) \in Places /\ p <= Past(s, p, set)
           /\ Peek(s, Past(s, p, set)) \notin set
           /\ \A i \in p..(Past(s, p, set) - 1) : Peek(s, i) \in set
  <1>1. p \in Nat /\ p >= 1 /\ Len(s) \in Nat
    BY DEF Places
  <1> DEFINE T == {q \in p..(p + Len(s)) : Peek(s, q) \notin set}
  <1>2. p + Len(s) \in T
    BY <1>1, PeekIs
  <1>3. T \in SUBSET Nat
    BY <1>1
  <1>4. PICK q \in T : \A m \in T : ~(m < q)
    BY <1>2, <1>3, LeastNatural
  <1>5. \A i \in p..(q - 1) : Peek(s, i) \in set
    BY <1>1, <1>4
  <1>6. \E x \in p..(p + Len(s)) :
            Peek(s, x) \notin set /\ \A i \in p..(x - 1) : Peek(s, i) \in set
    BY <1>4, <1>5
  <1> QED
    BY <1>1, <1>6 DEF Past, Places

\* There is one such place.
LEMMA PastIsAt ==
    ASSUME NEW C, NEW s \in Seq(C), NEW p \in Places, NEW set, "nul" \notin set,
           NEW q \in Places, p <= q, Peek(s, q) \notin set,
           \A i \in p..(q - 1) : Peek(s, i) \in set
    PROVE  Past(s, p, set) = q
  <1> DEFINE r == Past(s, p, set)
  <1>1. /\ r \in Nat /\ p <= r /\ Peek(s, r) \notin set
        /\ \A i \in p..(r - 1) : Peek(s, i) \in set
    BY PastIs DEF Places
  <1> HIDE DEF r
  <1>2. p \in Nat /\ q \in Nat
    BY DEF Places
  <1>3. ~(r < q)
    BY <1>1, <1>2
  <1>4. ~(q < r)
    BY <1>1, <1>2
  <1> QED
    BY <1>1, <1>2, <1>3, <1>4 DEF r

\* Where skip_ws stops.
LEMMA SkipIs ==
    ASSUME NEW C, NEW s \in Seq(C), NEW p \in Places
    PROVE  /\ Skip(s, p) \in Places /\ p <= Skip(s, p)
           /\ Peek(s, Skip(s, p)) \notin White
           /\ \A i \in p..(Skip(s, p) - 1) : Peek(s, i) \in White
  <1>1. "nul" \notin White
    BY DEF White
  <1> QED
    BY <1>1, PastIs DEF Skip

\* Nothing is skipped where there is nothing white.
LEMMA SkipStays ==
    ASSUME NEW C, NEW s \in Seq(C), NEW p \in Places, Peek(s, p) \notin White
    PROVE  Skip(s, p) = p
  <1>1. "nul" \notin White
    BY DEF White
  <1>2. \A i \in p..(p - 1) : Peek(s, i) \in White
    BY DEF Places
  <1>3. p <= p
    BY DEF Places
  <1> QED
    BY <1>1, <1>2, <1>3, PastIsAt DEF Skip

\* Each escape is undone.
LEMMA EscapesUndone ==
    ASSUME NEW c \in DOMAIN Escape
    PROVE  Unescaped(Escape[c]) = c
  <1> DEFINE D == {"quote", "backslash", "newline", "tab", "return"}
             e == CHOOSE d \in D : Escape[d] = Escape[c]
  <1>1. /\ DOMAIN Escape = D /\ Escape["quote"] = "quote" /\ Escape["backslash"] = "backslash"
        /\ Escape["newline"] = "n" /\ Escape["tab"] = "t" /\ Escape["return"] = "r"
    BY DEF Escape
  <1>2. \A x, y \in D : Escape[x] = Escape[y] => x = y
    BY <1>1
  <1>3. c \in D
    BY <1>1
  <1>4. e \in D /\ Escape[e] = Escape[c]
    BY <1>3
  <1>5. Unescaped(Escape[c]) = e
    <2>1. \E d \in DOMAIN Escape : Escape[d] = Escape[c]
      OBVIOUS
    <2> HIDE DEF D
    <2> QED
      BY <2>1, <1>1 DEF Unescaped
  <1> HIDE DEF e
  <1>6. e = c
    BY <1>2, <1>3, <1>4
  <1> QED
    BY <1>5, <1>6

\* All that reading s can come upon.
Letters(s) == {Peek(s, p) : p \in Places} \union {Unescaped(Peek(s, p)) : p \in Places}

\* What a reader of things of one kind can answer.
Found(C) == {Fails} \union [value : Seq(C), at : Places]

\* What is put before the rest that was read, and when nothing was.
LEMMA BeforeType ==
    ASSUME NEW C, NEW x \in C, NEW r \in Found(C)
    PROVE  /\ Before(x, r) \in Found(C)
           /\ r = Fails => Before(x, r) = Fails
           /\ r # Fails => Before(x, r) = Read(<<x>> \o r.value, r.at)
           /\ Failed(r) <=> r = Fails
           /\ Failed(Before(x, r)) <=> Failed(r)
           /\ Before(x, r).at = r.at
  <1>1. CASE r = Fails
    <2>1. r.at = 0
      BY <1>1 DEF Fails, Read
    <2>2. Before(x, r) = Fails
      BY <2>1 DEF Before, Given, Failed
    <2> QED
      BY <2>1, <2>2, <1>1 DEF Found, Failed
  <1>2. CASE r # Fails
    <2>1. r \in [value : Seq(C), at : Places]
      BY <1>2 DEF Found
    <2>2. r.at # 0 /\ r.at \in Places /\ r.value \in Seq(C)
      BY <2>1 DEF Places
    <2>3. Before(x, r) = Read(<<x>> \o r.value, r.at)
      BY <2>2 DEF Before, Given, Failed
    <2>4. <<x>> \o r.value \in Seq(C)
      BY <2>2
    <2>5. Read(<<x>> \o r.value, r.at) \in Found(C)
      BY <2>2, <2>4 DEF Read, Found
    <2>6. Read(<<x>> \o r.value, r.at).at = r.at
      BY DEF Read
    <2> QED
      BY <1>2, <2>2, <2>3, <2>5, <2>6 DEF Failed
  <1> QED
    BY <1>1, <1>2

\* What is put before the rest does not move the reader.
LEMMA BeforeAt == \A x, r : Before(x, r).at = r.at
  BY DEF Before, Given, Failed, Fails, Read

\* The recursive definition of the body of a string defines it.
LEMMA BodyStep ==
    ASSUME NEW C, NEW s \in Seq(C)
    PROVE  /\ Body(s) \in [Places -> Found(Letters(s))]
           /\ \A p \in Places :
                 Body(s)[p] =
                     CASE Peek(s, p) = "nul" -> Fails
                       [] Peek(s, p) = "quote" -> Read(<<>>, p + 1)
                       [] Peek(s, p) = "backslash" ->
                              Before(Unescaped(Peek(s, p + 1)), Body(s)[p + 2])
                       [] OTHER -> Before(Peek(s, p), Body(s)[p + 1])
  <1> DEFINE S == Places
             A == Found(Letters(s))
             Char(p) == IF Peek(s, p) = "backslash" THEN Unescaped(Peek(s, p + 1)) ELSE Peek(s, p)
             Over(p) == IF Peek(s, p) = "backslash" THEN p + 2 ELSE p + 1
             Stop == {p \in S : Peek(s, p) \in {"nul", "quote"}}
             measure == [p \in S |-> IF p <= Len(s) THEN Len(s) + 1 - p ELSE 0]
             value == [p \in S |-> IF Peek(s, p) = "nul" THEN Fails ELSE Read(<<>>, p + 1)]
             next == [p \in S |-> Over(p)]
             F == [p \in S |-> [r \in A |-> Before(Char(p), r)]]
             Is(f) == f = [p \in S |->
                              CASE Peek(s, p) = "nul" -> Fails
                                [] Peek(s, p) = "quote" -> Read(<<>>, p + 1)
                                [] Peek(s, p) = "backslash" ->
                                       Before(Unescaped(Peek(s, p + 1)), f[p + 2])
                                [] OTHER -> Before(Peek(s, p), f[p + 1])]
  <1>1. \A p \in S : Peek(s, p) \in Letters(s) /\ Unescaped(Peek(s, p)) \in Letters(s)
    BY DEF Letters
  <1>2. ASSUME NEW p \in S
        PROVE  /\ Over(p) \in S /\ p < Over(p) /\ Char(p) \in Letters(s)
               /\ p + 1 \in S /\ p + 2 \in S
    <2>1. p \in Nat /\ p + 1 \in S /\ p + 2 \in S
      BY DEF Places
    <2>2. Char(p) \in Letters(s)
      <3> HIDE DEF S
      <3> QED
        BY <1>1, <2>1
    <2> QED
      BY <2>1, <2>2
  <1>3. next \in [S -> S]
    BY <1>2
  <1>4. \A p \in S \ Stop : measure[next[p]] < measure[p]
    <2> SUFFICES ASSUME NEW p \in S \ Stop PROVE measure[next[p]] < measure[p]
      OBVIOUS
    <2>1. Peek(s, p) # "nul"
      OBVIOUS
    <2>2. p \in Nat /\ Len(s) \in Nat /\ p <= Len(s)
      <3>1. p \in Nat /\ p >= 1 /\ Len(s) \in Nat
        BY DEF Places
      <3>2. p \in 1..Len(s)
        BY <2>1, PeekIs
      <3> QED
        BY <3>1, <3>2
    <2>3. next[p] \in S /\ next[p] \in Nat /\ p < next[p]
      BY <1>2 DEF Places
    <2> HIDE DEF next
    <2> QED
      BY <2>2, <2>3
  <1>5. F \in [S -> [A -> A]]
    <2>1. ASSUME NEW p \in S, NEW r \in A PROVE Before(Char(p), r) \in A
      <3>1. Char(p) \in Letters(s)
        BY <1>2
      <3> HIDE DEF Char, S
      <3> QED
        BY <3>1, BeforeType
    <2> HIDE DEF A, Char
    <2> QED
      BY <2>1
  <1>6. Stop \in SUBSET S /\ measure \in [S -> Nat] /\ value \in [S -> A]
    <2>1. measure \in [S -> Nat]
      BY DEF Places
    <2>2. ASSUME NEW p \in S PROVE Read(<<>>, p + 1) \in A
      <3>1. p + 1 \in Places
        BY <1>2
      <3>2. <<>> \in Seq(Letters(s))
        OBVIOUS
      <3> QED
        BY <3>1, <3>2 DEF Found, Read
    <2>3. Fails \in A
      BY DEF Found
    <2> HIDE DEF A
    <2> QED
      BY <2>1, <2>2, <2>3
  <1>7. PICK f \in [S -> A] : Descends(f, S, Stop, value, next, F)
    <2> HIDE DEF S, A, Stop, measure, value, next, F
    <2> QED
      BY <1>3, <1>4, <1>5, <1>6, MeasuredRecursion
  <1> DEFINE Turn(g, p) == CASE Peek(s, p) = "nul" -> Fails
                             [] Peek(s, p) = "quote" -> Read(<<>>, p + 1)
                             [] Peek(s, p) = "backslash" ->
                                    Before(Unescaped(Peek(s, p + 1)), g[p + 2])
                             [] OTHER -> Before(Peek(s, p), g[p + 1])
  <1>8. ASSUME NEW p \in S PROVE f[p] = Turn(f, p)
    <2>1. f[p] = IF p \in Stop THEN value[p] ELSE F[p][f[next[p]]]
      BY <1>7 DEF Descends
    <2>2. CASE p \in Stop
      <3>1. f[p] = IF Peek(s, p) = "nul" THEN Fails ELSE Read(<<>>, p + 1)
        BY <2>1, <2>2
      <3> QED
        BY <3>1, <2>2
    <2>3. CASE p \notin Stop
      <3>1. next[p] = Over(p) /\ Over(p) \in S
        BY <1>2
      <3>2. f[Over(p)] \in A
        BY <3>1
      <3>3. f[p] = Before(Char(p), f[Over(p)])
        <4> HIDE DEF A, Char, Over, Stop, next
        <4> QED
          BY <2>1, <2>3, <3>1, <3>2
      <3> QED
        BY <3>3, <2>3
    <2> QED
      BY <2>2, <2>3
  <1>9. Is(f)
    <2>1. f = [p \in S |-> f[p]]
      BY <1>7
    <2> HIDE DEF S, Turn
    <2>2. f = [p \in S |-> Turn(f, p)]
      BY <2>1, <1>8
    <2> QED
      BY <2>2 DEF Turn
  <1>10. Is(Body(s))
    <2> HIDE DEF A
    <2> QED
      BY <1>9 DEF Body
  <1>11. \A p \in S : Body(s)[p] = Turn(Body(s), p)
    BY <1>10
  <1>12. \A p \in S : Body(s)[p] \in A
    <2> DEFINE g == Body(s)
    <2>1. ASSUME NEW p \in S, p \notin Stop => g[Over(p)] \in A PROVE g[p] \in A
      <3>1. CASE p \in Stop
        <4>1. g[p] = value[p]
          BY <1>11, <3>1
        <4> QED
          BY <4>1, <1>6
      <3>2. CASE p \notin Stop
        <4>1. g[p] = Before(Char(p), g[Over(p)])
          BY <1>11, <3>2
        <4>2. g[Over(p)] \in A /\ Char(p) \in Letters(s)
          BY <2>1, <3>2, <1>2
        <4> SUFFICES ASSUME NEW x \in Letters(s), NEW r \in A PROVE Before(x, r) \in A
          <5> HIDE DEF A, g, Char, Over
          <5> QED
            BY <4>1, <4>2
        <4> QED
          BY BeforeType
      <3> QED
        BY <3>1, <3>2
    <2> DEFINE M == {p \in S : g[p] \in A}
    <2>2. \A p \in S : next[p] = Over(p) /\ next[p] \in S
      BY <1>2
    <2>3. ASSUME NEW p \in S, \A r \in S : measure[r] < measure[p] => r \in M
          PROVE  p \in M
      <3> HIDE DEF g, measure, S, Stop, Over, A, next
      <3>1. ASSUME p \notin Stop PROVE g[Over(p)] \in A
        BY <1>4, <2>2, <2>3, <3>1
      <3> QED
        BY <2>1, <3>1
    <2>4. \A p \in S : p \in M
      <3> HIDE DEF M, S, measure
      <3> QED
        BY <2>3, <1>6, MeasuredInduction
    <2> QED
      BY <2>4
  <1>13. Body(s) = [p \in S |-> Body(s)[p]]
    BY <1>10
  <1>14. Body(s) \in [S -> A]
    <2> HIDE DEF S, A
    <2> QED
      BY <1>12, <1>13
  <1> QED
    BY <1>11, <1>14

\* A reader, given as a function of the place it starts at, never goes back.
Forward(item) ==
    \A p \in Places : item[p].at \in Nat /\ (item[p].at = 0 \/ p <= item[p].at)

Kinds(item) == {item[p].value : p \in Places}

\* The recursive definition of the items between brackets defines them.
LEMMA ItemsStep ==
    ASSUME NEW C, NEW s \in Seq(C), NEW item, Forward(item), NEW close, close # "comma"
    PROVE  /\ Items(s, item, close) \in [Places -> Found(Kinds(item))]
           /\ \A p \in Places :
                 LET r == item[p]
                     end == Skip(s, r.at)
                 IN Items(s, item, close)[p] =
                        IF Failed(r) THEN Fails
                        ELSE CASE Peek(s, end) = close -> Read(<<r.value>>, end + 1)
                               [] Peek(s, end) = "comma" ->
                                      Before(r.value, Items(s, item, close)[end + 1])
                               [] OTHER -> Fails
  <1> DEFINE S == Places
             A == Found(Kinds(item))
             end(p) == Skip(s, item[p].at)
             goes == {p \in S : /\ ~Failed(item[p])
                                /\ Peek(s, end(p)) # close /\ Peek(s, end(p)) = "comma"}
             Over(p) == IF p \in goes THEN end(p) + 1 ELSE p
             Stop == S \ goes
             measure == [p \in S |-> IF p <= Len(s) THEN Len(s) + 1 - p ELSE 0]
             Final(p) == IF ~Failed(item[p]) /\ Peek(s, end(p)) = close
                        THEN Read(<<item[p].value>>, end(p) + 1) ELSE Fails
             value == [p \in S |-> IF p \in Stop THEN Final(p) ELSE Fails]
             next == [p \in S |-> Over(p)]
             F == [p \in S |-> [r \in A |-> Before(item[p].value, r)]]
             Turn(g, p) ==
                 IF Failed(item[p]) THEN Fails
                 ELSE CASE Peek(s, end(p)) = close ->
                               Read(<<item[p].value>>, end(p) + 1)
                        [] Peek(s, end(p)) = "comma" -> Before(item[p].value, g[end(p) + 1])
                        [] OTHER -> Fails
             Is(f) == f = [p \in S |-> Turn(f, p)]
             items == Items(s, item, close)
  <1>1. ASSUME NEW p \in S
        PROVE  /\ item[p].value \in Kinds(item)
               /\ ~Failed(item[p]) => end(p) \in S /\ p <= end(p) /\ end(p) + 1 \in S
    <2>1. item[p].value \in Kinds(item)
      BY DEF Kinds
    <2>2. ASSUME ~Failed(item[p]) PROVE item[p].at \in S /\ p <= item[p].at
      BY <2>2 DEF Forward, Failed, Places
    <2>3. ASSUME ~Failed(item[p])
          PROVE end(p) \in S /\ item[p].at <= end(p)
      BY <2>2, <2>3, SkipIs
    <2>4. \A x \in S : x + 1 \in S /\ x \in Nat
      BY DEF Places
    <2> HIDE DEF end, S
    <2>5. ASSUME ~Failed(item[p]) PROVE p <= end(p)
      <3> DEFINE x == item[p].at
      <3>1. x \in S /\ p <= x /\ x <= end(p) /\ end(p) \in S
        BY <2>2, <2>3, <2>5
      <3> HIDE DEF x
      <3>2. x \in Nat /\ p \in Nat /\ end(p) \in Nat
        BY <3>1, <2>4
      <3> QED
        BY <3>1, <3>2
    <2> QED
      BY <2>1, <2>3, <2>4, <2>5
  <1>2. ASSUME NEW p \in S
        PROVE  /\ Over(p) \in S
               /\ p \in goes => p < Over(p) /\ end(p) \in 1..Len(s) /\ Over(p) = end(p) + 1
    <2>1. CASE p \in goes
      <3>1. Over(p) = end(p) + 1
        BY <2>1
      <3>2. Peek(s, end(p)) # "nul"
        BY <2>1
      <3>3. end(p) \in 1..Len(s)
        <4> HIDE DEF end
        <4> QED
          BY <3>2, PeekIs
      <3>4. end(p) \in S /\ p <= end(p) /\ end(p) + 1 \in S
        BY <1>1, <2>1
      <3>5. p \in Nat /\ end(p) \in Nat
        BY <3>4 DEF Places
      <3> HIDE DEF end, Over, goes
      <3> QED
        BY <3>1, <3>3, <3>4, <3>5
    <2>2. CASE p \notin goes
      BY <2>2
    <2> QED
      BY <2>1, <2>2
  <1>3. next \in [S -> S]
    <2> HIDE DEF Over
    <2> QED
      BY <1>2
  <1>4. \A p \in S \ Stop : measure[next[p]] < measure[p]
    <2> SUFFICES ASSUME NEW p \in S, p \in goes PROVE measure[next[p]] < measure[p]
      OBVIOUS
    <2>1. p < next[p] /\ end(p) \in 1..Len(s) /\ next[p] = end(p) + 1
      BY <1>2
    <2>2. p \in Nat /\ Len(s) \in Nat /\ next[p] \in S /\ next[p] \in Nat
      <3>1. next[p] \in S
        BY <1>3
      <3> HIDE DEF next, goes
      <3> QED
        BY <3>1 DEF Places
    <2> HIDE DEF next, end, goes
    <2> QED
      BY <2>1, <2>2
  <1>5. \A p \in S, r \in A : Before(item[p].value, r) \in A
    <2> SUFFICES ASSUME NEW x \in Kinds(item), NEW r \in A PROVE Before(x, r) \in A
      BY <1>1
    <2> QED
      BY BeforeType
  <1>6. F \in [S -> [A -> A]]
    <2> HIDE DEF A
    <2> QED
      BY <1>5
  <1>7. ASSUME NEW p \in S PROVE Final(p) \in A
    <2>1. Fails \in A
      BY DEF Found
    <2>2. ASSUME ~Failed(item[p]) PROVE Read(<<item[p].value>>, end(p) + 1) \in A
      <3>1. <<item[p].value>> \in Seq(Kinds(item)) /\ end(p) + 1 \in Places
        BY <1>1, <2>2
      <3> HIDE DEF end
      <3> QED
        BY <3>1 DEF Found, Read
    <2> HIDE DEF A, end
    <2> QED
      BY <2>1, <2>2
  <1>8. Stop \in SUBSET S /\ measure \in [S -> Nat] /\ value \in [S -> A]
    <2>1. measure \in [S -> Nat]
      BY DEF Places
    <2>2. Fails \in A
      BY DEF Found
    <2> HIDE DEF A, Final
    <2> QED
      BY <2>1, <2>2, <1>7
  <1>9. PICK f \in [S -> A] : Descends(f, S, Stop, value, next, F)
    <2> HIDE DEF S, A, Stop, measure, value, next, F
    <2> QED
      BY <1>3, <1>4, <1>6, <1>8, MeasuredRecursion
  <1>10. ASSUME NEW g, NEW p \in S
         PROVE  /\ p \in goes => Turn(g, p) = Before(item[p].value, g[Over(p)])
                /\ p \notin goes => Turn(g, p) = Final(p)
    <2>1. CASE p \in goes
      <3>1. Turn(g, p) = Before(item[p].value, g[end(p) + 1])
        <4> HIDE DEF end
        <4> QED
          BY <2>1 DEF Failed
      <3> QED
        BY <3>1, <2>1
    <2>2. CASE p \notin goes
      <3> HIDE DEF end
      <3>1. CASE Failed(item[p])
        BY <3>1
      <3>2. CASE ~Failed(item[p]) /\ Peek(s, end(p)) = close
        BY <3>2 DEF Failed
      <3>3. CASE ~Failed(item[p]) /\ Peek(s, end(p)) # close
        <4>1. Peek(s, end(p)) # "comma"
          BY <2>2, <3>3
        <4> QED
          BY <3>3, <4>1 DEF Failed
      <3> QED
        BY <3>1, <3>2, <3>3
    <2> QED
      BY <2>1, <2>2
  <1>11. ASSUME NEW p \in S PROVE f[p] = Turn(f, p)
    <2>1. f[p] = IF p \in Stop THEN value[p] ELSE F[p][f[next[p]]]
      BY <1>9 DEF Descends
    <2>2. CASE p \notin goes
      <3>1. f[p] = Final(p)
        <4> HIDE DEF Final
        <4> QED
          BY <2>1, <2>2
      <3> HIDE DEF Turn, Final, goes
      <3> QED
        BY <3>1, <2>2, <1>10
    <2>3. CASE p \in goes
      <3>1. next[p] = Over(p) /\ Over(p) \in S /\ p \notin Stop
        BY <1>2, <2>3
      <3>2. f[Over(p)] \in A
        BY <3>1
      <3> HIDE DEF A, Over, Stop, next, Turn, goes
      <3>3. f[p] = Before(item[p].value, f[Over(p)])
        BY <2>1, <3>1, <3>2
      <3> QED
        BY <3>3, <2>3, <1>10
    <2> QED
      BY <2>2, <2>3
  <1>12. Is(f)
    <2>1. f = [p \in S |-> f[p]]
      BY <1>9
    <2> HIDE DEF S, Turn
    <2> QED
      BY <2>1, <1>11
  <1>13. Is(items)
    <2> HIDE DEF A, S
    <2> QED
      BY <1>12 DEF Items, S
  <1>14. /\ items = [p \in S |-> items[p]]
         /\ \A p \in S : items[p] = Turn(items, p)
    <2> HIDE DEF Turn, items
    <2> QED
      BY <1>13
  <1> DEFINE M == {p \in S : items[p] \in A}
  <1>15. ASSUME NEW p \in S, \A r \in S : measure[r] < measure[p] => r \in M
         PROVE  p \in M
    <2>1. \A q \in S : next[q] = Over(q) /\ next[q] \in S
      BY <1>2
    <2> HIDE DEF measure, S, goes, Over, A, next, Turn, Final, items
    <2>2. CASE p \in goes
      <3>1. items[Over(p)] \in A
        BY <1>4, <1>15, <2>1, <2>2
      <3> QED
        BY <3>1, <2>2, <1>5, <1>10, <1>14
    <2>3. CASE p \notin goes
      BY <2>3, <1>7, <1>10, <1>14
    <2> QED
      BY <2>2, <2>3
  <1>16. \A p \in S : p \in M
    <2> HIDE DEF M, S, measure
    <2> QED
      BY <1>15, <1>8, MeasuredInduction
  <1>17. items \in [S -> A]
    <2> HIDE DEF S, A, items
    <2> QED
      BY <1>14, <1>16
  <1> QED
    BY <1>14, <1>17

\* What parse_value calls itself with, when it reads n brackets deep.
Inner(s, n) == IF n = 0 THEN [q \in Places |-> Fails] ELSE Values(s)[n - 1]

\* The recursive definition of the values read defines them.
LEMMA ValuesStep ==
    ASSUME NEW s, NEW n \in Nat
    PROVE  Values(s)[n] = [p \in Places |-> ParseValue(s, Inner(s, n), p)]
  <1> DEFINE none == [q \in Places |-> Fails]
             Turn(x) == [p \in Places |-> ParseValue(s, x, p)]
             Good(h, m) == \A k \in 0..m : h[k] = Turn(IF k = 0 THEN none ELSE h[k - 1])
             T == {m \in Nat : \E h : Good(h, m)}
             Is(g) == g = [m \in Nat |-> Turn(IF m = 0 THEN none ELSE g[m - 1])]
  <1>1. 0 \in T
    <2> HIDE DEF Turn, none
    <2>1. Good([k \in 0..0 |-> Turn(none)], 0)
      OBVIOUS
    <2> QED
      BY <2>1
  <1>2. ASSUME NEW m \in Nat, m \in T PROVE m + 1 \in T
    <2>1. PICK h : Good(h, m)
      BY <1>2
    <2> DEFINE j == [k \in 0..(m + 1) |-> IF k = m + 1 THEN Turn(h[m]) ELSE h[k]]
    <2> HIDE DEF Turn, none
    <2>2. ASSUME NEW k \in 0..(m + 1)
          PROVE  j[k] = Turn(IF k = 0 THEN none ELSE j[k - 1])
      <3>1. CASE k = m + 1
        <4>1. k # 0 /\ k - 1 = m /\ m \in 0..(m + 1) /\ m # m + 1
          BY <3>1
        <4>2. j[k] = Turn(h[m]) /\ j[m] = h[m]
          BY <3>1, <4>1
        <4> QED
          BY <4>1, <4>2
      <3>2. CASE k # m + 1
        <4>1. k \in 0..m /\ (k # 0 => k - 1 \in 0..m)
          BY <3>2
        <4>2. h[k] = Turn(IF k = 0 THEN none ELSE h[k - 1])
          BY <4>1, <2>1
        <4>3. j[k] = h[k] /\ (k # 0 => j[k - 1] = h[k - 1])
          BY <4>1, <3>2
        <4> QED
          BY <4>2, <4>3
      <3> QED
        BY <3>1, <3>2
    <2>3. Good(j, m + 1)
      <3> HIDE DEF j
      <3> QED
        BY <2>2
    <2> HIDE DEF Good, j
    <2> QED
      BY <2>3
  <1>3. \A m \in Nat : m \in T
    <2> HIDE DEF T
    <2> QED
      BY <1>1, <1>2, SetInduction
  <1> DEFINE H(m) == CHOOSE h : Good(h, m)
  <1>4. \A m \in Nat : Good(H(m), m)
    <2> HIDE DEF Good
    <2> QED
      BY <1>3
  <1> HIDE DEF H
  <1>5. ASSUME NEW m \in Nat PROVE H(m + 1)[m] = H(m)[m]
    <2> DEFINE U == {k \in Nat : H(m + 1)[k] = H(m)[k]}
    <2>1. ASSUME NEW k \in 0..m
          PROVE  /\ H(m)[k] = Turn(IF k = 0 THEN none ELSE H(m)[k - 1])
                 /\ H(m + 1)[k] = Turn(IF k = 0 THEN none ELSE H(m + 1)[k - 1])
      <3> HIDE DEF Turn, none
      <3>1. k \in 0..(m + 1) /\ m + 1 \in Nat
        OBVIOUS
      <3> QED
        BY <1>4, <3>1
    <2> HIDE DEF Turn, none
    <2>2. 0 \in U
      BY <2>1
    <2>3. ASSUME NEW k \in Nat, k < m, k \in U PROVE k + 1 \in U
      <3>1. k + 1 \in 0..m /\ k + 1 # 0 /\ (k + 1) - 1 = k
        BY <2>3
      <3> QED
        BY <2>1, <2>3, <3>1
    <2>4. \A k \in 0..m : k \in U
      <3> HIDE DEF U
      <3> QED
        BY <2>2, <2>3, BoundedInduction
    <2> QED
      BY <2>4
  <1> DEFINE g == [m \in Nat |-> H(m)[m]]
  <1>6. ASSUME NEW m \in Nat PROVE g[m] = Turn(IF m = 0 THEN none ELSE g[m - 1])
    <2> HIDE DEF Turn, none
    <2>1. H(m)[m] = Turn(IF m = 0 THEN none ELSE H(m)[m - 1])
      BY <1>4
    <2>2. m # 0 => m - 1 \in Nat /\ (m - 1) + 1 = m
      OBVIOUS
    <2>3. m # 0 => H(m)[m - 1] = g[m - 1]
      BY <2>2, <1>5
    <2> QED
      BY <2>1, <2>3
  <1>7. Is(g)
    <2>1. g = [m \in Nat |-> g[m]]
      OBVIOUS
    <2> HIDE DEF Turn, none, g
    <2> QED
      BY <2>1, <1>6
  <1>8. Is(Values(s))
    <2> HIDE DEF g
    <2> QED
      BY <1>7 DEF Values
  <1> QED
    <2> HIDE DEF Turn
    <2>1. Values(s)[n] = Turn(IF n = 0 THEN none ELSE Values(s)[n - 1])
      BY <1>8
    <2> QED
      BY <2>1 DEF Turn, Inner

-----------------------------------------------------------------------------
(* Where readers stop *)

\* A set that has each place whenever it has, if that place is in the text,
\* all places after it.
LEMMA AheadInduction ==
    ASSUME NEW L \in Nat, NEW M,
           \A p \in Places : (p <= L => \A q \in Places : p < q => q \in M) => p \in M
    PROVE  \A p \in Places : p \in M
  <1> DEFINE measure == [p \in Places |-> IF p <= L THEN L + 1 - p ELSE 0]
  <1>1. measure \in [Places -> Nat]
    BY DEF Places
  <1>2. ASSUME NEW p \in Places, NEW q \in Places, p <= L, p < q
        PROVE  measure[q] < measure[p]
    BY <1>2 DEF Places
  <1> HIDE DEF measure
  <1>3. ASSUME NEW p \in Places,
               \A q \in Places : measure[q] < measure[p] => q \in M
        PROVE  p \in M
    BY <1>2, <1>3
  <1> QED
    BY <1>1, <1>3, MeasuredInduction

\* r was read from p on, and its last character is one of the text.
Ends(s, p, r) ==
    r.at \in Nat /\ (r.at = 0 \/ (p < r.at /\ r.at - 1 \in 1..Len(s)))

\* A character that is not the end stands within the text.
LEMMA NotNul ==
    ASSUME NEW C, NEW s \in Seq(C), NEW p \in Places, Peek(s, p) # "nul"
    PROVE  p <= Len(s) /\ p \in 1..Len(s) /\ p \in Nat
  <1>1. p \in 1..Len(s)
    BY PeekIs
  <1> QED
    BY <1>1

\* Places go on.
LEMMA NextPlace ==
    ASSUME NEW p \in Places
    PROVE  /\ p \in Nat /\ p >= 1 /\ p + 1 \in Places /\ p + 2 \in Places
           /\ p < p + 1 /\ p < p + 2 /\ p <= p + 1
  BY DEF Places

\* A string that is read ends within the text, after its start.
LEMMA BodyEnds ==
    ASSUME NEW C, NEW s \in Seq(C)
    PROVE  \A p \in Places : Ends(s, p, Body(s)[p])
  <1> DEFINE M == {p \in Places : Ends(s, p, Body(s)[p])}
  <1>1. ASSUME NEW p \in Places,
               p <= Len(s) => \A q \in Places : p < q => q \in M
        PROVE  p \in M
    <2>1. p \in Nat /\ p + 1 \in Places /\ p + 2 \in Places
      BY NextPlace
    <2>2. ASSUME NEW x \in Letters(s), NEW q \in Places, p < q, Peek(s, p) # "nul",
                 Body(s)[p] = Before(x, Body(s)[q])
          PROVE  p \in M
      <3>1. p \in 1..Len(s) /\ p <= Len(s)
        BY <2>2, NotNul
      <3>2. Ends(s, q, Body(s)[q])
        BY <3>1, <1>1, <2>2
      <3>4. Body(s)[p].at = Body(s)[q].at
        BY <2>2, BeforeAt
      <3>5. q \in Nat
        BY DEF Places
      <3> DEFINE a == Body(s)[p].at
                 b == Body(s)[q].at
      <3>6. b \in Nat /\ (b = 0 \/ (q < b /\ b - 1 \in 1..Len(s))) /\ a = b
        BY <3>2, <3>4 DEF Ends
      <3> HIDE DEF a, b
      <3>7. a \in Nat /\ (a = 0 \/ (p < a /\ a - 1 \in 1..Len(s)))
        BY <3>6, <3>5, <2>1, <2>2
      <3> QED
        BY <3>7 DEF Ends, a
    <2>3. \A q \in Places :
              Peek(s, q) \in Letters(s) /\ Unescaped(Peek(s, q)) \in Letters(s)
      BY DEF Letters
    <2>4. CASE Peek(s, p) = "nul"
      <3>1. Body(s)[p] = Fails
        BY <2>4, BodyStep
      <3> QED
        BY <3>1 DEF Ends, Fails, Read
    <2>5. CASE Peek(s, p) = "quote"
      <3>1. Body(s)[p] = Read(<<>>, p + 1)
        BY <2>5, BodyStep
      <3>2. p \in 1..Len(s)
        BY <2>5, NotNul
      <3>3. Body(s)[p].at = p + 1
        BY <3>1 DEF Read
      <3> QED
        BY <3>2, <3>3, <2>1 DEF Ends
    <2>6. CASE Peek(s, p) = "backslash"
      <3>1. Body(s)[p] = Before(Unescaped(Peek(s, p + 1)), Body(s)[p + 2])
        BY <2>6, BodyStep
      <3>2. p < p + 2
        BY <2>1
      <3> QED
        BY <3>1, <3>2, <2>1, <2>2, <2>3, <2>6
    <2>7. CASE Peek(s, p) \notin {"nul", "quote", "backslash"}
      <3>1. Body(s)[p] = Before(Peek(s, p), Body(s)[p + 1])
        BY <2>7, BodyStep
      <3>2. p < p + 1
        BY <2>1
      <3> QED
        BY <3>1, <3>2, <2>1, <2>2, <2>3, <2>7
    <2> QED
      BY <2>4, <2>5, <2>6, <2>7
  <1>2. \A p \in Places : p \in M
    <2> HIDE DEF M
    <2> QED
      BY <1>1, AheadInduction
  <1> QED
    BY <1>2

\* So does a list of what is read within it.
LEMMA ItemsEnd ==
    ASSUME NEW C, NEW s \in Seq(C), NEW item, Forward(item),
           NEW close, close \notin {"comma", "nul"}
    PROVE  \A p \in Places : Ends(s, p, Items(s, item, close)[p])
  <1> DEFINE items == Items(s, item, close)
             M == {p \in Places : Ends(s, p, items[p])}
  <1>1. ASSUME NEW p \in Places,
               p <= Len(s) => \A q \in Places : p < q => q \in M
        PROVE  p \in M
    <2> DEFINE r == item[p]
               end == Skip(s, r.at)
    <2>1. items[p] = IF Failed(r) THEN Fails
                     ELSE CASE Peek(s, end) = close -> Read(<<r.value>>, end + 1)
                            [] Peek(s, end) = "comma" -> Before(r.value, items[end + 1])
                            [] OTHER -> Fails
      BY ItemsStep
    <2>2. ASSUME items[p] = Fails PROVE p \in M
      BY <2>2 DEF Ends, Fails, Read
    <2>3. ASSUME ~Failed(r), Peek(s, end) # "nul"
          PROVE  end \in Places /\ end + 1 \in Places /\ p <= end /\ end \in 1..Len(s)
      <3>1. r.at \in Places /\ p <= r.at
        BY <2>3 DEF Forward, Failed, Places
      <3>2. end \in Places /\ r.at <= end
        BY <3>1, SkipIs
      <3>3. end \in 1..Len(s)
        <4> HIDE DEF end
        <4> QED
          BY <3>2, <2>3, NotNul
      <3> HIDE DEF end, r
      <3> QED
        BY <3>1, <3>2, <3>3 DEF Places
    <2> HIDE DEF items, r, end
    <2>4. CASE Failed(r)
      BY <2>1, <2>2, <2>4
    <2>5. CASE ~Failed(r) /\ Peek(s, end) = close
      <3>1. items[p] = Read(<<r.value>>, end + 1)
        BY <2>1, <2>5
      <3>2. end \in Places /\ p <= end /\ end \in 1..Len(s)
        BY <2>3, <2>5
      <3>3. items[p].at = end + 1
        BY <3>1 DEF Read
      <3>4. p \in Nat
        BY DEF Places
      <3> QED
        BY <3>2, <3>3, <3>4 DEF Ends
    <2>6. CASE ~Failed(r) /\ Peek(s, end) = "comma"
      <3>1. items[p] = Before(r.value, items[end + 1])
        BY <2>1, <2>6
      <3>2. end \in Places /\ end + 1 \in Places /\ p <= end /\ end \in 1..Len(s)
        BY <2>3, <2>6
      <3>3. p \in Nat /\ p <= Len(s) /\ p < end + 1
        <4>1. p \in Nat /\ end \in Nat /\ Len(s) \in Nat /\ p <= end /\ end <= Len(s)
          BY <3>2 DEF Places
        <4> QED
          BY <4>1
      <3>4. Ends(s, end + 1, items[end + 1])
        BY <1>1, <3>2, <3>3
      <3>5. items[end + 1] \in Found(Kinds(item)) /\ r.value \in Kinds(item)
        BY <3>2, ItemsStep DEF items, r, Kinds
      <3>6. items[p].at = items[end + 1].at
        BY <3>1, BeforeAt
      <3> DEFINE a == items[p].at
                 b == items[end + 1].at
      <3>7. b \in Nat /\ (b = 0 \/ (end + 1 < b /\ b - 1 \in 1..Len(s))) /\ a = b
        BY <3>4, <3>6 DEF Ends
      <3> HIDE DEF a, b
      <3>8. end \in Nat
        BY <3>2
      <3>9. a \in Nat /\ (a = 0 \/ (p < a /\ a - 1 \in 1..Len(s)))
        BY <3>3, <3>7, <3>8
      <3> QED
        BY <3>9 DEF Ends, a
    <2>7. CASE ~Failed(r) /\ Peek(s, end) \notin {close, "comma"}
      BY <2>1, <2>2, <2>7
    <2> QED
      BY <2>4, <2>5, <2>6, <2>7
  <1>2. \A p \in Places : p \in M
    <2> HIDE DEF M
    <2> QED
      BY <1>1, AheadInduction
  <1> QED
    BY <1>2

\* The end of a text is no figure.
LEMMA NulIsNoFigure == "nul" \notin DOMAIN FigureValue
  BY FiguresAre DEF FigureSet

\* An integer is read from where it is on, though there may be nothing of it.
LEMMA ParseIntForward ==
    ASSUME NEW C, NEW s \in Seq(C), NEW p \in Places
    PROVE  ParseInt(s, p).at \in Nat /\ p <= ParseInt(s, p).at
  <1> DEFINE start == IF Peek(s, p) = "-" THEN p + 1 ELSE p
             end == Past(s, start, DOMAIN FigureValue)
  <1>1. ParseInt(s, p).at = end
    BY DEF ParseInt, Read
  <1>2. start \in Places /\ p <= start /\ p \in Nat
    BY DEF Places
  <1> HIDE DEF start
  <1>3. end \in Places /\ start <= end
    BY <1>2, NulIsNoFigure, PastIs
  <1> HIDE DEF end
  <1>4. p <= end /\ end \in Nat
    BY <1>2, <1>3 DEF Places
  <1> QED
    BY <1>1, <1>4

\* What a part is made into does not move the reader.
LEMMA GivenAt == \A r, v : Given(r, v).at = r.at
  BY DEF Given, Failed, Fails, Read

\* parse_string ends within the text if it does not throw.
LEMMA ParseStringEnds ==
    ASSUME NEW C, NEW s \in Seq(C), NEW p \in Places
    PROVE  Ends(s, p, ParseString(s, p))
  <1>1. CASE Peek(s, p) = "quote"
    <2>1. ParseString(s, p) = Body(s)[p + 1]
      BY <1>1 DEF ParseString
    <2>2. p + 1 \in Places /\ p \in Nat
      BY NextPlace
    <2> DEFINE r == Body(s)[p + 1]
    <2>3. Ends(s, p + 1, r)
      BY <2>2, BodyEnds
    <2> HIDE DEF r
    <2>4. Ends(s, p, r)
      BY <2>2, <2>3 DEF Ends
    <2> QED
      BY <2>1, <2>4 DEF r
  <1>2. CASE Peek(s, p) # "quote"
    BY <1>2 DEF ParseString, Ends, Fails, Read
  <1> QED
    BY <1>1, <1>2

\* The readers of the members of an object, for a reader of values.
MembersOf(s, inner) == [q \in Places |-> Member(s, inner, q)]

\* A member of an object ends no earlier than it starts.
LEMMA MemberForward ==
    ASSUME NEW C, NEW s \in Seq(C), NEW inner, Forward(inner)
    PROVE  Forward(MembersOf(s, inner))
  <1> SUFFICES ASSUME NEW p \in Places
               PROVE  /\ Member(s, inner, p).at \in Nat
                      /\ Member(s, inner, p).at = 0 \/ p <= Member(s, inner, p).at
    BY DEF Forward, MembersOf
  <1> DEFINE start == Skip(s, p)
             key == ParseString(s, start)
             colon == Skip(s, key.at)
             val == inner[colon + 1]
             none == key.at = 0 \/ Peek(s, colon) # ":"
  <1>1. Member(s, inner, p) =
            IF none THEN Fails ELSE Given(val, <<key.value, val.value>>)
    BY DEF Member, Failed
  <1>2. start \in Places /\ p <= start
    BY SkipIs
  <1> HIDE DEF start
  <1>3. key.at \in Nat /\ (key.at = 0 \/ start < key.at)
    BY <1>2, ParseStringEnds DEF Ends
  <1> HIDE DEF key
  <1>4. CASE none
    BY <1>1, <1>4 DEF Fails, Read
  <1>5. CASE ~none
    <2>1. key.at \in Places
      BY <1>3, <1>5 DEF Places
    <2>2. colon \in Places /\ key.at <= colon
      BY <2>1, SkipIs
    <2> HIDE DEF colon
    <2>3. colon + 1 \in Places
      BY <2>2 DEF Places
    <2>4. val.at \in Nat /\ (val.at = 0 \/ colon + 1 <= val.at)
      BY <2>3 DEF Forward
    <2>5. Member(s, inner, p).at = val.at
      BY <1>1, <1>5, GivenAt
    <2> DEFINE a == val.at
               b == key.at
    <2>6. a \in Nat /\ (a = 0 \/ colon + 1 <= a) /\ b <= colon /\ start < b /\ b \in Nat
      BY <2>1, <2>2, <2>4, <1>3, <1>5
    <2> HIDE DEF a, b
    <2>7. a = 0 \/ p <= a
      BY <2>2, <2>6, <1>2 DEF Places
    <2> QED
      BY <2>5, <2>6, <2>7 DEF a
  <1> QED
    BY <1>4, <1>5

\* What is in brackets ends within the text.
LEMMA EnclosedEnds ==
    ASSUME NEW C, NEW s \in Seq(C), NEW item, Forward(item), NEW p \in Places,
           NEW close, close \notin {"comma", "nul"}
    PROVE  Ends(s, p, Enclosed(s, p, item, close))
  <1> DEFINE q == Skip(s, p + 1)
             r == Enclosed(s, p, item, close)
  <1>1. p + 1 \in Places /\ p \in Nat
    BY NextPlace
  <1>2. q \in Places /\ p + 1 <= q
    BY <1>1, SkipIs
  <1>3. r = IF Peek(s, q) = close THEN Read(<<>>, q + 1) ELSE Items(s, item, close)[q]
    BY DEF Enclosed
  <1> HIDE DEF q, r
  <1>4. CASE Peek(s, q) = close
    <2>1. q \in 1..Len(s) /\ q \in Nat
      BY <1>2, <1>4, NotNul
    <2>2. r.at = q + 1
      BY <1>3, <1>4 DEF Read
    <2> QED
      BY <1>1, <1>2, <2>1, <2>2 DEF Ends, r
  <1>5. CASE Peek(s, q) # close
    <2>1. Ends(s, q, r)
      BY <1>2, <1>3, <1>5, ItemsEnd
    <2>2. q \in Nat
      BY <1>2 DEF Places
    <2> DEFINE a == r.at
    <2>3. a \in Nat /\ (a = 0 \/ (q < a /\ a - 1 \in 1..Len(s)))
      BY <2>1 DEF Ends
    <2> HIDE DEF a
    <2>4. a \in Nat /\ (a = 0 \/ (p < a /\ a - 1 \in 1..Len(s)))
      BY <1>1, <1>2, <2>2, <2>3
    <2> QED
      BY <2>4 DEF Ends, a, r
  <1> QED
    BY <1>4, <1>5

\* What parse_value reads, by the character it finds.
LEMMA ParseValueIs ==
    ASSUME NEW s, NEW inner, NEW start
    PROVE  LET p == Skip(s, start)
               c == Peek(s, p)
               r == ParseValue(s, inner, start)
               members == Enclosed(s, p, MembersOf(s, inner), "closebrace")
               elements == Enclosed(s, p, inner, "]")
               string == ParseString(s, p)
           IN /\ c = "openbrace" => r = Given(members, Obj(Emplaced(members.value)))
              /\ c = "[" => r = Given(elements, Arr(elements.value))
              /\ c = "quote" => r = Given(string, Str(string.value))
              /\ c = "t" => r = Read(Bool(TRUE), p + 4)
              /\ c = "f" => r = Read(Bool(FALSE), p + 5)
              /\ c = "n" => r = Read(Null, p + 4)
              /\ c \notin {"openbrace", "[", "quote", "t", "f", "n"} => r = ParseInt(s, p)
  BY DEF ParseValue, MembersOf

\* parse_value at a brace.
LEMMA ParseObjectIs ==
    ASSUME NEW s, NEW inner, NEW start, Peek(s, Skip(s, start)) = "openbrace"
    PROVE  ParseValue(s, inner, start) =
               Given(Enclosed(s, Skip(s, start), MembersOf(s, inner), "closebrace"),
                     Obj(Emplaced(Enclosed(s, Skip(s, start), MembersOf(s, inner),
                                           "closebrace").value)))
  BY DEF ParseValue, MembersOf

\* parse_value never moves the reader back.
LEMMA ParseValueForward ==
    ASSUME NEW C, NEW s \in Seq(C), NEW inner, Forward(inner)
    PROVE  Forward([p \in Places |-> ParseValue(s, inner, p)])
  <1> SUFFICES ASSUME NEW start \in Places
               PROVE  /\ ParseValue(s, inner, start).at \in Nat
                      /\ \/ ParseValue(s, inner, start).at = 0
                         \/ start <= ParseValue(s, inner, start).at
    BY DEF Forward
  <1> DEFINE p == Skip(s, start)
             c == Peek(s, p)
             r == ParseValue(s, inner, start)
             a == r.at
             members == Enclosed(s, p, MembersOf(s, inner), "closebrace")
             elements == Enclosed(s, p, inner, "]")
             string == ParseString(s, p)
  <1>1. p \in Places /\ start <= p /\ start \in Nat
    BY SkipIs DEF Places
  <1>2. /\ c = "openbrace" => r = Given(members, Obj(Emplaced(members.value)))
        /\ c = "[" => r = Given(elements, Arr(elements.value))
        /\ c = "quote" => r = Given(string, Str(string.value))
        /\ c = "t" => r = Read(Bool(TRUE), p + 4)
        /\ c = "f" => r = Read(Bool(FALSE), p + 5)
        /\ c = "n" => r = Read(Null, p + 4)
        /\ c \notin {"openbrace", "[", "quote", "t", "f", "n"} => r = ParseInt(s, p)
    BY ParseValueIs
  <1> HIDE DEF p
  <1>3. Ends(s, p, members)
    <2>1. Forward(MembersOf(s, inner))
      BY MemberForward
    <2> QED
      BY <1>1, <2>1, EnclosedEnds
  <1>4. Ends(s, p, elements) /\ Ends(s, p, string)
    BY <1>1, EnclosedEnds, ParseStringEnds
  <1>5. ParseInt(s, p).at \in Nat /\ p <= ParseInt(s, p).at
    BY <1>1, ParseIntForward
  <1> HIDE DEF c, r, members, elements, string
  <1>6. ASSUME NEW x, NEW v, Ends(s, p, x), r = Given(x, v)
        PROVE  a \in Nat /\ (a = 0 \/ p < a)
    <2>1. a = x.at
      BY <1>6, GivenAt
    <2> QED
      BY <1>6, <2>1 DEF Ends
  <1>7. p \in Nat /\ p >= 1
    BY <1>1 DEF Places
  <1>8. a \in Nat /\ (a = 0 \/ p <= a)
    <2>1. CASE c \in {"openbrace", "[", "quote"}
      <3>1. \E x, v : Ends(s, p, x) /\ r = Given(x, v)
        BY <1>2, <1>3, <1>4, <2>1
      <3>4. a \in Nat /\ (a = 0 \/ p < a)
        BY <3>1, <1>6
      <3> HIDE DEF a
      <3> QED
        BY <3>4, <1>7
    <2>2. CASE c \in {"t", "f", "n"}
      <3>1. \E v : r = Read(v, p + 4) \/ r = Read(v, p + 5)
        BY <1>2, <2>2
      <3>2. a = p + 4 \/ a = p + 5
        BY <3>1 DEF Read
      <3> HIDE DEF a
      <3> QED
        BY <3>2, <1>7
    <2>3. CASE c \notin {"openbrace", "[", "quote", "t", "f", "n"}
      <3>1. a = ParseInt(s, p).at
        BY <1>2, <2>3
      <3> HIDE DEF a
      <3> QED
        BY <3>1, <1>5
    <2> HIDE DEF a
    <2> QED
      BY <2>1, <2>2, <2>3
  <1> HIDE DEF a
  <1>9. a = 0 \/ start <= a
    BY <1>1, <1>7, <1>8
  <1> QED
    BY <1>8, <1>9 DEF a, r

\* Nor does it for values within values, however deep.
LEMMA InnerForward ==
    ASSUME NEW C, NEW s \in Seq(C)
    PROVE  \A n \in Nat : Forward(Inner(s, n)) /\ Forward(Values(s)[n])
  <1> DEFINE M == {n \in Nat : Forward(Inner(s, n))}
  <1>1. 0 \in M
    BY DEF Inner, Forward, Fails, Read
  <1>2. ASSUME NEW n \in Nat, Forward(Inner(s, n)) PROVE Forward(Values(s)[n])
    <2> DEFINE f == Inner(s, n)
    <2>1. Values(s)[n] = [p \in Places |-> ParseValue(s, f, p)]
      BY ValuesStep
    <2>2. Forward(f)
      BY <1>2
    <2> HIDE DEF f
    <2>3. Forward([p \in Places |-> ParseValue(s, f, p)])
      BY <2>2, ParseValueForward
    <2> QED
      BY <2>1, <2>3
  <1>3. ASSUME NEW n \in Nat, n \in M PROVE n + 1 \in M
    <2>1. Inner(s, n + 1) = Values(s)[n]
      BY DEF Inner
    <2> QED
      BY <1>2, <1>3, <2>1
  <1>4. \A n \in Nat : n \in M
    <2> HIDE DEF M
    <2> QED
      BY <1>1, <1>3, SetInduction
  <1> QED
    BY <1>2, <1>4

-----------------------------------------------------------------------------
(* A text and its beginnings *)

\* t is a text that s goes on from.
Begins(t, s) == Len(t) <= Len(s) /\ \A i \in 1..Len(t) : t[i] = s[i]

\* The characters of a beginning are those of the text.
LEMMA PeekSame ==
    ASSUME NEW C, NEW s \in Seq(C), NEW t \in Seq(C), Begins(t, s),
           NEW p \in Places, p <= Len(t)
    PROVE  Peek(s, p) = Peek(t, p)
  <1>1. p \in 1..Len(t) /\ p \in 1..Len(s)
    <2>1. p \in Nat /\ p >= 1 /\ Len(t) \in Nat /\ Len(s) \in Nat /\ Len(t) <= Len(s)
      BY DEF Places, Begins
    <2> QED
      BY <2>1
  <1>2. t[p] = s[p]
    BY <1>1 DEF Begins
  <1> QED
    BY <1>1, <1>2, PeekIs

\* A run that is over within t ends at the same place in s.
LEMMA PastSame ==
    ASSUME NEW C, NEW s \in Seq(C), NEW t \in Seq(C), Begins(t, s),
           NEW p \in Places, NEW set, "nul" \notin set, Past(t, p, set) <= Len(t)
    PROVE  Past(s, p, set) = Past(t, p, set)
  <1> DEFINE q == Past(t, p, set)
  <1>1. /\ q \in Places /\ p <= q /\ Peek(t, q) \notin set
        /\ \A i \in p..(q - 1) : Peek(t, i) \in set
    BY PastIs
  <1>2. q <= Len(t)
    OBVIOUS
  <1> HIDE DEF q
  <1>3. Peek(s, q) \notin set
    BY <1>1, <1>2, PeekSame
  <1>4. ASSUME NEW i \in p..(q - 1) PROVE Peek(s, i) \in set
    <2>1. i \in Places /\ i <= Len(t)
      BY <1>1, <1>2 DEF Places
    <2>2. Peek(s, i) = Peek(t, i)
      BY <2>1, PeekSame
    <2> QED
      BY <1>1, <2>2
  <1>5. Past(s, p, set) = q
    BY <1>1, <1>3, <1>4, PastIsAt
  <1> QED
    BY <1>5 DEF q

\* White space skipped within a beginning is skipped in the text.
LEMMA SkipSame ==
    ASSUME NEW C, NEW s \in Seq(C), NEW t \in Seq(C), Begins(t, s),
           NEW p \in Places, Skip(t, p) <= Len(t)
    PROVE  Skip(s, p) = Skip(t, p) /\ Peek(s, Skip(t, p)) = Peek(t, Skip(t, p))
  <1>1. "nul" \notin White
    BY DEF White
  <1>2. Skip(s, p) = Skip(t, p)
    BY <1>1, PastSame DEF Skip
  <1>3. Skip(t, p) \in Places
    BY SkipIs
  <1> QED
    BY <1>2, <1>3, PeekSame

\* What f finds in t, if another character follows, g finds in s.
Same(t, f, g) ==
    \A p \in Places :
        f[p].at # 0 /\ Skip(t, f[p].at) <= Len(t) => g[p] = f[p]

\* A string that is read of a beginning is read of the text.
LEMMA BodySame ==
    ASSUME NEW C, NEW s \in Seq(C), NEW t \in Seq(C), Begins(t, s)
    PROVE  \A p \in Places : Body(t)[p].at # 0 => Body(s)[p] = Body(t)[p]
  <1> DEFINE M == {p \in Places : Body(t)[p].at # 0 => Body(s)[p] = Body(t)[p]}
  <1>1. ASSUME NEW p \in Places,
               p <= Len(t) => \A q \in Places : p < q => q \in M
        PROVE  p \in M
    <2> SUFFICES ASSUME Body(t)[p].at # 0 PROVE Body(s)[p] = Body(t)[p]
      OBVIOUS
    <2>1. p \in Nat /\ p + 1 \in Places /\ p + 2 \in Places
      BY NextPlace
    <2>2. Peek(t, p) # "nul"
      <3>1. Fails.at = 0
        BY DEF Fails, Read
      <3> QED
        BY <3>1, BodyStep
    <2>3. p <= Len(t) /\ Peek(s, p) = Peek(t, p)
      BY <2>2, NotNul, PeekSame
    <2>4. CASE Peek(t, p) = "quote"
      BY <2>3, <2>4, BodyStep
    <2>5. CASE Peek(t, p) = "backslash"
      <3>1. Body(t)[p] = Before(Unescaped(Peek(t, p + 1)), Body(t)[p + 2])
        BY <2>5, BodyStep
      <3>2. Body(t)[p + 2].at # 0
        BY <3>1, BeforeAt
      <3>3. Ends(t, p + 2, Body(t)[p + 2])
        BY <2>1, BodyEnds
      <3>4. p + 1 <= Len(t)
        BY <2>1, <3>2, <3>3 DEF Ends
      <3>5. Peek(s, p + 1) = Peek(t, p + 1)
        BY <2>1, <3>4, PeekSame
      <3>6. Body(s)[p + 2] = Body(t)[p + 2]
        BY <1>1, <2>1, <2>3, <3>2
      <3>7. Body(s)[p] = Before(Unescaped(Peek(s, p + 1)), Body(s)[p + 2])
        BY <2>3, <2>5, BodyStep
      <3> QED
        BY <3>1, <3>5, <3>6, <3>7
    <2>6. CASE Peek(t, p) \notin {"nul", "quote", "backslash"}
      <3>1. Body(t)[p] = Before(Peek(t, p), Body(t)[p + 1])
        BY <2>6, BodyStep
      <3>2. Body(t)[p + 1].at # 0
        BY <3>1, BeforeAt
      <3>3. Body(s)[p + 1] = Body(t)[p + 1]
        BY <1>1, <2>1, <2>3, <3>2
      <3>4. Body(s)[p] = Before(Peek(s, p), Body(s)[p + 1])
        BY <2>3, <2>6, BodyStep
      <3> QED
        BY <2>3, <3>1, <3>3, <3>4
    <2> QED
      BY <2>2, <2>4, <2>5, <2>6
  <1>2. \A p \in Places : p \in M
    <2>1. Len(t) \in Nat
      OBVIOUS
    <2> HIDE DEF M
    <2> QED
      BY <1>1, <2>1, AheadInduction
  <1> QED
    BY <1>2

\* The same of parse_string with its opening quote.
LEMMA ParseStringSame ==
    ASSUME NEW C, NEW s \in Seq(C), NEW t \in Seq(C), Begins(t, s), NEW p \in Places,
           ParseString(t, p).at # 0
    PROVE  p <= Len(t) /\ ParseString(s, p) = ParseString(t, p)
  <1>1. Peek(t, p) = "quote"
    BY DEF ParseString, Fails, Read
  <1>2. p <= Len(t) /\ Peek(s, p) = Peek(t, p)
    BY <1>1, NotNul, PeekSame
  <1>3. p + 1 \in Places
    BY NextPlace
  <1>4. ParseString(t, p) = Body(t)[p + 1] /\ ParseString(s, p) = Body(s)[p + 1]
    BY <1>1, <1>2 DEF ParseString
  <1>5. Body(s)[p + 1] = Body(t)[p + 1]
    BY <1>3, <1>4, BodySame
  <1> QED
    BY <1>2, <1>4, <1>5

\* The same of the loops of parse_object and parse_array.
LEMMA ItemsSame ==
    ASSUME NEW C, NEW s \in Seq(C), NEW t \in Seq(C), Begins(t, s),
           NEW f, NEW g, Forward(f), Forward(g), Same(t, f, g),
           NEW close, close \notin {"comma", "nul"}
    PROVE  \A p \in Places :
               Items(t, f, close)[p].at # 0 => Items(s, g, close)[p] = Items(t, f, close)[p]
  <1> DEFINE those == Items(t, f, close)
             these == Items(s, g, close)
             M == {p \in Places : those[p].at # 0 => these[p] = those[p]}
  <1>1. ASSUME NEW p \in Places,
               p <= Len(t) => \A q \in Places : p < q => q \in M
        PROVE  p \in M
    <2> SUFFICES ASSUME those[p].at # 0 PROVE these[p] = those[p]
      OBVIOUS
    <2> DEFINE r == f[p]
               end == Skip(t, r.at)
               x == g[p]
               last == Skip(s, x.at)
    <2>1. those[p] = IF Failed(r) THEN Fails
                     ELSE CASE Peek(t, end) = close -> Read(<<r.value>>, end + 1)
                            [] Peek(t, end) = "comma" -> Before(r.value, those[end + 1])
                            [] OTHER -> Fails
      BY ItemsStep
    <2>2. these[p] = IF Failed(x) THEN Fails
                     ELSE CASE Peek(s, last) = close -> Read(<<x.value>>, last + 1)
                            [] Peek(s, last) = "comma" -> Before(x.value, these[last + 1])
                            [] OTHER -> Fails
      BY ItemsStep
    <2>3. Fails.at = 0
      BY DEF Fails, Read
    <2>4. ~Failed(r) /\ Peek(t, end) \in {close, "comma"}
      <3> HIDE DEF r, end
      <3> QED
        BY <2>1, <2>3
    <2>5. r.at \in Places /\ p <= r.at
      BY <2>4 DEF Forward, Failed, Places
    <2>6. end \in Places /\ r.at <= end
      BY <2>5, SkipIs
    <2>7. end <= Len(t) /\ end \in 1..Len(t)
      <3> HIDE DEF end
      <3> QED
        BY <2>4, <2>6, NotNul
    <2>8. x = r
      BY <2>4, <2>7 DEF Same, Failed
    <2>9. last = end /\ Peek(s, end) = Peek(t, end)
      BY <2>5, <2>7, <2>8, SkipSame
    <2> HIDE DEF those, these, r, x, end, last
    <2>10. CASE Peek(t, end) = close
      BY <2>1, <2>2, <2>4, <2>8, <2>9, <2>10
    <2>11. CASE Peek(t, end) = "comma"
      <3>1. those[p] = Before(r.value, those[end + 1])
        BY <2>1, <2>4, <2>11
      <3>2. these[p] = Before(r.value, these[end + 1])
        BY <2>2, <2>4, <2>8, <2>9, <2>11
      <3>3. those[end + 1].at # 0
        BY <3>1, BeforeAt
      <3>4. end + 1 \in Places /\ p <= Len(t) /\ p < end + 1
        <4>1. p \in Nat /\ r.at \in Nat /\ end \in Nat /\ end + 1 \in Places
          BY <2>5, <2>6 DEF Places
        <4> DEFINE a == r.at
        <4>2. a \in Nat /\ p <= a /\ a <= end
          BY <2>5, <2>6, <4>1
        <4> HIDE DEF a
        <4> QED
          BY <2>7, <4>1, <4>2
      <3>5. these[end + 1] = those[end + 1]
        BY <1>1, <3>3, <3>4
      <3> QED
        BY <3>1, <3>2, <3>5
    <2> QED
      BY <2>4, <2>10, <2>11
  <1>2. \A p \in Places : p \in M
    <2>1. Len(t) \in Nat
      OBVIOUS
    <2> HIDE DEF M
    <2> QED
      BY <1>1, <2>1, AheadInduction
  <1> QED
    BY <1>2

\* The same of a member of an object.
LEMMA MembersSame ==
    ASSUME NEW C, NEW s \in Seq(C), NEW t \in Seq(C), Begins(t, s),
           NEW f, NEW g, Forward(f), Same(t, f, g)
    PROVE  Same(t, MembersOf(t, f), MembersOf(s, g))
  <1> SUFFICES ASSUME NEW p \in Places, Member(t, f, p).at # 0,
                      Skip(t, Member(t, f, p).at) <= Len(t)
               PROVE  Member(s, g, p) = Member(t, f, p)
    BY DEF Same, MembersOf
  <1> DEFINE start == Skip(t, p)
             key == ParseString(t, start)
             colon == Skip(t, key.at)
             val == f[colon + 1]
             none == key.at = 0 \/ Peek(t, colon) # ":"
  <1>1. Member(t, f, p) =
            IF none THEN Fails ELSE Given(val, <<key.value, val.value>>)
    BY DEF Member, Failed
  <1>2. ~none
    BY <1>1 DEF Fails, Read
  <1>3. Member(t, f, p).at = val.at
    BY <1>1, <1>2, GivenAt
  <1>4. start \in Places /\ p <= start
    BY SkipIs
  <1>5. start <= Len(t) /\ ParseString(s, start) = key
    <2> HIDE DEF start
    <2> QED
      BY <1>2, <1>4, ParseStringSame
  <1>6. Skip(s, p) = start
    BY <1>5, SkipSame
  <1>7. key.at \in Places
    <2>1. Ends(t, start, key)
      BY <1>4, ParseStringEnds
    <2> HIDE DEF key
    <2> QED
      BY <1>2, <2>1 DEF Ends, Places
  <1>8. colon \in Places
    BY <1>7, SkipIs
  <1>9. colon <= Len(t) /\ colon + 1 \in Places
    <2> HIDE DEF colon
    <2> QED
      BY <1>2, <1>8, NotNul, NextPlace
  <1>10. Skip(s, key.at) = colon /\ Peek(s, colon) = Peek(t, colon)
    BY <1>7, <1>9, SkipSame
  <1>11. g[colon + 1] = val
    <2>1. val.at # 0 /\ Skip(t, val.at) <= Len(t)
      BY <1>3
    <2> HIDE DEF colon
    <2> QED
      BY <2>1, <1>9 DEF Same
  <1>12. Member(s, g, p) =
            LET k == ParseString(s, Skip(s, p))
                c == Skip(s, k.at)
                v == g[c + 1]
            IN IF k.at = 0 \/ Peek(s, c) # ":" THEN Fails
               ELSE Given(v, <<k.value, v.value>>)
    BY DEF Member, Failed
  <1> HIDE DEF start, key, colon, val
  <1> QED
    BY <1>1, <1>2, <1>5, <1>6, <1>10, <1>11, <1>12

\* The same of all that is in brackets.
LEMMA EnclosedSame ==
    ASSUME NEW C, NEW s \in Seq(C), NEW t \in Seq(C), Begins(t, s),
           NEW f, NEW g, Forward(f), Forward(g), Same(t, f, g), NEW p \in Places,
           NEW close, close \notin {"comma", "nul"}, Enclosed(t, p, f, close).at # 0
    PROVE  Enclosed(s, p, g, close) = Enclosed(t, p, f, close)
  <1> DEFINE q == Skip(t, p + 1)
  <1>1. p + 1 \in Places
    BY NextPlace
  <1>2. q \in Places
    BY <1>1, SkipIs
  <1>3. Enclosed(t, p, f, close) =
            IF Peek(t, q) = close THEN Read(<<>>, q + 1) ELSE Items(t, f, close)[q]
    BY DEF Enclosed
  <1>4. Enclosed(s, p, g, close) =
            LET x == Skip(s, p + 1)
            IN IF Peek(s, x) = close THEN Read(<<>>, x + 1) ELSE Items(s, g, close)[x]
    BY DEF Enclosed
  <1>5. q <= Len(t)
    <2> HIDE DEF q
    <2>1. CASE Peek(t, q) = close
      BY <1>2, <2>1, NotNul
    <2>2. CASE Peek(t, q) # close
      <3> DEFINE a == Items(t, f, close)[q].at
      <3>1. Ends(t, q, Items(t, f, close)[q])
        BY <1>2, ItemsEnd
      <3>2. a # 0
        BY <1>3, <2>2
      <3>3. q < a /\ a \in Nat /\ a - 1 \in 1..Len(t)
        BY <3>1, <3>2 DEF Ends
      <3> HIDE DEF a
      <3>4. q \in Nat
        BY <1>2 DEF Places
      <3> QED
        BY <3>3, <3>4
    <2> QED
      BY <2>1, <2>2
  <1>6. Skip(s, p + 1) = q /\ Peek(s, q) = Peek(t, q)
    BY <1>1, <1>5, SkipSame
  <1> HIDE DEF q
  <1>7. CASE Peek(t, q) = close
    BY <1>3, <1>4, <1>6, <1>7
  <1>8. CASE Peek(t, q) # close
    <2>1. Items(s, g, close)[q] = Items(t, f, close)[q]
      BY <1>2, <1>3, <1>8, ItemsSame
    <2> QED
      BY <2>1, <1>3, <1>4, <1>6, <1>8
  <1> QED
    BY <1>7, <1>8

\* strtoll, figure by figure.
LEMMA CountedRuns ==
    ASSUME NEW s, NEW p
    PROVE  /\ Counted(s, p) \in [Nat -> Nat] /\ Counted(s, p)[0] = 0
           /\ \A i \in Nat :
                 Counted(s, p)[i + 1] =
                     LET c == Peek(s, p + i) IN
                     IF c \in DOMAIN FigureValue
                     THEN 10 * Counted(s, p)[i] + FigureValue[c] ELSE Counted(s, p)[i]
  <1> DEFINE A == Nat
             F == [i \in Nat |-> [n \in A |->
                      LET c == Peek(s, p + i)
                      IN IF c \in DOMAIN FigureValue
                         THEN 10 * n + FigureValue[c] ELSE n]]
             x == Counted(s, p)
  <1>1. \A c \in DOMAIN FigureValue : FigureValue[c] \in Nat
    BY FiguresAre
  <1>2. F \in [Nat -> [A -> A]]
    BY <1>1
  <1>3. x = Loop(0, F)
    BY DEF Counted
  <1>4. x \in [Nat -> A] /\ Runs(x, 0, F)
    <2>1. 0 \in A
      OBVIOUS
    <2> HIDE DEF F, A, x
    <2> QED
      BY <1>2, <1>3, <2>1, LoopRuns
  <1>5. ASSUME NEW i \in Nat
        PROVE  x[i + 1] = LET c == Peek(s, p + i) IN
                          IF c \in DOMAIN FigureValue
                          THEN 10 * x[i] + FigureValue[c] ELSE x[i]
    <2>1. x[i + 1] = F[i][x[i]] /\ x[i] \in A
      BY <1>4 DEF Runs
    <2> HIDE DEF x
    <2> QED
      BY <2>1
  <1> HIDE DEF x
  <1>6. x[0] = 0
    BY <1>4 DEF Runs
  <1> QED
    BY <1>4, <1>5, <1>6 DEF x

\* The same figures count up to the same number.
LEMMA CountedSame ==
    ASSUME NEW s, NEW t, NEW p \in Nat, NEW n \in Nat,
           \A i \in p..(p + n - 1) : Peek(s, i) = Peek(t, i)
    PROVE  Counted(s, p)[n] = Counted(t, p)[n]
  <1> DEFINE S == {i \in Nat : Counted(s, p)[i] = Counted(t, p)[i]}
  <1>1. 0 \in S
    BY CountedRuns
  <1>2. ASSUME NEW i \in Nat, i < n, i \in S PROVE i + 1 \in S
    <2> DEFINE c == Peek(s, p + i)
               x == Counted(s, p)
               y == Counted(t, p)
    <2>1. p + i \in p..(p + n - 1)
      BY <1>2
    <2>2. Peek(t, p + i) = c
      BY <2>1
    <2>3. x[i + 1] = IF c \in DOMAIN FigureValue THEN 10 * x[i] + FigureValue[c] ELSE x[i]
      BY CountedRuns
    <2>4. y[i + 1] = IF c \in DOMAIN FigureValue THEN 10 * y[i] + FigureValue[c] ELSE y[i]
      BY <2>2, CountedRuns
    <2>5. x[i] = y[i]
      BY <1>2
    <2> HIDE DEF c, x, y
    <2>6. x[i + 1] = y[i + 1]
      BY <2>3, <2>4, <2>5
    <2> QED
      BY <2>6 DEF x, y
  <1>3. \A i \in 0..n : i \in S
    <2> HIDE DEF S
    <2> QED
      BY <1>1, <1>2, BoundedInduction
  <1> QED
    BY <1>3

\* A number that ends within a beginning is the number of the text.
LEMMA ParseIntSame ==
    ASSUME NEW C, NEW s \in Seq(C), NEW t \in Seq(C), Begins(t, s), NEW p \in Places,
           ParseInt(t, p).at <= Len(t)
    PROVE  ParseInt(s, p) = ParseInt(t, p)
  <1> DEFINE minus == Peek(t, p) = "-"
             start == IF minus THEN p + 1 ELSE p
             end == Past(t, start, DOMAIN FigureValue)
             n == Counted(t, start)[end - start]
  <1>1. ParseInt(t, p) = Read(IntOf(IF minus THEN -n ELSE n), end)
    BY DEF ParseInt
  <1>2. end <= Len(t)
    BY <1>1 DEF Read
  <1>3. start \in Places /\ p <= start /\ start \in Nat
    BY DEF Places
  <1>4. end \in Places /\ start <= end /\ end \in Nat
    <2> HIDE DEF start
    <2>1. end \in Places /\ start <= end
      BY <1>3, NulIsNoFigure, PastIs
    <2> HIDE DEF end
    <2> QED
      BY <2>1 DEF Places
  <1> HIDE DEF end
  <1>5. Peek(s, p) = Peek(t, p)
    <2>1. p <= Len(t)
      <3> HIDE DEF start
      <3> QED
        BY <1>2, <1>3, <1>4 DEF Places
    <2> QED
      BY <2>1, PeekSame
  <1>6. Past(s, start, DOMAIN FigureValue) = end
    <2> HIDE DEF start
    <2> QED
      BY <1>2, <1>3, NulIsNoFigure, PastSame DEF end
  <1>7. Counted(s, start)[end - start] = n
    <2> HIDE DEF start
    <2>1. end - start \in Nat
      BY <1>3, <1>4
    <2>2. ASSUME NEW i \in start..(start + (end - start) - 1)
          PROVE  Peek(s, i) = Peek(t, i)
      <3>1. i \in Places /\ i <= Len(t)
        BY <1>2, <1>3, <1>4 DEF Places
      <3> QED
        BY <3>1, PeekSame
    <2> QED
      BY <1>3, <2>1, <2>2, CountedSame
  <1>8. ParseInt(s, p) =
            LET m == Peek(s, p) = "-"
                b == IF m THEN p + 1 ELSE p
                e == Past(s, b, DOMAIN FigureValue)
                v == Counted(s, b)[e - b]
            IN Read(IntOf(IF m THEN -v ELSE v), e)
    BY DEF ParseInt
  <1> HIDE DEF n
  <1> QED
    BY <1>1, <1>5, <1>6, <1>7, <1>8

\* What parse_value reads within a beginning it reads of the text.
LEMMA ParseValueSame ==
    ASSUME NEW C, NEW s \in Seq(C), NEW t \in Seq(C), Begins(t, s),
           NEW f, NEW g, Forward(f), Forward(g), Same(t, f, g)
    PROVE  Same(t, [p \in Places |-> ParseValue(t, f, p)],
                   [p \in Places |-> ParseValue(s, g, p)])
  <1> SUFFICES ASSUME NEW start \in Places, ParseValue(t, f, start).at # 0,
                      Skip(t, ParseValue(t, f, start).at) <= Len(t)
               PROVE  ParseValue(s, g, start) = ParseValue(t, f, start)
    BY DEF Same
  <1> DEFINE p == Skip(t, start)
             c == Peek(t, p)
             r == ParseValue(t, f, start)
             a == r.at
             x == ParseValue(s, g, start)
             tMembers == Enclosed(t, p, MembersOf(t, f), "closebrace")
             tElements == Enclosed(t, p, f, "]")
             tString == ParseString(t, p)
             sMembers == Enclosed(s, p, MembersOf(s, g), "closebrace")
             sElements == Enclosed(s, p, g, "]")
             sString == ParseString(s, p)
             others == {"openbrace", "[", "quote", "t", "f", "n"}
  <1>1. p \in Places /\ start <= p
    BY SkipIs
  <1>2. /\ c = "openbrace" => r = Given(tMembers, Obj(Emplaced(tMembers.value)))
        /\ c = "[" => r = Given(tElements, Arr(tElements.value))
        /\ c = "quote" => r = Given(tString, Str(tString.value))
        /\ c = "t" => r = Read(Bool(TRUE), p + 4)
        /\ c = "f" => r = Read(Bool(FALSE), p + 5)
        /\ c = "n" => r = Read(Null, p + 4)
        /\ c \notin others => r = ParseInt(t, p)
    BY ParseValueIs
  <1>3. a \in Places /\ p <= a
    <2>1. a \in Nat /\ (a = 0 \/ start <= a)
      <3>1. Forward([q \in Places |-> ParseValue(t, f, q)])
        BY ParseValueForward
      <3> QED
        BY <3>1 DEF Forward
    <2>2. ASSUME NEW y, Ends(t, p, y), a = y.at PROVE p <= a
      BY <2>2, <1>1 DEF Ends, Places
    <2>3. Ends(t, p, tElements) /\ Ends(t, p, tString)
      BY <1>1, EnclosedEnds, ParseStringEnds
    <2>4. Ends(t, p, tMembers)
      <3>1. Forward(MembersOf(t, f))
        BY MemberForward
      <3> HIDE DEF p
      <3> QED
        BY <1>1, <3>1, EnclosedEnds
    <2>5. ParseInt(t, p).at \in Nat /\ p <= ParseInt(t, p).at
      BY <1>1, ParseIntForward
    <2>6. p \in Nat
      BY <1>1 DEF Places
    <2> HIDE DEF c, r, p, tMembers, tElements, tString
    <2>7. CASE c \in {"openbrace", "[", "quote"}
      <3>1. \E y, v : Ends(t, p, y) /\ r = Given(y, v)
        BY <1>2, <2>3, <2>4, <2>7
      <3>2. \E y : Ends(t, p, y) /\ a = y.at
        BY <3>1, GivenAt
      <3>3. p <= a
        BY <3>2, <2>2
      <3> QED
        BY <3>3, <2>1 DEF Places, r
    <2>8. CASE c \in {"t", "f", "n"}
      <3>1. \E v : r = Read(v, p + 4) \/ r = Read(v, p + 5)
        BY <1>2, <2>8
      <3>2. a = p + 4 \/ a = p + 5
        BY <3>1 DEF Read
      <3> HIDE DEF a
      <3> QED
        BY <3>2, <2>6, <1>1 DEF Places
    <2>9. CASE c \notin others
      <3>1. a = ParseInt(t, p).at
        BY <1>2, <2>9
      <3>2. p <= a /\ a \in Nat
        BY <3>1, <2>5
      <3> HIDE DEF a
      <3> QED
        BY <3>2, <1>1, <2>6 DEF Places
    <2> QED
      BY <2>7, <2>8, <2>9
  <1>4. a <= Len(t) /\ p <= Len(t)
    <2> DEFINE e == Skip(t, a)
    <2>1. e \in Places /\ a <= e /\ e <= Len(t)
      BY <1>3, SkipIs
    <2>2. Len(t) \in Nat
      OBVIOUS
    <2> HIDE DEF e, a, p
    <2> QED
      BY <1>1, <1>3, <2>1, <2>2 DEF Places
  <1>5. Skip(s, start) = p /\ Peek(s, p) = c
    BY <1>4, SkipSame
  <1>6. LET q == Skip(s, start)
            d == Peek(s, q)
            members == Enclosed(s, q, MembersOf(s, g), "closebrace")
            elements == Enclosed(s, q, g, "]")
            string == ParseString(s, q)
        IN /\ d = "openbrace" => x = Given(members, Obj(Emplaced(members.value)))
           /\ d = "[" => x = Given(elements, Arr(elements.value))
           /\ d = "quote" => x = Given(string, Str(string.value))
           /\ d = "t" => x = Read(Bool(TRUE), q + 4)
           /\ d = "f" => x = Read(Bool(FALSE), q + 5)
           /\ d = "n" => x = Read(Null, q + 4)
           /\ d \notin others => x = ParseInt(s, q)
    BY ParseValueIs
  <1>7. /\ c = "openbrace" => x = Given(sMembers, Obj(Emplaced(sMembers.value)))
        /\ c = "[" => x = Given(sElements, Arr(sElements.value))
        /\ c = "quote" => x = Given(sString, Str(sString.value))
        /\ c = "t" => x = Read(Bool(TRUE), p + 4)
        /\ c = "f" => x = Read(Bool(FALSE), p + 5)
        /\ c = "n" => x = Read(Null, p + 4)
        /\ c \notin others => x = ParseInt(s, p)
    <2> HIDE DEF p, c, x
    <2> QED
      BY <1>5, <1>6
  <1>8. a # 0 /\ r.at = a
    OBVIOUS
  <1>9. ASSUME c = "openbrace" PROVE sMembers = tMembers
    <2>1. tMembers.at # 0
      BY <1>2, <1>8, <1>9, GivenAt
    <2>2. /\ Forward(MembersOf(t, f)) /\ Forward(MembersOf(s, g))
          /\ Same(t, MembersOf(t, f), MembersOf(s, g))
      BY MemberForward, MembersSame
    <2> DEFINE m == MembersOf(t, f)
               k == MembersOf(s, g)
    <2> HIDE DEF p, m, k
    <2> QED
      BY <1>1, <2>1, <2>2, EnclosedSame DEF m, k
  <1>10. ASSUME c = "[" PROVE sElements = tElements
    <2>1. tElements.at # 0
      BY <1>2, <1>8, <1>10, GivenAt
    <2> HIDE DEF p
    <2> QED
      BY <1>1, <2>1, EnclosedSame
  <1>11. ASSUME c = "quote" PROVE sString = tString
    <2>1. tString.at # 0
      BY <1>2, <1>8, <1>11, GivenAt
    <2> HIDE DEF p
    <2> QED
      BY <1>1, <2>1, ParseStringSame
  <1>12. ASSUME c \notin others PROVE ParseInt(s, p) = ParseInt(t, p)
    <2>1. ParseInt(t, p).at <= Len(t)
      BY <1>2, <1>4, <1>12
    <2> HIDE DEF p
    <2> QED
      BY <1>1, <2>1, ParseIntSame
  <1> HIDE DEF p, c, r, x, a, tMembers, tElements, tString, sMembers, sElements, sString
  <1>13. x = r
    BY <1>2, <1>7, <1>9, <1>10, <1>11, <1>12
  <1> QED
    BY <1>13 DEF x, r

\* What is read of t, n brackets deep, is read of s, as deep or deeper.
LEMMA ValuesSame ==
    ASSUME NEW C, NEW s \in Seq(C), NEW t \in Seq(C), Begins(t, s)
    PROVE  \A n, m \in Nat : n <= m => Same(t, Inner(t, n), Inner(s, m))
  <1> DEFINE M == {n \in Nat : \A m \in Nat : n <= m => Same(t, Inner(t, n), Inner(s, m))}
  <1>1. 0 \in M
    BY DEF Same, Inner, Fails, Read
  <1>2. ASSUME NEW n \in Nat, n \in M PROVE n + 1 \in M
    <2> SUFFICES ASSUME NEW m \in Nat, n + 1 <= m
                 PROVE  Same(t, Inner(t, n + 1), Inner(s, m))
      OBVIOUS
    <2>1. m - 1 \in Nat /\ n <= m - 1 /\ m # 0 /\ n + 1 # 0 /\ (n + 1) - 1 = n
      OBVIOUS
    <2> DEFINE f == Inner(t, n)
               g == Inner(s, m - 1)
    <2>2. Forward(f) /\ Forward(g) /\ Same(t, f, g)
      BY <1>2, <2>1, InnerForward
    <2>3. /\ Inner(t, n + 1) = [p \in Places |-> ParseValue(t, f, p)]
          /\ Inner(s, m) = [p \in Places |-> ParseValue(s, g, p)]
      <3>1. Inner(t, n + 1) = Values(t)[n] /\ Inner(s, m) = Values(s)[m - 1]
        BY <2>1 DEF Inner
      <3> QED
        BY <2>1, <3>1, ValuesStep
    <2> HIDE DEF f, g
    <2>4. Same(t, [p \in Places |-> ParseValue(t, f, p)],
                  [p \in Places |-> ParseValue(s, g, p)])
      BY <2>2, ParseValueSame
    <2> QED
      BY <2>3, <2>4
  <1>3. \A n \in Nat : n \in M
    <2> HIDE DEF M
    <2> QED
      BY <1>1, <1>2, SetInduction
  <1> QED
    BY <1>3

\* An object that is read of a text ends where its own last bracket stands.
LEMMA ObjectEnds ==
    ASSUME NEW C, NEW s \in Seq(C), NEW t \in Seq(C), Begins(t, s),
           Parse(t).type = "obj"
    PROVE  Values(s)[Len(s)][1].at \in 1..(Len(t) + 1)
  <1> DEFINE f == Inner(t, Len(t))
             g == Inner(s, Len(s))
             p == Skip(t, 1)
             c == Peek(t, p)
             r == ParseValue(t, f, 1)
             x == ParseValue(s, g, 1)
             tMembers == Enclosed(t, p, MembersOf(t, f), "closebrace")
             sMembers == Enclosed(s, p, MembersOf(s, g), "closebrace")
             elements == Enclosed(t, p, f, "]")
             string == ParseString(t, p)
  <1>1. Len(t) \in Nat /\ Len(s) \in Nat /\ Len(t) <= Len(s) /\ 1 \in Places
    BY DEF Begins, Places
  <1>2. Values(t)[Len(t)][1] = r /\ Values(s)[Len(s)][1] = x
    <2>1. /\ Values(t)[Len(t)] = [q \in Places |-> ParseValue(t, f, q)]
          /\ Values(s)[Len(s)] = [q \in Places |-> ParseValue(s, g, q)]
      BY <1>1, ValuesStep
    <2> HIDE DEF f, g
    <2> QED
      BY <2>1, <1>1
  <1>3. r.value.type = "obj"
    BY <1>2 DEF Parse
  <1>4. /\ c = "openbrace" => r = Given(tMembers, Obj(Emplaced(tMembers.value)))
        /\ c = "[" => r = Given(elements, Arr(elements.value))
        /\ c = "quote" => r = Given(string, Str(string.value))
        /\ c = "t" => r = Read(Bool(TRUE), p + 4)
        /\ c = "f" => r = Read(Bool(FALSE), p + 5)
        /\ c = "n" => r = Read(Null, p + 4)
        /\ c \notin {"openbrace", "[", "quote", "t", "f", "n"} => r = ParseInt(t, p)
    BY ParseValueIs
  <1>5. /\ \A y, v : Given(y, Arr(v)).value.type # "obj"
        /\ \A y, v : Given(y, Str(v)).value.type # "obj"
        /\ \A b, q : Read(Bool(b), q).value.type # "obj"
        /\ \A q : Read(Null, q).value.type # "obj"
        /\ ParseInt(t, p).value.type # "obj"
    <2>1. \A y, v : Given(y, Arr(v)).value.type \in {"throws", "arr"}
      BY DEF Given, Read, Fails, Throws, Value, Arr
    <2>2. \A y, v : Given(y, Str(v)).value.type \in {"throws", "str"}
      BY DEF Given, Read, Fails, Throws, Value, Str
    <2>3. \A b, q : Read(Bool(b), q).value.type = "bool"
      BY DEF Read, Value, Bool
    <2>4. \A q : Read(Null, q).value.type = "null"
      BY DEF Read, Value, Null
    <2>5. ParseInt(t, p).value.type = "int"
      <3>1. \A n, q : Read(IntOf(n), q).value.type = "int"
        BY DEF Read, Value, IntOf
      <3>2. \E n, q : ParseInt(t, p) = Read(IntOf(n), q)
        BY DEF ParseInt
      <3> QED
        BY <3>1, <3>2
    <2> HIDE DEF p
    <2> QED
      BY <2>1, <2>2, <2>3, <2>4, <2>5
  <1>6. c = "openbrace" /\ r = Given(tMembers, Obj(Emplaced(tMembers.value)))
    <2> HIDE DEF c, r, tMembers, elements, string
    <2> QED
      BY <1>3, <1>4, <1>5
  <1>7. ~Failed(tMembers)
    <2> HIDE DEF tMembers
    <2>1. CASE Failed(tMembers)
      <3>1. r.value.type = "throws"
        BY <1>6, <2>1 DEF Given, Fails, Read, Throws, Value
      <3> HIDE DEF r
      <3> QED
        BY <1>3, <3>1
    <2> QED
      BY <2>1
  <1>8. /\ Forward(f) /\ Forward(g) /\ Same(t, f, g)
        /\ Forward(MembersOf(t, f)) /\ Forward(MembersOf(s, g))
        /\ Same(t, MembersOf(t, f), MembersOf(s, g))
    <2>1. Forward(f) /\ Forward(g) /\ Same(t, f, g)
      BY <1>1, InnerForward, ValuesSame
    <2> HIDE DEF f, g
    <2> QED
      BY <2>1, MemberForward, MembersSame
  <1>9. p \in Places /\ 1 <= p
    BY <1>1, SkipIs
  <1>10. p <= Len(t)
    <2> HIDE DEF p
    <2> QED
      BY <1>6, <1>9, NotNul
  <1>11. Skip(s, 1) = p /\ Peek(s, p) = c
    BY <1>1, <1>10, SkipSame
  <1>12. x = Given(sMembers, Obj(Emplaced(sMembers.value)))
    <2>1. Peek(s, Skip(s, 1)) = "openbrace"
      BY <1>6, <1>11
    <2> QED
      BY <2>1, <1>11, ParseObjectIs
  <1>13. sMembers = tMembers
    <2> DEFINE m == MembersOf(t, f)
               k == MembersOf(s, g)
    <2>1. tMembers.at # 0
      BY <1>7 DEF Failed
    <2> HIDE DEF p, m, k, f, g
    <2> QED
      BY <1>8, <1>9, <2>1, EnclosedSame DEF m, k
  <1>14. Ends(t, p, tMembers)
    <2> DEFINE m == MembersOf(t, f)
    <2> HIDE DEF p, m
    <2> QED
      BY <1>8, <1>9, EnclosedEnds DEF m
  <1>15. x.at = tMembers.at
    BY <1>12, <1>13, GivenAt
  <1> DEFINE a == tMembers.at
  <1>16. a \in Nat /\ a # 0 /\ a - 1 \in 1..Len(t)
    BY <1>7, <1>14 DEF Ends, Failed
  <1> HIDE DEF a
  <1>17. a \in 1..(Len(t) + 1)
    BY <1>16, <1>1
  <1> QED
    BY <1>2, <1>15, <1>17 DEF a

\* A text whose value takes all of it has no beginning that reads as an object:
\* an object that lost its end is refused, wherever it was cut (json.hpp:203-224).
THEOREM CutTextRefused ==
    ASSUME NEW C, NEW s \in Seq(C), NEW t \in Seq(C), Begins(t, s), Len(t) < Len(s),
           Values(s)[Len(s)][1].at = Len(s) + 1
    PROVE  Parse(t).type # "obj"
  <1>1. Len(t) \in Nat /\ Len(s) \in Nat
    OBVIOUS
  <1> QED
    BY <1>1, ObjectEnds

-----------------------------------------------------------------------------
(* What was written is read *)

\* u stands in s at p.
Stands(s, p, u) == \A i \in 1..Len(u) : Peek(s, p + (i - 1)) = u[i]

\* Where two parts stand together each of them stands.
LEMMA StandsJoined ==
    ASSUME NEW C, NEW u \in Seq(C), NEW v \in Seq(C), NEW s, NEW p \in Nat,
           Stands(s, p, u \o v)
    PROVE  Stands(s, p, u) /\ Stands(s, p + Len(u), v)
  <1> DEFINE w == u \o v
  <1>1. /\ Len(w) = Len(u) + Len(v) /\ Len(u) \in Nat /\ Len(v) \in Nat
        /\ \A i \in 1..Len(u) : w[i] = u[i]
        /\ \A i \in 1..Len(v) : w[Len(u) + i] = v[i]
    BY Joined
  <1>2. \A i \in 1..Len(w) : Peek(s, p + (i - 1)) = w[i]
    BY DEF Stands
  <1> HIDE DEF w
  <1>3. ASSUME NEW i \in 1..Len(u) PROVE Peek(s, p + (i - 1)) = u[i]
    <2>1. i \in 1..Len(w)
      BY <1>1
    <2> QED
      BY <1>1, <1>2, <2>1
  <1>4. ASSUME NEW i \in 1..Len(v) PROVE Peek(s, (p + Len(u)) + (i - 1)) = v[i]
    <2>1. Len(u) + i \in 1..Len(w) /\ (p + Len(u)) + (i - 1) = p + ((Len(u) + i) - 1)
      BY <1>1
    <2> QED
      BY <1>1, <1>2, <2>1
  <1> QED
    BY <1>3, <1>4 DEF Stands

\* What has one character stands where that is.
LEMMA StandsOne ==
    ASSUME NEW c, NEW s, NEW p \in Nat, Stands(s, p, <<c>>)
    PROVE  Peek(s, p) = c
  <1>1. 1 \in 1..Len(<<c>>) /\ <<c>>[1] = c /\ p + (1 - 1) = p
    OBVIOUS
  <1> QED
    BY <1>1 DEF Stands

\* The parts of a text, one after another: off[i] characters are in the first i.
LEMMA Flattened ==
    ASSUME NEW C, NEW parts \in Seq(Seq(C))
    PROVE  /\ FlattenSeq(parts) \in Seq(C)
           /\ \E off \in [Nat -> Nat] :
                 /\ off[0] = 0 /\ off[Len(parts)] = Len(FlattenSeq(parts))
                 /\ \A i \in Nat : i < Len(parts) => off[i + 1] = off[i] + Len(parts[i + 1])
                 /\ \A s, p : p \in Nat /\ Stands(s, p, FlattenSeq(parts)) =>
                       \A i \in Nat : i < Len(parts) => Stands(s, p + off[i], parts[i + 1])
  <1> DEFINE A == Seq(C)
             L == Len(parts)
             part == [i \in Nat |-> IF i < L THEN parts[i + 1] ELSE <<>>]
             F == [i \in Nat |-> [u \in A |-> u \o part[i]]]
             text == FlattenSeq(parts)
  <1>1. L \in Nat /\ \A i \in 1..L : parts[i] \in A
    OBVIOUS
  <1>2. part \in [Nat -> A]
    <2>1. ASSUME NEW i \in Nat, i < L PROVE parts[i + 1] \in A
      <3>1. i + 1 \in 1..L
        BY <1>1, <2>1
      <3> QED
        BY <1>1, <3>1
    <2>2. <<>> \in A
      OBVIOUS
    <2> HIDE DEF A, L
    <2> QED
      BY <2>1, <2>2
  <1>3. F \in [Nat -> [A -> A]] /\ <<>> \in A
    <2>1. \A u \in A, v \in A : u \o v \in A
      BY Joined
    <2>2. <<>> \in A
      OBVIOUS
    <2> HIDE DEF A, part
    <2> QED
      BY <1>2, <2>1, <2>2
  <1>4. PICK g \in [Nat -> A] : Runs(g, <<>>, F)
    <2> HIDE DEF A, F
    <2> QED
      BY <1>3, PrimitiveRecursion
  <1>5. g[0] = <<>> /\ \A i \in Nat : g[i + 1] = g[i] \o part[i]
    <2>1. \A i \in Nat : g[i] \in A /\ g[i + 1] = F[i][g[i]]
      BY <1>4 DEF Runs
    <2> HIDE DEF A, part
    <2>2. \A i \in Nat : g[i + 1] = g[i] \o part[i]
      BY <2>1
    <2> QED
      BY <1>4, <2>2 DEF Runs
  <1>6. text = g[L]
    <2>1. CASE L = 0
      BY <2>1, <1>5 DEF FlattenSeq
    <2>2. CASE L # 0
      <3> DEFINE Solves(f) == f = [i \in 1..L |-> IF i = 1 THEN parts[i]
                                                  ELSE f[i - 1] \o parts[i]]
                 f0 == CHOOSE f : Solves(f)
                 h == [i \in 1..L |-> g[i]]
      <3>1. text = f0[L]
        BY <2>2 DEF FlattenSeq
      <3>2. Solves(h)
        <4>1. ASSUME NEW i \in 1..L
              PROVE  h[i] = IF i = 1 THEN parts[i] ELSE h[i - 1] \o parts[i]
          <5>1. i - 1 \in Nat /\ (i - 1) + 1 = i /\ i - 1 < L
            BY <1>1
          <5>2. part[i - 1] = parts[i]
            BY <5>1
          <5> HIDE DEF part, L
          <5>3. g[i] = g[i - 1] \o parts[i]
            BY <5>1, <5>2, <1>5
          <5>4. CASE i = 1
            <6>0. i - 1 = 0 /\ 1 \in 1..L
              BY <5>4
            <6>1. g[1] = <<>> \o parts[1] /\ parts[1] \in A
              BY <6>0, <5>3, <5>4, <1>5, <1>1
            <6>2. <<>> \o parts[1] = parts[1]
              BY <6>1
            <6> QED
              BY <5>4, <6>1, <6>2
          <5>5. CASE i # 1
            <6>1. i - 1 \in 1..L
              BY <5>5, <1>1
            <6> QED
              BY <5>3, <5>5, <6>1
          <5> QED
            BY <5>4, <5>5
        <4>2. h = [i \in 1..L |-> h[i]]
          OBVIOUS
        <4> HIDE DEF L, h
        <4> QED
          BY <4>1, <4>2
      <3>3. Solves(f0)
        <4> HIDE DEF Solves, h
        <4> QED
          BY <3>2
      <3> DEFINE T == {n \in Nat : n + 1 <= L => f0[n + 1] = h[n + 1]}
      <3>4. /\ \A i \in 1..L : f0[i] = IF i = 1 THEN parts[i] ELSE f0[i - 1] \o parts[i]
            /\ \A i \in 1..L : h[i] = IF i = 1 THEN parts[i] ELSE h[i - 1] \o parts[i]
        <4> HIDE DEF f0, h, L
        <4> QED
          BY <3>2, <3>3
      <3> HIDE DEF f0, h, Solves
      <3>5. 0 \in T
        <4> HIDE DEF L
        <4>1. 1 <= L => 1 \in 1..L
          BY <1>1
        <4> QED
          BY <3>4, <4>1
      <3>6. ASSUME NEW n \in Nat, n \in T PROVE n + 1 \in T
        <4>0. n + 1 \in Nat
          OBVIOUS
        <4> SUFFICES ASSUME (n + 1) + 1 <= L PROVE f0[(n + 1) + 1] = h[(n + 1) + 1]
          <5> HIDE DEF L
          <5> QED
            BY <4>0
        <4> DEFINE k == (n + 1) + 1
        <4>1. k \in 1..L /\ k - 1 = n + 1 /\ n + 1 <= L /\ k # 1
          <5>1. L \in Nat /\ k <= L
            BY <1>1
          <5> HIDE DEF L, f0, h, T
          <5> QED
            BY <5>1
        <4>2. f0[n + 1] = h[n + 1]
          BY <3>6, <4>1
        <4> HIDE DEF k, L, T
        <4>3. f0[k] = f0[k - 1] \o parts[k]
          BY <3>4, <4>1
        <4>4. h[k] = h[k - 1] \o parts[k]
          BY <3>4, <4>1
        <4>5. f0[k] = h[k]
          BY <4>1, <4>2, <4>3, <4>4
        <4> QED
          BY <4>5 DEF k
      <3>7. \A n \in Nat : n \in T
        <4> HIDE DEF T
        <4> QED
          BY <3>5, <3>6, SetInduction
      <3>8. L - 1 \in Nat /\ (L - 1) + 1 = L /\ L \in 1..L
        BY <1>1, <2>2
      <3>9. f0[L] = h[L]
        <4> HIDE DEF L
        <4>1. (L - 1) + 1 <= L
          BY <3>8
        <4> QED
          BY <3>7, <3>8, <4>1
      <3>10. h[L] = g[L]
        <4> HIDE DEF L
        <4> QED
          BY <3>8 DEF h
      <3> QED
        BY <3>1, <3>9, <3>10
    <2> QED
      BY <2>1, <2>2
  <1> DEFINE off == [i \in Nat |-> Len(g[i])]
  <1> HIDE DEF A, F, part, L
  <1>7. off \in [Nat -> Nat] /\ off[0] = 0 /\ off[L] = Len(text)
    <2>1. \A i \in Nat : Len(g[i]) \in Nat
      BY DEF A
    <2>2. Len(<<>>) = 0
      OBVIOUS
    <2> HIDE DEF text
    <2> QED
      BY <2>1, <2>2, <1>1, <1>5, <1>6
  <1>8. ASSUME NEW i \in Nat, i < L
        PROVE  part[i] = parts[i + 1] /\ parts[i + 1] \in A /\ off[i + 1] = off[i] + Len(parts[i + 1])
    <2>1. part[i] = parts[i + 1]
      BY <1>8 DEF part
    <2>2. g[i + 1] = g[i] \o parts[i + 1] /\ g[i] \in A /\ parts[i + 1] \in A
      BY <2>1, <1>5, <1>2
    <2>3. Len(g[i + 1]) = Len(g[i]) + Len(parts[i + 1])
      BY <2>2, Joined DEF A
    <2>4. off[i] = Len(g[i]) /\ off[i + 1] = Len(g[i + 1])
      OBVIOUS
    <2> HIDE DEF off
    <2> QED
      BY <2>1, <2>2, <2>3, <2>4
  <1>9. ASSUME NEW s, NEW p \in Nat, Stands(s, p, text)
        PROVE  \A i \in Nat : i < L => Stands(s, p + off[i], parts[i + 1])
    <2> DEFINE All(n) == \A i \in Nat : i < n => Stands(s, p + off[i], parts[i + 1])
               T == {n \in Nat : n <= L /\ Stands(s, p, g[n]) => All(n)}
    <2>1. 0 \in T
      OBVIOUS
    <2>2. ASSUME NEW n \in Nat, n \in T PROVE n + 1 \in T
      <3> SUFFICES ASSUME n + 1 <= L, Stands(s, p, g[n + 1]) PROVE All(n + 1)
        OBVIOUS
      <3>1. n < L /\ n <= L
        BY <1>1
      <3>2. g[n + 1] = g[n] \o parts[n + 1] /\ g[n] \in Seq(C) /\ parts[n + 1] \in Seq(C)
        BY <3>1, <1>5, <1>8 DEF A
      <3>3. Stands(s, p, g[n]) /\ Stands(s, p + Len(g[n]), parts[n + 1])
        BY <3>2, StandsJoined
      <3>4. All(n)
        BY <2>2, <3>1, <3>3
      <3>5. off[n] = Len(g[n])
        BY <3>1
      <3> HIDE DEF off
      <3> SUFFICES ASSUME NEW i \in Nat, i < n + 1 PROVE Stands(s, p + off[i], parts[i + 1])
        OBVIOUS
      <3>6. i < n \/ i = n
        OBVIOUS
      <3> QED
        BY <3>3, <3>4, <3>5, <3>6
    <2>3. \A n \in Nat : n \in T
      <3> HIDE DEF T
      <3> QED
        BY <2>1, <2>2, SetInduction
    <2> HIDE DEF All
    <2>4. L <= L
      BY <1>1
    <2>5. All(L)
      BY <2>3, <2>4, <1>1, <1>6, <1>9
    <2> QED
      BY <2>5 DEF All
  <1>10. text \in Seq(C)
    BY <1>1, <1>6 DEF A
  <1> HIDE DEF off, text
  <1>11. \A i \in Nat : i < L => off[i + 1] = off[i] + Len(parts[i + 1])
    BY <1>8
  <1>12. \A s, p : p \in Nat /\ Stands(s, p, text) =>
             \A i \in Nat : i < L => Stands(s, p + off[i], parts[i + 1])
    BY <1>9
  <1> QED
    BY <1>7, <1>10, <1>11, <1>12 DEF text, L

\* What is left of x after its first i elements.
Rest(x, i) == SubSeq(x, i + 1, Len(x))

\* The rests of a sequence, from all of it down to nothing.
LEMMA RestIs ==
    ASSUME NEW C, NEW x \in Seq(C)
    PROVE  /\ Rest(x, 0) = x /\ Rest(x, Len(x)) = <<>>
           /\ \A i \in Nat : i < Len(x) =>
                 /\ Rest(x, i + 1) \in Seq(C)
                 /\ <<x[i + 1]>> \o Rest(x, i + 1) = Rest(x, i)
  <1>1. Rest(x, 0) = x
    BY DEF Rest
  <1>2. Rest(x, Len(x)) = <<>>
    BY DEF Rest
  <1>3. ASSUME NEW i \in Nat, i < Len(x)
        PROVE  /\ Rest(x, i + 1) \in Seq(C)
               /\ <<x[i + 1]>> \o Rest(x, i + 1) = Rest(x, i)
    BY <1>3 DEF Rest
  <1> QED
    BY <1>1, <1>2, <1>3

\* Places further on.
LEMMA Further ==
    ASSUME NEW p \in Places, NEW n \in Nat
    PROVE  p + n \in Places /\ p + n \in Nat /\ p \in Nat /\ p <= p + n
  BY DEF Places

\* What is put before what was read.
LEMMA BeforeRead ==
    ASSUME NEW c, NEW v, NEW p \in Places
    PROVE  Before(c, Read(v, p)) = Read(<<c>> \o v, p)
  BY DEF Before, Given, Failed, Read, Places

\* The characters of an escaped text.
Marks == {"quote", "backslash", "n", "t", "r", "comma", ":", "[", "]",
          "openbrace", "closebrace", "u", "e", "f", "a", "l", "s"} \union FigureSet

EscapedParts(x) ==
    [i \in DOMAIN x |->
        IF x[i] \in DOMAIN Escape THEN <<"backslash", Escape[x[i]]>> ELSE <<x[i]>>]

\* A string is written character by character.
LEMMA EscapedPartsType ==
    ASSUME NEW C, Marks \subseteq C, NEW x \in Seq(C)
    PROVE  /\ EscapedParts(x) \in Seq(Seq(C)) /\ Len(EscapedParts(x)) = Len(x)
           /\ Escaped(x) = FlattenSeq(EscapedParts(x))
           /\ Escaped(x) \in Seq(C)
  <1> DEFINE D == {"quote", "backslash", "newline", "tab", "return"}
  <1>1. /\ DOMAIN Escape = D /\ Escape["quote"] = "quote" /\ Escape["backslash"] = "backslash"
        /\ Escape["newline"] = "n" /\ Escape["tab"] = "t" /\ Escape["return"] = "r"
    BY DEF Escape
  <1>2. \A c \in DOMAIN Escape : Escape[c] \in C
    BY <1>1 DEF Marks
  <1>3. \A i \in 1..Len(x) : x[i] \in C
    OBVIOUS
  <1>4. "backslash" \in C
    BY DEF Marks
  <1>5. ASSUME NEW i \in 1..Len(x)
        PROVE  (IF x[i] \in DOMAIN Escape THEN <<"backslash", Escape[x[i]]>>
                ELSE <<x[i]>>) \in Seq(C)
    <2>1. \A a, b \in C : <<a, b>> \in Seq(C) /\ <<a>> \in Seq(C)
      OBVIOUS
    <2> QED
      BY <1>2, <1>3, <1>4, <2>1
  <1>6. DOMAIN x = 1..Len(x) /\ Len(x) \in Nat
    OBVIOUS
  <1>7. EscapedParts(x) \in [1..Len(x) -> Seq(C)]
    BY <1>5, <1>6 DEF EscapedParts
  <1>8. EscapedParts(x) \in Seq(Seq(C)) /\ Len(EscapedParts(x)) = Len(x)
    BY <1>6, <1>7, Table
  <1>9. Escaped(x) = FlattenSeq(EscapedParts(x))
    BY DEF Escaped, EscapedParts
  <1> QED
    BY <1>8, <1>9, Flattened

\* A text that was escaped is read back, up to the quote that ends it.
LEMMA EscapedReads ==
    ASSUME NEW C, Marks \subseteq C, NEW s \in Seq(C), NEW p \in Places,
           NEW x \in Seq(C), \A i \in 1..Len(x) : x[i] # "nul",
           Stands(s, p, Escaped(x)), Peek(s, p + Len(Escaped(x))) = "quote"
    PROVE  Body(s)[p] = Read(x, p + Len(Escaped(x)) + 1)
  <1> DEFINE L == Len(x)
             parts == EscapedParts(x)
             z == Len(Escaped(x))
  <1>1. L \in Nat /\ Len(parts) = L /\ parts \in Seq(Seq(C)) /\ z \in Nat /\ p \in Nat
    BY EscapedPartsType DEF Places
  <1>2. PICK off \in [Nat -> Nat] :
            /\ off[0] = 0 /\ off[L] = z
            /\ \A i \in Nat : i < L => off[i + 1] = off[i] + Len(parts[i + 1])
            /\ \A i \in Nat : i < L => Stands(s, p + off[i], parts[i + 1])
    BY <1>1, Flattened, EscapedPartsType
  <1> HIDE DEF L, parts, z
  <1> DEFINE e == p + z + 1
             M == {k \in Nat : \A i \in Nat : i + k = L =>
                                   Body(s)[p + off[i]] = Read(Rest(x, i), e)}
  <1>3. e \in Places
    BY <1>1 DEF Places
  <1>4. 0 \in M
    <2>1. Body(s)[p + z] = Read(<<>>, e)
      <3>1. p + z \in Places
        BY <1>1 DEF Places
      <3>2. Peek(s, p + z) = "quote"
        BY DEF z
      <3> QED
        BY <3>1, <3>2, BodyStep
    <2>2. Rest(x, L) = <<>> /\ \A i \in Nat : i + 0 = L => i = L
      BY <1>1, RestIs DEF L
    <2> HIDE DEF e
    <2> QED
      BY <2>1, <2>2, <1>2
  <1>5. ASSUME NEW k \in Nat, k \in M PROVE k + 1 \in M
    <2> SUFFICES ASSUME NEW i \in Nat, i + (k + 1) = L
                 PROVE  Body(s)[p + off[i]] = Read(Rest(x, i), e)
      OBVIOUS
    <2>1. i < L /\ (i + 1) + k = L /\ i + 1 \in 1..L /\ i + 1 \in Nat
      BY <1>1
    <2>3. /\ Body(s)[p + off[i + 1]] = Read(Rest(x, i + 1), e)
          /\ Rest(x, i) = <<x[i + 1]>> \o Rest(x, i + 1)
      BY <1>5, <2>1, RestIs DEF L
    <2> HIDE DEF M, e
    <2> DEFINE c == x[i + 1]
               q == p + off[i]
    <2>2. c \in C /\ c # "nul"
      <3>1. i + 1 \in 1..Len(x)
        BY <2>1 DEF L
      <3>2. x[i + 1] \in C
        BY <3>1, Entries
      <3> QED
        BY <3>1, <3>2
    <2>11. Rest(x, i) = <<c>> \o Rest(x, i + 1)
      BY <2>3
    <2>10. Stands(s, q, parts[i + 1]) /\ off[i + 1] = off[i] + Len(parts[i + 1])
      BY <2>1, <1>2
    <2>4. q \in Nat /\ q \in Places /\ off[i] \in Nat
      <3>1. off[i] \in Nat
        OBVIOUS
      <3> QED
        BY <3>1, Further
    <2>6. parts[i + 1] = IF c \in DOMAIN Escape THEN <<"backslash", Escape[c]>> ELSE <<c>>
      <3>1. \A j \in DOMAIN x :
                parts[j] = IF x[j] \in DOMAIN Escape THEN <<"backslash", Escape[x[j]]>>
                           ELSE <<x[j]>>
        BY DEF EscapedParts, parts
      <3>2. DOMAIN x = 1..L
        BY DEF L
      <3> QED
        BY <2>1, <3>1, <3>2
    <2>9. \A m \in Nat : Len(parts[i + 1]) = m => q + m = p + off[i + 1]
      BY <1>1, <2>10, <2>4
    <2> HIDE DEF c, q
    <2>7. CASE c \in DOMAIN Escape
      <3>1. Peek(s, q) = "backslash" /\ Peek(s, q + 1) = Escape[c]
        <4>1. Stands(s, q, <<"backslash", Escape[c]>>)
          BY <2>10, <2>6, <2>7
        <4>2. 1 \in 1..2 /\ 2 \in 1..2 /\ q + (1 - 1) = q /\ q + (2 - 1) = q + 1
          BY <2>4
        <4> QED
          BY <4>1, <4>2 DEF Stands
      <3>2. Body(s)[q] = Before(Unescaped(Peek(s, q + 1)), Body(s)[q + 2])
        BY <3>1, <2>4, BodyStep
      <3>3. Unescaped(Peek(s, q + 1)) = c
        BY <3>1, <2>7, EscapesUndone
      <3>4. q + 2 = p + off[i + 1]
        <4>1. Len(parts[i + 1]) = 2
          BY <2>6, <2>7
        <4> QED
          BY <4>1, <2>9
      <3>5. Body(s)[q] = Read(Rest(x, i), e)
        <4>1. Body(s)[q] = Before(c, Read(Rest(x, i + 1), e))
          BY <2>3, <3>2, <3>3, <3>4 DEF c
        <4> QED
          BY <4>1, <2>11, <1>3, BeforeRead
      <3> QED
        BY <3>5 DEF q
    <2>8. CASE c \notin DOMAIN Escape
      <3>1. Peek(s, q) = c
        BY <2>10, <2>4, <2>6, <2>8, StandsOne
      <3>2. c # "quote" /\ c # "backslash"
        BY <2>8 DEF Escape
      <3>3. Body(s)[q] = Before(c, Body(s)[q + 1])
        BY <3>1, <3>2, <2>2, <2>4, BodyStep
      <3>4. q + 1 = p + off[i + 1]
        <4>1. Len(parts[i + 1]) = 1
          BY <2>6, <2>8
        <4> QED
          BY <4>1, <2>9
      <3>5. Body(s)[q] = Read(Rest(x, i), e)
        <4>1. Body(s)[q] = Before(c, Read(Rest(x, i + 1), e))
          BY <2>3, <3>3, <3>4 DEF c
        <4> QED
          BY <4>1, <2>11, <1>3, BeforeRead
      <3> QED
        BY <3>5 DEF q
    <2> QED
      BY <2>7, <2>8
  <1>6. \A k \in Nat : k \in M
    <2> HIDE DEF M
    <2> QED
      BY <1>4, <1>5, SetInduction
  <1>7. 0 + L = L /\ p + off[0] = p
    BY <1>1, <1>2
  <1>8. Body(s)[p + off[0]] = Read(Rest(x, 0), e)
    <2> HIDE DEF e
    <2> QED
      BY <1>6, <1>7, <1>1
  <1>9. Rest(x, 0) = x
    BY RestIs
  <1>10. Body(s)[p] = Read(x, e)
    <2> HIDE DEF e
    <2> QED
      BY <1>7, <1>8, <1>9
  <1> QED
    BY <1>10 DEF z

\* A string that dump_string wrote is read back by parse_string, whatever
\* stands before and after it (json.hpp:97-115, 244-271).
THEOREM StringReads ==
    ASSUME NEW C, Marks \subseteq C, NEW s \in Seq(C), NEW p \in Places,
           NEW x \in Seq(C), \A i \in 1..Len(x) : x[i] # "nul",
           Stands(s, p, DumpString(x))
    PROVE  /\ ParseString(s, p) = Read(x, p + Len(DumpString(x)))
           /\ Peek(s, p) = "quote"
  <1> DEFINE b == Escaped(x)
             o == <<"quote">>
  <1>1. b \in Seq(C) /\ o \in Seq(C) /\ p \in Nat /\ Len(o) = 1 /\ Len(b) \in Nat
    BY EscapedPartsType DEF Places, Marks
  <1>2. DumpString(x) = (o \o b) \o o
    BY DEF DumpString
  <1>3. Stands(s, p, (o \o b) \o o)
    BY <1>2
  <1> HIDE DEF b, o
  <1>4. o \o b \in Seq(C) /\ Len(o \o b) = 1 + Len(b) /\ Len((o \o b) \o o) = 2 + Len(b)
    <2>1. o \o b \in Seq(C) /\ Len(o \o b) = 1 + Len(b)
      <3>1. o \o b \in Seq(C) /\ Len(o \o b) = Len(o) + Len(b)
        BY <1>1, Joined
      <3> QED
        BY <3>1, <1>1
    <2>2. Len((o \o b) \o o) = Len(o \o b) + Len(o)
      BY <1>1, <2>1, Joined
    <2> QED
      BY <1>1, <2>1, <2>2
  <1>5. Stands(s, p, o \o b) /\ Stands(s, p + (1 + Len(b)), o)
    BY <1>1, <1>3, <1>4, StandsJoined
  <1>6. Stands(s, p, o) /\ Stands(s, p + 1, b)
    BY <1>1, <1>5, StandsJoined
  <1>7. Peek(s, p) = "quote"
    BY <1>1, <1>6, StandsOne DEF o
  <1>8. p + 1 \in Places /\ p + (1 + Len(b)) = (p + 1) + Len(b) /\ p + (1 + Len(b)) \in Nat
    BY <1>1 DEF Places
  <1>9. Peek(s, (p + 1) + Len(b)) = "quote"
    BY <1>5, <1>8, StandsOne DEF o
  <1>10. Body(s)[p + 1] = Read(x, (p + 1) + Len(b) + 1)
    BY <1>6, <1>8, <1>9, EscapedReads DEF b
  <1>11. (p + 1) + Len(b) + 1 = p + Len(DumpString(x))
    BY <1>1, <1>2, <1>4
  <1> QED
    BY <1>7, <1>10, <1>11 DEF ParseString

\* The last figure of a number and the figures before it.
LEMMA TenDivides ==
    ASSUME NEW n \in Nat
    PROVE  n \div 10 \in Nat /\ n % 10 \in 0..9 /\ n = 10 * (n \div 10) + (n % 10)
           /\ (n >= 10 => n \div 10 < n)
  OBVIOUS

\* The recursive definition of the figures of a number defines them.
LEMMA DecimalIs ==
    \E d : /\ \A n \in Nat : Decimal(n) = d[n]
           /\ \A n \in Nat : d[n] = IF n < 10 THEN <<Figures[n + 1]>>
                                    ELSE d[n \div 10] \o <<Figures[(n % 10) + 1]>>
  <1> DEFINE S == Nat
             A == Seq(FigureSet)
             Final(m) == Figures[(m % 10) + 1]
             Stop == 0..9
             measure == [m \in S |-> m]
             value == [m \in S |-> <<Figures[(m % 10) + 1]>>]
             next == [m \in S |-> m \div 10]
             F == [m \in S |-> [t \in A |-> t \o <<Final(m)>>]]
             Is(f) == f = [m \in Nat |-> IF m < 10 THEN <<Figures[m + 1]>>
                                         ELSE f[m \div 10] \o <<Figures[(m % 10) + 1]>>]
  <1>1. \A m \in S : Final(m) \in FigureSet /\ <<Final(m)>> \in A
    <2>1. \A m \in S : Final(m) \in FigureSet
      BY TenDivides, FiguresAre
    <2>2. \A c \in FigureSet : <<c>> \in A
      OBVIOUS
    <2> HIDE DEF A, Final
    <2> QED
      BY <2>1, <2>2
  <1>2. value \in [S -> A]
    BY <1>1
  <1>3. F \in [S -> [A -> A]]
    <2>1. \A t \in A, m \in S : t \o <<Final(m)>> \in A
      <3>1. \A t, u \in A : t \o u \in A
        BY Joined
      <3> HIDE DEF A, Final
      <3> QED
        BY <1>1, <3>1
    <2> HIDE DEF A, Final
    <2> QED
      BY <2>1
  <1>4. next \in [S -> S] /\ measure \in [S -> Nat] /\ Stop \in SUBSET S
    BY TenDivides
  <1>5. \A m \in S \ Stop : measure[next[m]] < measure[m]
    <2> SUFFICES ASSUME NEW m \in Nat, m \notin 0..9 PROVE measure[next[m]] < measure[m]
      OBVIOUS
    <2>1. m >= 10
      OBVIOUS
    <2>2. m \div 10 < m /\ m \div 10 \in Nat
      BY <2>1, TenDivides
    <2> QED
      BY <2>2
  <1>6. PICK f \in [S -> A] : Descends(f, S, Stop, value, next, F)
    <2> HIDE DEF S, A, Stop, measure, value, next, F
    <2> QED
      BY <1>2, <1>3, <1>4, <1>5, MeasuredRecursion
  <1>7. Is(f)
    <2>1. ASSUME NEW m \in Nat
          PROVE  f[m] = IF m < 10 THEN <<Figures[m + 1]>>
                        ELSE f[m \div 10] \o <<Figures[(m % 10) + 1]>>
      <3>1. f[m] = IF m \in Stop THEN value[m] ELSE F[m][f[next[m]]]
        BY <1>6 DEF Descends
      <3>2. CASE m < 10
        <4>1. m \in 0..9 /\ m % 10 = m
          BY <3>2
        <4> QED
          BY <3>1, <3>2, <4>1
      <3>3. CASE ~(m < 10)
        <4>1. m \notin Stop /\ m \div 10 \in S
          BY <3>3, TenDivides
        <4>2. f[m \div 10] \in A /\ next[m] = m \div 10
          BY <4>1
        <4>3. F[m][f[m \div 10]] = f[m \div 10] \o <<Final(m)>>
          BY <4>2
        <4> HIDE DEF F, A, Stop, value, next
        <4> QED
          BY <3>1, <3>3, <4>1, <4>2, <4>3
      <3> QED
        BY <3>2, <3>3
    <2>2. f = [m \in Nat |-> f[m]]
      BY <1>6
    <2> QED
      BY <2>1, <2>2
  <1> DEFINE d == CHOOSE g : Is(g)
  <1>8. Is(d)
    <2> HIDE DEF Is
    <2> QED
      BY <1>7
  <1>9. \A n \in Nat : Decimal(n) = d[n]
    <2>1. \A n \in Nat : ~(n < 0)
      OBVIOUS
    <2> QED
      BY <2>1 DEF Decimal
  <1>10. \A n \in Nat : d[n] = IF n < 10 THEN <<Figures[n + 1]>>
                               ELSE d[n \div 10] \o <<Figures[(n % 10) + 1]>>
    <2> HIDE DEF d
    <2> QED
      BY <1>8
  <1> HIDE DEF d, Is
  <1> QED
    BY <1>9, <1>10

\* The figures of a number, and what is counted where they stand.
LEMMA DecimalCounts ==
    \A n \in Nat :
        /\ Decimal(n) \in Seq(FigureSet) /\ Len(Decimal(n)) \in Nat \ {0}
        /\ \A s, p : p \in Nat /\ Stands(s, p, Decimal(n)) =>
              Counted(s, p)[Len(Decimal(n))] = n
  <1>1. PICK d : /\ \A n \in Nat : Decimal(n) = d[n]
                 /\ \A n \in Nat : d[n] = IF n < 10 THEN <<Figures[n + 1]>>
                                          ELSE d[n \div 10] \o <<Figures[(n % 10) + 1]>>
    BY DecimalIs
  <1> DEFINE Right(n) == /\ d[n] \in Seq(FigureSet) /\ Len(d[n]) \in Nat \ {0}
                         /\ \A s, p : p \in Nat /\ Stands(s, p, d[n]) =>
                               Counted(s, p)[Len(d[n])] = n
             M == {n \in Nat : Right(n)}
             measure == [n \in Nat |-> n]
  <1>2. ASSUME NEW s, NEW p \in Nat, NEW k \in Nat, NEW v \in 0..9,
               Peek(s, p + k) = Figures[v + 1]
        PROVE  Counted(s, p)[k + 1] = 10 * Counted(s, p)[k] + v
    <2>1. Figures[v + 1] \in DOMAIN FigureValue /\ FigureValue[Figures[v + 1]] = v
      BY FiguresAre
    <2> QED
      BY <1>2, <2>1, CountedRuns
  <1>3. ASSUME NEW n \in Nat, \A m \in Nat : m < n => m \in M
        PROVE  n \in M
    <2>1. CASE n < 10
      <3>1. n \in 0..9
        BY <2>1
      <3>2. d[n] = <<Figures[n + 1]>> /\ Figures[n + 1] \in FigureSet
        BY <1>1, <2>1, <3>1, FiguresAre
      <3>3. d[n] \in Seq(FigureSet) /\ Len(d[n]) = 1
        BY <3>2
      <3>4. ASSUME NEW s, NEW p \in Nat, Stands(s, p, d[n]) PROVE Counted(s, p)[1] = n
        <4>1. Peek(s, p) = Figures[n + 1]
          BY <3>2, <3>4, StandsOne
        <4>2. p + 0 = p /\ 0 + 1 = 1
          OBVIOUS
        <4>3. Counted(s, p)[0 + 1] = 10 * Counted(s, p)[0] + n
          BY <1>2, <3>1, <4>1, <4>2
        <4>4. Counted(s, p)[0] = 0
          BY CountedRuns
        <4> QED
          BY <4>2, <4>3, <4>4
      <3>5. Right(n)
        <4>1. Len(d[n]) \in Nat \ {0}
          BY <3>3
        <4>2. \A s, p : p \in Nat /\ Stands(s, p, d[n]) => Counted(s, p)[Len(d[n])] = n
          BY <3>3, <3>4
        <4> QED
          BY <3>3, <4>1, <4>2
      <3> HIDE DEF Right
      <3> QED
        BY <3>5
    <2>2. CASE ~(n < 10)
      <3> DEFINE h == n \div 10
                 v == n % 10
                 c == Figures[v + 1]
                 u == d[h]
                 k == Len(u)
      <3>1. h \in Nat /\ v \in 0..9 /\ n = 10 * h + v /\ h < n
        BY <2>2, TenDivides
      <3>2. d[n] = u \o <<c>> /\ c \in FigureSet
        BY <1>1, <2>2, <3>1, FiguresAre
      <3>3. Right(h)
        <4> HIDE DEF h
        <4> QED
          BY <1>3, <3>1
      <3>4. /\ u \in Seq(FigureSet) /\ k \in Nat \ {0}
            /\ \A s, p : p \in Nat /\ Stands(s, p, u) => Counted(s, p)[k] = h
        BY <3>3
      <3> HIDE DEF Right
      <3>5. <<c>> \in Seq(FigureSet) /\ Len(<<c>>) = 1
        <4> HIDE DEF c
        <4> QED
          BY <3>2
      <3> HIDE DEF h, v, c, u, k
      <3>6. d[n] \in Seq(FigureSet) /\ Len(d[n]) = k + 1
        BY <3>2, <3>4, <3>5, Joined DEF k
      <3>7. ASSUME NEW s, NEW p \in Nat, Stands(s, p, d[n])
            PROVE  Counted(s, p)[k + 1] = n
        <4>1. Stands(s, p, u) /\ Stands(s, p + k, <<c>>)
          BY <3>2, <3>4, <3>5, <3>7, StandsJoined DEF k
        <4>2. Peek(s, p + k) = c
          <5>1. p + k \in Nat
            BY <3>4
          <5> QED
            BY <5>1, <4>1, StandsOne
        <4>5. Peek(s, p + k) = Figures[v + 1]
          BY <4>2 DEF c
        <4>6. k \in Nat
          BY <3>4
        <4>3. Counted(s, p)[k + 1] = 10 * Counted(s, p)[k] + v
          BY <1>2, <3>1, <4>5, <4>6
        <4> QED
          BY <3>1, <3>4, <4>1, <4>3
      <3>8. k + 1 \in Nat \ {0}
        BY <3>4
      <3> QED
        BY <3>6, <3>7, <3>8 DEF Right
    <2> QED
      BY <2>1, <2>2
  <1>4. \A n \in Nat : n \in M
    <2>1. measure \in [Nat -> Nat] /\ \A n \in Nat : measure[n] = n
      OBVIOUS
    <2>2. ASSUME NEW n \in Nat, \A m \in Nat : measure[m] < measure[n] => m \in M
          PROVE  n \in M
      <3>1. \A m \in Nat : m < n => m \in M
        <4> HIDE DEF M, measure
        <4> QED
          BY <2>1, <2>2
      <3> HIDE DEF M
      <3> QED
        BY <1>3, <3>1
    <2> HIDE DEF M, measure
    <2> QED
      BY <2>1, <2>2, MeasuredInduction
  <1>5. \A n \in Nat : Right(n)
    <2> HIDE DEF Right
    <2> QED
      BY <1>4
  <1>6. ASSUME NEW n \in Nat, Right(n), Decimal(n) = d[n]
        PROVE  /\ Decimal(n) \in Seq(FigureSet) /\ Len(Decimal(n)) \in Nat \ {0}
               /\ \A s, p : p \in Nat /\ Stands(s, p, Decimal(n)) =>
                     Counted(s, p)[Len(Decimal(n))] = n
    BY <1>6
  <1> HIDE DEF Right
  <1> QED
    BY <1>1, <1>5, <1>6

\* A natural number that dump wrote is read back by parse_int, unless more
\* figures follow (json.hpp:123-124, 282-290).
THEOREM DecimalReads ==
    ASSUME NEW C, NEW s \in Seq(C), NEW p \in Places, NEW n \in Nat,
           Stands(s, p, Decimal(n)),
           Peek(s, p + Len(Decimal(n))) \notin DOMAIN FigureValue
    PROVE  /\ ParseInt(s, p) = Read(IntOf(n), p + Len(Decimal(n)))
           /\ Peek(s, p) \in FigureSet
  <1> DEFINE u == Decimal(n)
             k == Len(u)
             figures == DOMAIN FigureValue
  <1>1. u \in Seq(FigureSet) /\ k \in Nat \ {0} /\ p \in Nat /\ figures = FigureSet
    BY DecimalCounts, FiguresAre DEF Places
  <1>2. Counted(s, p)[k] = n
    BY <1>1, DecimalCounts
  <1>3. Peek(s, p + k) \notin figures
    OBVIOUS
  <1>4. Stands(s, p, u)
    OBVIOUS
  <1> HIDE DEF u, k, figures
  <1>5. \A i \in 1..k : Peek(s, p + (i - 1)) \in figures
    <2> SUFFICES ASSUME NEW i \in 1..k PROVE Peek(s, p + (i - 1)) \in figures
      OBVIOUS
    <2>1. Peek(s, p + (i - 1)) = u[i]
      BY <1>4 DEF Stands, k
    <2>2. u[i] \in FigureSet
      BY <1>1, Entries DEF k
    <2> QED
      BY <1>1, <2>1, <2>2
  <1>6. \A i \in p..(p + k - 1) : Peek(s, i) \in figures
    <2> SUFFICES ASSUME NEW i \in p..(p + k - 1) PROVE Peek(s, i) \in figures
      OBVIOUS
    <2>1. i - p + 1 \in 1..k /\ p + ((i - p + 1) - 1) = i
      BY <1>1
    <2> QED
      BY <1>5, <2>1
  <1>7. p + k \in Places /\ p <= p + k
    <2>1. k \in Nat
      BY <1>1
    <2> QED
      BY <2>1, Further
  <1>8. Past(s, p, figures) = p + k
    <2>1. "nul" \notin figures
      BY NulIsNoFigure DEF figures
    <2> DEFINE q == p + k
    <2>2. q \in Places /\ p <= q /\ Peek(s, q) \notin figures
          /\ \A i \in p..(q - 1) : Peek(s, i) \in figures
      BY <1>1, <1>3, <1>6, <1>7
    <2> HIDE DEF q
    <2>3. Past(s, p, figures) = q
      BY <2>1, <2>2, PastIsAt
    <2> QED
      BY <2>3 DEF q
  <1>9. Peek(s, p) \in FigureSet
    <2>1. 1 \in 1..k /\ p + (1 - 1) = p
      BY <1>1
    <2> QED
      BY <1>1, <1>5, <2>1
  <1>10. Peek(s, p) # "-"
    BY <1>9 DEF FigureSet
  <1>11. (p + k) - p = k
    BY <1>1
  <1>12. ParseInt(s, p) = Read(IntOf(n), p + k)
    BY <1>2, <1>8, <1>10, <1>11 DEF ParseInt, figures
  <1> QED
    BY <1>9, <1>12 DEF k, u

Lists(C) == Seq(Seq(C))

ListedParts(parts) ==
    [i \in DOMAIN parts |-> IF i = 1 THEN parts[i] ELSE <<"comma">> \o parts[i]]

\* A list is written part by part.
LEMMA ListedPartsType ==
    ASSUME NEW C, "comma" \in C, NEW parts \in Lists(C)
    PROVE  /\ ListedParts(parts) \in Lists(C) /\ Len(ListedParts(parts)) = Len(parts)
           /\ Listed(parts) = FlattenSeq(ListedParts(parts))
           /\ Listed(parts) \in Seq(C)
           /\ Len(parts) \in Nat
           /\ \A i \in 1..Len(parts) :
                 /\ parts[i] \in Seq(C) /\ Len(parts[i]) \in Nat
                 /\ ListedParts(parts)[i] = IF i = 1 THEN parts[i] ELSE <<"comma">> \o parts[i]
  <1>1. DOMAIN parts = 1..Len(parts) /\ Len(parts) \in Nat
    BY DEF Lists
  <1>2. \A i \in 1..Len(parts) : parts[i] \in Seq(C)
    BY Entries DEF Lists
  <1>3. <<"comma">> \in Seq(C) /\ \A u \in Seq(C) : Len(u) \in Nat
    OBVIOUS
  <1>4. \A i \in 1..Len(parts) :
            (IF i = 1 THEN parts[i] ELSE <<"comma">> \o parts[i]) \in Seq(C)
    BY <1>2, <1>3, Joined
  <1>5. ListedParts(parts) \in [1..Len(parts) -> Seq(C)]
    BY <1>1, <1>4 DEF ListedParts
  <1>6. ListedParts(parts) \in Lists(C) /\ Len(ListedParts(parts)) = Len(parts)
    BY <1>1, <1>5, Table DEF Lists
  <1>7. Listed(parts) = FlattenSeq(ListedParts(parts))
    BY DEF Listed, ListedParts
  <1>8. Listed(parts) \in Seq(C)
    BY <1>6, <1>7, Flattened DEF Lists
  <1>9. \A i \in 1..Len(parts) :
           ListedParts(parts)[i] = IF i = 1 THEN parts[i] ELSE <<"comma">> \o parts[i]
    BY <1>1 DEF ListedParts
  <1> QED
    BY <1>1, <1>2, <1>3, <1>6, <1>7, <1>8, <1>9

\* The parts of a list stand at their places from p on, with commas between them.
Laid(parts, place, s, p) ==
    \A i \in Nat : i < Len(parts) =>
        /\ Stands(s, p + place[i], parts[i + 1])
        /\ i + 1 < Len(parts) => Peek(s, p + (place[i] + Len(parts[i + 1]))) = "comma"

\* Where the parts of a list stand, and the commas between them.
LEMMA ListLaid ==
    ASSUME NEW C, "comma" \in C, NEW parts \in Lists(C), Len(parts) # 0
    PROVE  \E place \in [Nat -> Nat] :
              /\ place[0] = 0
              /\ \A i \in Nat : i + 1 = Len(parts) =>
                    place[i] + Len(parts[i + 1]) = Len(Listed(parts))
              /\ \A i \in Nat : i + 1 < Len(parts) =>
                    place[i + 1] = (place[i] + Len(parts[i + 1])) + 1
              /\ \A s, p : p \in Nat /\ Stands(s, p, Listed(parts)) =>
                    Laid(parts, place, s, p)
  <1> DEFINE L == Len(parts)
             laid == ListedParts(parts)
             z == Len(Listed(parts))
             c == <<"comma">>
  <1>1. /\ L \in Nat /\ L # 0 /\ Len(laid) = L /\ laid \in Lists(C)
        /\ Listed(parts) = FlattenSeq(laid)
    BY ListedPartsType
  <1>2. ASSUME NEW i \in Nat, i < L
        PROVE  /\ parts[i + 1] \in Seq(C) /\ Len(parts[i + 1]) \in Nat
               /\ laid[i + 1] = IF i = 0 THEN parts[i + 1] ELSE c \o parts[i + 1]
    <2>1. i + 1 \in 1..L /\ (i + 1 = 1 <=> i = 0)
      BY <1>1, <1>2
    <2> QED
      BY <2>1, ListedPartsType
  <1>3. PICK off \in [Nat -> Nat] :
            /\ off[0] = 0 /\ off[L] = z
            /\ \A i \in Nat : i < L => off[i + 1] = off[i] + Len(laid[i + 1])
            /\ \A s, p : p \in Nat /\ Stands(s, p, Listed(parts)) =>
                  \A i \in Nat : i < L => Stands(s, p + off[i], laid[i + 1])
    BY <1>1, Flattened DEF Lists
  <1>4. c \in Seq(C) /\ Len(c) = 1
    OBVIOUS
  <1> HIDE DEF L, laid, z, c
  <1> DEFINE place == [i \in Nat |-> IF i = 0 THEN 0 ELSE off[i] + 1]
  <1>5. place \in [Nat -> Nat] /\ place[0] = 0
    OBVIOUS
  <1>6. ASSUME NEW i \in Nat, i < L
        PROVE  place[i] + Len(parts[i + 1]) = off[i + 1]
    <2>1. off[i + 1] = off[i] + Len(laid[i + 1]) /\ off[i] \in Nat
      BY <1>3, <1>6
    <2>5. place[i] = IF i = 0 THEN 0 ELSE off[i] + 1
      OBVIOUS
    <2> HIDE DEF place
    <2>2. CASE i = 0
      <3>1. Len(laid[i + 1]) = Len(parts[i + 1]) /\ place[i] = 0 /\ off[i] = 0
            /\ Len(parts[i + 1]) \in Nat
        BY <1>2, <1>3, <1>6, <2>2, <2>5
      <3> QED
        BY <2>1, <3>1
    <2>3. CASE i # 0
      <3>1. Len(laid[i + 1]) = 1 + Len(parts[i + 1]) /\ Len(parts[i + 1]) \in Nat
        <4>1. laid[i + 1] = c \o parts[i + 1] /\ parts[i + 1] \in Seq(C)
              /\ Len(parts[i + 1]) \in Nat
          BY <1>2, <1>6, <2>3
        <4> DEFINE u == parts[i + 1]
        <4>2. u \in Seq(C)
          BY <4>1
        <4> HIDE DEF u
        <4>3. Len(c \o u) = Len(c) + Len(u)
          BY <1>4, <4>2, Joined
        <4>4. Len(c \o u) = 1 + Len(u)
          BY <1>4, <4>3
        <4> QED
          BY <4>1, <4>4 DEF u
      <3>2. place[i] = off[i] + 1
        BY <2>3, <2>5
      <3> DEFINE n == Len(parts[i + 1])
                 k == off[i]
                 j == off[i + 1]
      <3>3. n \in Nat /\ k \in Nat /\ j = k + (1 + n) /\ place[i] = k + 1
        BY <2>1, <3>1, <3>2
      <3> HIDE DEF n, k, j
      <3>4. place[i] + n = j
        BY <3>3
      <3> QED
        BY <3>4 DEF n, j
    <2> QED
      BY <2>2, <2>3
  <1>7. \A i \in Nat : i + 1 = L => place[i] + Len(parts[i + 1]) = z
    <2> SUFFICES ASSUME NEW i \in Nat, i + 1 = L PROVE place[i] + Len(parts[i + 1]) = z
      OBVIOUS
    <2>1. i < L
      OBVIOUS
    <2> HIDE DEF place
    <2> QED
      BY <1>3, <1>6, <2>1
  <1>8. \A i \in Nat : i + 1 < L => place[i + 1] = (place[i] + Len(parts[i + 1])) + 1
    <2> SUFFICES ASSUME NEW i \in Nat, i + 1 < L
                 PROVE  place[i + 1] = (place[i] + Len(parts[i + 1])) + 1
      OBVIOUS
    <2>1. i < L
      BY <1>1
    <2>2. place[i + 1] = off[i + 1] + 1
      OBVIOUS
    <2> HIDE DEF place
    <2> QED
      BY <1>6, <2>1, <2>2
  <1>9. ASSUME NEW s, NEW p \in Nat, Stands(s, p, Listed(parts)),
               NEW i \in Nat, i < L
        PROVE  /\ Stands(s, p + place[i], parts[i + 1])
               /\ i # 0 => Peek(s, p + off[i]) = "comma"
    <2>1. Stands(s, p + off[i], laid[i + 1]) /\ p + off[i] \in Nat
      <3>1. off[i] \in Nat
        OBVIOUS
      <3>2. p + off[i] \in Nat
        BY <3>1
      <3> HIDE DEF place
      <3> QED
        BY <1>3, <1>9, <3>2
    <2>2. CASE i = 0
      <3>1. laid[i + 1] = parts[i + 1] /\ place[i] = off[i]
        BY <1>2, <1>3, <1>9, <2>2
      <3> HIDE DEF place
      <3> QED
        BY <2>1, <2>2, <3>1
    <2>3. CASE i # 0
      <3>1. laid[i + 1] = c \o parts[i + 1] /\ parts[i + 1] \in Seq(C)
        BY <1>2, <1>9, <2>3
      <3>2. p + place[i] = (p + off[i]) + 1
        BY <2>3
      <3>3. Stands(s, p + off[i], c \o parts[i + 1])
        BY <2>1, <3>1
      <3> HIDE DEF place
      <3>4. Stands(s, p + off[i], c) /\ Stands(s, (p + off[i]) + 1, parts[i + 1])
        BY <1>4, <2>1, <3>1, <3>3, StandsJoined
      <3>5. Peek(s, p + off[i]) = "comma"
        BY <2>1, <3>4, StandsOne DEF c
      <3> QED
        BY <3>2, <3>4, <3>5
    <2> QED
      BY <2>2, <2>3
  <1> HIDE DEF place
  <1>10. ASSUME NEW s, NEW p \in Nat, Stands(s, p, Listed(parts)),
                NEW i \in Nat, i + 1 < L
         PROVE  Peek(s, p + (place[i] + Len(parts[i + 1]))) = "comma"
    <2>1. i < L /\ i + 1 \in Nat /\ i + 1 # 0
      BY <1>1, <1>10
    <2> QED
      BY <1>6, <1>9, <1>10, <2>1
  <1>11. ASSUME NEW s, NEW p \in Nat, Stands(s, p, Listed(parts))
         PROVE  Laid(parts, place, s, p)
    BY <1>9, <1>10, <1>11 DEF Laid, L
  <1> QED
    BY <1>5, <1>7, <1>8, <1>11 DEF L, z

\* item reads each part as its value, where a comma or the bracket follows.
Reads(s, item, parts, vals, close) ==
    \A i \in Nat : i < Len(parts) =>
        \A q \in Places :
            Stands(s, q, parts[i + 1])
                /\ Peek(s, q + Len(parts[i + 1])) \in {"comma", close} =>
            item[q] = Read(vals[i + 1], q + Len(parts[i + 1]))

\* What is read after an item goes by what stands at its end.
GoesOn(s, item, close, read) ==
    \A q, e \in Places : \A v : item[q] = Read(v, e) =>
        /\ Peek(s, e) = close => read[q] = Read(<<v>>, e + 1)
        /\ Peek(s, e) = "comma" => read[q] = Before(v, read[e + 1])

\* One pass of the loops of parse_object and parse_array.
LEMMA ItemReads ==
    ASSUME NEW C, NEW s \in Seq(C), NEW item, Forward(item),
           NEW close, close \notin {"comma", "nul"} \union White
    PROVE  GoesOn(s, item, close, Items(s, item, close))
  <1> SUFFICES ASSUME NEW q \in Places, NEW e \in Places, NEW v, item[q] = Read(v, e)
               PROVE  /\ Peek(s, e) = close =>
                            Items(s, item, close)[q] = Read(<<v>>, e + 1)
                      /\ Peek(s, e) = "comma" =>
                            Items(s, item, close)[q]
                                = Before(v, Items(s, item, close)[e + 1])
    BY DEF GoesOn
  <1> DEFINE r == item[q]
             read == Items(s, item, close)
  <1>1. read[q] = IF Failed(r) THEN Fails
                  ELSE CASE Peek(s, Skip(s, r.at)) = close ->
                                Read(<<r.value>>, Skip(s, r.at) + 1)
                         [] Peek(s, Skip(s, r.at)) = "comma" ->
                                Before(r.value, read[Skip(s, r.at) + 1])
                         [] OTHER -> Fails
    BY ItemsStep
  <1>2. ~Failed(r) /\ r.value = v /\ r.at = e
    BY DEF Failed, Read, Places
  <1>3. ASSUME Peek(s, e) \in {"comma", close} PROVE Skip(s, e) = e
    <2>1. Peek(s, e) \notin White
      BY <1>3 DEF White
    <2> QED
      BY <2>1, SkipStays
  <1> HIDE DEF r, read
  <1> QED
    BY <1>1, <1>2, <1>3 DEF read

\* The rests of a list of L values, from the whole of it down to nothing.
LEMMA RestsOf ==
    ASSUME NEW V, NEW vals \in Seq(V), NEW L, L = Len(vals)
    PROVE  /\ Rest(vals, L) = <<>> /\ Rest(vals, 0) = vals
           /\ \A i \in Nat : i < L => <<vals[i + 1]>> \o Rest(vals, i + 1) = Rest(vals, i)
  <1>1. /\ Rest(vals, 0) = vals /\ Rest(vals, Len(vals)) = <<>>
        /\ \A i \in Nat : i < Len(vals) =>
              /\ Rest(vals, i + 1) \in Seq(V)
              /\ <<vals[i + 1]>> \o Rest(vals, i + 1) = Rest(vals, i)
    BY RestIs
  <1> QED
    BY <1>1, Zenon

\* Where each part is read back as a value, the list of them is read back as
\* the values, up to the bracket that ends it.
LEMMA ListReads ==
    ASSUME NEW C, "comma" \in C, NEW s \in Seq(C), NEW p \in Places,
           NEW parts \in Lists(C), NEW V, NEW vals \in Seq(V),
           Len(parts) = Len(vals), Len(parts) # 0,
           NEW item, Forward(item),
           NEW close, close \notin {"comma", "nul"} \union White,
           Reads(s, item, parts, vals, close),
           Stands(s, p, Listed(parts)), Peek(s, p + Len(Listed(parts))) = close
    PROVE  Items(s, item, close)[p] = Read(vals, p + Len(Listed(parts)) + 1)
  <1> DEFINE L == Len(parts)
             z == Len(Listed(parts))
             e == p + z + 1
             read == Items(s, item, close)
  <1>1. /\ L \in Nat /\ L # 0 /\ z \in Nat
        /\ \A i \in Nat : i < L => Len(parts[i + 1]) \in Nat
    <2>1. ASSUME NEW i \in Nat, i < Len(parts) PROVE Len(parts[i + 1]) \in Nat
      <3>1. i + 1 \in 1..Len(parts)
        BY <2>1
      <3> QED
        BY <3>1, ListedPartsType
    <2>2. Len(Listed(parts)) \in Nat
      <3>1. Listed(parts) \in Seq(C)
        BY ListedPartsType
      <3> QED
        BY <3>1
    <2> QED
      BY <2>1, <2>2
  <1> DEFINE Lies(off) ==
                 /\ off[0] = 0
                 /\ \A i \in Nat : i + 1 = L => off[i] + Len(parts[i + 1]) = z
                 /\ \A i \in Nat : i + 1 < L =>
                       off[i + 1] = (off[i] + Len(parts[i + 1])) + 1
                 /\ \A i \in Nat : i < L =>
                       /\ Stands(s, p + off[i], parts[i + 1])
                       /\ i + 1 < L => Peek(s, p + (off[i] + Len(parts[i + 1]))) = "comma"
  <1>2. PICK place \in [Nat -> Nat] : Lies(place)
    <2>1. p \in Nat /\ Stands(s, p, Listed(parts))
      BY DEF Places
    <2>2. PICK place \in [Nat -> Nat] :
              /\ place[0] = 0
              /\ \A i \in Nat : i + 1 = L => place[i] + Len(parts[i + 1]) = z
              /\ \A i \in Nat : i + 1 < L =>
                    place[i + 1] = (place[i] + Len(parts[i + 1])) + 1
              /\ \A t, q : q \in Nat /\ Stands(t, q, Listed(parts)) =>
                    Laid(parts, place, t, q)
      BY ListLaid
    <2> HIDE DEF L, z, e, read
    <2>3. \A i \in Nat : i < L =>
              /\ Stands(s, p + place[i], parts[i + 1])
              /\ i + 1 < L => Peek(s, p + (place[i] + Len(parts[i + 1]))) = "comma"
      <3>1. Laid(parts, place, s, p)
        BY <2>1, <2>2
      <3> QED
        BY <3>1 DEF Laid, L
    <2>4. Lies(place)
      BY <2>2, <2>3
    <2> HIDE DEF Lies
    <2> QED
      BY <2>4
  <1>3. Peek(s, p + z) = close
    OBVIOUS
  <1>4. Rest(vals, L) = <<>> /\ Rest(vals, 0) = vals
        /\ \A i \in Nat : i < L => <<vals[i + 1]>> \o Rest(vals, i + 1) = Rest(vals, i)
    <2>1. L = Len(vals)
      OBVIOUS
    <2> HIDE DEF L, z, e, read
    <2> QED
      BY <2>1, RestsOf
  <1>5. \A v : <<v>> \o <<>> = <<v>>
    OBVIOUS
  <1>6. e \in Places
    <2>1. z + 1 \in Nat /\ e = p + (z + 1)
      BY <1>1 DEF Places
    <2> QED
      BY <2>1, Further
  <1>16. GoesOn(s, item, close, read)
    BY ItemReads
  <1> HIDE DEF L, z, e, read
  <1>7. ASSUME NEW i \in Nat, i < L
        PROVE  read[p + place[i]] = IF i + 1 = L THEN Read(<<vals[i + 1]>>, e)
                                    ELSE Before(vals[i + 1], read[p + place[i + 1]])
    <2> DEFINE q == p + place[i]
               n == Len(parts[i + 1])
               end == q + n
    <2>1. q \in Places /\ n \in Nat /\ end \in Places /\ end = p + (place[i] + n)
      <3>1. place[i] \in Nat /\ n \in Nat
        BY <1>1, <1>7
      <3>2. q \in Places /\ p \in Nat
        BY <3>1, Further
      <3> HIDE DEF n
      <3>3. end = p + (place[i] + n)
        BY <3>1, <3>2
      <3> HIDE DEF q
      <3> QED
        BY <3>1, <3>2, <3>3, Further
    <2>2. Peek(s, end) = IF i + 1 = L THEN close ELSE "comma"
      <3>1. i + 1 = L \/ i + 1 < L
        BY <1>1, <1>7
      <3> HIDE DEF end
      <3> QED
        BY <1>2, <1>3, <1>7, <2>1, <3>1
    <2>3. Stands(s, q, parts[i + 1])
      BY <1>2, <1>7
    <2> HIDE DEF q, end
    <2>4. item[q] = Read(vals[i + 1], end)
      <3>1. Peek(s, q + Len(parts[i + 1])) \in {"comma", close}
        BY <2>2 DEF end
      <3> HIDE DEF n
      <3>2. item[q] = Read(vals[i + 1], q + Len(parts[i + 1]))
        BY <1>7, <2>1, <2>3, <3>1 DEF Reads, L
      <3> QED
        BY <3>2 DEF end, n
    <2> HIDE DEF n
    <2>5. CASE i + 1 = L
      <3>1. end + 1 = e
        BY <1>2, <2>1, <2>5 DEF e, n
      <3>2. read[q] = Read(<<vals[i + 1]>>, end + 1)
        <4> DEFINE v == vals[i + 1]
        <4>1. item[q] = Read(v, end) /\ Peek(s, end) = close
          BY <2>2, <2>4, <2>5
        <4> HIDE DEF v
        <4>2. read[q] = Read(<<v>>, end + 1)
          BY <1>16, <2>1, <4>1 DEF GoesOn
        <4> QED
          BY <4>2 DEF v
      <3> QED
        BY <2>5, <3>1, <3>2 DEF q
    <2>6. CASE i + 1 # L
      <3>1. end + 1 = p + place[i + 1]
        <4>1. i + 1 < L
          BY <1>1, <1>7, <2>6
        <4>2. place[i + 1] = (place[i] + n) + 1
          BY <1>2, <4>1 DEF n
        <4>3. p \in Nat /\ place[i] \in Nat
          BY Further
        <4> DEFINE m == place[i + 1]
                   k == place[i]
        <4>4. m = (k + n) + 1 /\ k \in Nat /\ end = p + (k + n)
          BY <2>1, <4>2, <4>3
        <4> HIDE DEF m, k
        <4>5. end + 1 = p + m
          BY <2>1, <4>3, <4>4
        <4> QED
          BY <4>5 DEF m
      <3>2. read[q] = Before(vals[i + 1], read[end + 1])
        <4> DEFINE v == vals[i + 1]
        <4>1. item[q] = Read(v, end) /\ Peek(s, end) = "comma"
          BY <2>2, <2>4, <2>6
        <4> HIDE DEF v
        <4>2. read[q] = Before(v, read[end + 1])
          BY <1>16, <2>1, <4>1 DEF GoesOn
        <4> QED
          BY <4>2 DEF v
      <3> QED
        BY <2>6, <3>1, <3>2 DEF q
    <2> QED
      BY <2>5, <2>6
  <1> DEFINE M == {k \in Nat : \A i \in Nat : (i + 1) + k = L =>
                                  read[p + place[i]] = Read(Rest(vals, i), e)}
  <1>8. 0 \in M
    <2>1. ASSUME NEW i \in Nat, i + 1 = L PROVE read[p + place[i]] = Read(Rest(vals, i), e)
      <3>1. i < L
        BY <1>1, <2>1
      <3>2. Rest(vals, i) = <<vals[i + 1]>>
        BY <1>4, <1>5, <2>1, <3>1
      <3> QED
        BY <1>7, <2>1, <3>1, <3>2
    <2>2. \A i \in Nat : (i + 1) + 0 = i + 1
      OBVIOUS
    <2> QED
      BY <2>1, <2>2
  <1>9. ASSUME NEW k \in Nat, k \in M PROVE k + 1 \in M
    <2>1. ASSUME NEW i \in Nat, (i + 1) + (k + 1) = L
          PROVE  read[p + place[i]] = Read(Rest(vals, i), e)
      <3>1. i < L /\ i + 1 # L /\ i + 1 \in Nat /\ ((i + 1) + 1) + k = L
        BY <1>1, <2>1
      <3>2. read[p + place[i + 1]] = Read(Rest(vals, i + 1), e)
        BY <1>9, <3>1
      <3> HIDE DEF M
      <3>3. read[p + place[i]] = Before(vals[i + 1], Read(Rest(vals, i + 1), e))
        BY <1>7, <3>1, <3>2
      <3>4. <<vals[i + 1]>> \o Rest(vals, i + 1) = Rest(vals, i)
        BY <1>4, <3>1
      <3>5. Before(vals[i + 1], Read(Rest(vals, i + 1), e))
                = Read(<<vals[i + 1]>> \o Rest(vals, i + 1), e)
        BY <1>6, BeforeRead
      <3> QED
        BY <3>3, <3>4, <3>5
    <2> QED
      BY <2>1
  <1>10. \A k \in Nat : k \in M
    <2> HIDE DEF M
    <2> QED
      BY <1>8, <1>9, SetInduction
  <1>11. L - 1 \in Nat /\ (0 + 1) + (L - 1) = L /\ p + place[0] = p
    <2>1. p + 0 = p
      BY DEF Places
    <2> QED
      BY <1>1, <1>2, <2>1
  <1>12. read[p] = Read(vals, e)
    <2>1. read[p + place[0]] = Read(Rest(vals, 0), e)
      BY <1>10, <1>11
    <2> QED
      BY <1>4, <1>11, <2>1
  <1> QED
    BY <1>12 DEF read, e, z

\* A text between two characters.
LEMMA Framed ==
    ASSUME NEW C, NEW open \in C, NEW close \in C, NEW b \in Seq(C)
    PROVE  /\ <<open>> \o b \o <<close>> \in Seq(C)
           /\ Len(<<open>> \o b \o <<close>>) = Len(b) + 2 /\ Len(b) \in Nat
           /\ \A s : \A p \in Nat : Stands(s, p, <<open>> \o b \o <<close>>) =>
                 /\ Peek(s, p) = open /\ Stands(s, p + 1, b)
                 /\ Peek(s, (p + 1) + Len(b)) = close
  <1> DEFINE a == <<open>>
             c == <<close>>
             d == a \o b
             z == Len(b)
  <1>1. a \in Seq(C) /\ c \in Seq(C) /\ Len(a) = 1 /\ Len(c) = 1 /\ z \in Nat
    OBVIOUS
  <1> HIDE DEF a, c
  <1>2. d \in Seq(C) /\ Len(d) = 1 + z
    <2>1. d \in Seq(C) /\ Len(d) = Len(a) + Len(b)
      BY <1>1, Joined
    <2> QED
      BY <1>1, <2>1
  <1> HIDE DEF d
  <1>4. d \o c \in Seq(C) /\ Len(d \o c) = z + 2
    <2>1. d \o c \in Seq(C) /\ Len(d \o c) = Len(d) + Len(c)
      BY <1>1, <1>2, Joined
    <2> QED
      BY <1>1, <1>2, <2>1
  <1>5. ASSUME NEW s, NEW p \in Nat, Stands(s, p, d \o c)
        PROVE  Peek(s, p) = open /\ Stands(s, p + 1, b) /\ Peek(s, (p + 1) + z) = close
    <2>1. Stands(s, p, d) /\ Stands(s, p + (1 + z), c)
      BY <1>1, <1>2, <1>5, StandsJoined
    <2>2. Stands(s, p, a) /\ Stands(s, p + 1, b)
      BY <1>1, <2>1, StandsJoined DEF d
    <2>3. p + (1 + z) \in Nat /\ p + (1 + z) = (p + 1) + z
      BY <1>1
    <2> QED
      BY <2>1, <2>2, <2>3, StandsOne DEF a, c
  <1> QED
    BY <1>1, <1>4, <1>5 DEF a, c, d

\* Brackets around a list of parts that read back as values.
LEMMA EnclosedReads ==
    ASSUME NEW C, "comma" \in C, NEW s \in Seq(C), NEW p \in Places,
           NEW parts \in Lists(C), NEW V, NEW vals \in Seq(V), Len(parts) = Len(vals),
           NEW item, Forward(item), NEW open \in C,
           NEW close \in C, close \notin {"comma", "nul"} \union White,
           Reads(s, item, parts, vals, close),
           Len(parts) # 0 => /\ Len(parts[1]) # 0
                             /\ parts[1][1] \notin {close} \union White,
           Stands(s, p, <<open>> \o Listed(parts) \o <<close>>)
    PROVE  /\ Enclosed(s, p, item, close)
                  = Read(vals, p + Len(<<open>> \o Listed(parts) \o <<close>>))
           /\ Peek(s, p) = open
  <1> DEFINE a == <<open>>
             b == Listed(parts)
             c == <<close>>
             z == Len(b)
             text == (a \o b) \o c
  <1>1. b \in Seq(C) /\ z \in Nat /\ Len(parts) \in Nat
    <2>1. Listed(parts) \in Seq(C) /\ Len(parts) \in Nat
      BY ListedPartsType
    <2>2. Len(Listed(parts)) \in Nat
      BY <2>1
    <2> QED
      BY <2>1, <2>2
  <1>4. p \in Nat /\ p + 1 \in Places /\ p + 1 \in Nat
    BY DEF Places
  <1>5. Stands(s, p, text)
    OBVIOUS
  <1> HIDE DEF b
  <1>6. /\ Peek(s, p) = open /\ Stands(s, p + 1, b) /\ Peek(s, (p + 1) + z) = close
        /\ Len(text) = z + 2
    BY <1>1, <1>4, <1>5, Framed
  <1> HIDE DEF a, c
  <1> DEFINE q == p + 1
             read == Enclosed(s, p, item, close)
  <1>11. read = IF Peek(s, Skip(s, q)) = close THEN Read(<<>>, Skip(s, q) + 1)
                ELSE Items(s, item, close)[Skip(s, q)]
    BY DEF Enclosed
  <1> HIDE DEF read
  <1>12. CASE Len(parts) = 0
    <2>1. b = <<>> /\ z = 0
      <3>1. ListedParts(parts) \in Lists(C) /\ Len(ListedParts(parts)) = 0
            /\ b = FlattenSeq(ListedParts(parts))
        BY <1>12, ListedPartsType DEF b
      <3>2. \A x \in Lists(C) : Len(x) = 0 => FlattenSeq(x) = <<>>
        BY DEF Lists, FlattenSeq
      <3> QED
        BY <3>1, <3>2
    <2>2. vals = <<>>
      <3>1. \A x \in Seq(V) : Len(x) = 0 => x = <<>>
        OBVIOUS
      <3> QED
        BY <1>12, <3>1
    <2>3. Peek(s, q) = close
      BY <1>4, <1>6, <2>1
    <2>4. Skip(s, q) = q
      BY <1>4, <2>3, SkipStays
    <2>5. read = Read(<<>>, q + 1)
      BY <1>11, <2>3, <2>4
    <2>6. q + 1 = p + Len(text)
      BY <1>4, <1>6, <2>1
    <2> HIDE DEF text
    <2> QED
      BY <1>6, <2>2, <2>5, <2>6 DEF read, text, a, b, c
  <1>13. CASE Len(parts) # 0
    <2>1. Peek(s, q) = parts[1][1]
      <3>1. PICK place \in [Nat -> Nat] :
                place[0] = 0 /\ (q \in Nat /\ Stands(s, q, Listed(parts)) =>
                                     Laid(parts, place, s, q))
        BY <1>13, ListLaid
      <3>2. Laid(parts, place, s, q)
        BY <1>4, <1>6, <3>1 DEF b
      <3>3. Stands(s, q + place[0], parts[0 + 1])
        BY <1>1, <1>13, <3>2 DEF Laid
      <3>4. 1 \in 1..Len(parts[1])
        <4>1. 1 \in 1..Len(parts)
          BY <1>1, <1>13
        <4>2. Len(parts[1]) \in Nat
          BY <4>1, ListedPartsType
        <4> QED
          BY <1>13, <4>2
      <3>5. Peek(s, (q + place[0]) + (1 - 1)) = parts[1][1]
        BY <3>3, <3>4 DEF Stands
      <3>6. (q + place[0]) + (1 - 1) = q
        BY <1>4, <3>1
      <3> QED
        BY <3>5, <3>6
    <2>2. Peek(s, q) # close /\ Skip(s, q) = q
      <3>1. Peek(s, q) \notin {close} \union White
        BY <1>13, <2>1
      <3>2. Peek(s, q) # close /\ Peek(s, q) \notin White
        BY <3>1
      <3> HIDE DEF q
      <3> QED
        BY <1>4, <3>2, SkipStays DEF q
    <2>3. Items(s, item, close)[q] = Read(vals, q + z + 1)
      <3>1. q \in Places /\ Stands(s, q, Listed(parts)) /\ Peek(s, q + Len(Listed(parts))) = close
        BY <1>4, <1>6 DEF b
      <3> HIDE DEF q
      <3> QED
        BY <1>13, <3>1, ListReads DEF b
    <2>4. q + z + 1 = p + Len(text)
      BY <1>1, <1>4, <1>6
    <2>5. read = Read(vals, p + Len(text))
      <3> HIDE DEF q, text
      <3> QED
        BY <1>11, <2>2, <2>3, <2>4
    <2> QED
      BY <1>6, <2>5 DEF read, a, b, c
  <1> QED
    BY <1>12, <1>13

-----------------------------------------------------------------------------
(* Values *)

\* inner reads u as v wherever it stands without a figure after it.
Yields(s, inner, u, v) ==
    \A p \in Places :
        Stands(s, p, u) /\ Peek(s, p + Len(u)) \notin FigureSet =>
        inner[p] = Read(v, p + Len(u))

\* parse_value where no white space stands.
LEMMA ValueAt ==
    ASSUME NEW C, NEW s \in Seq(C), NEW n \in Nat, NEW p \in Places,
           Peek(s, p) \notin White
    PROVE  Values(s)[n][p] = ParseValue(s, Inner(s, n), p) /\ Skip(s, p) = p
  <1>1. Values(s)[n] = [q \in Places |-> ParseValue(s, Inner(s, n), q)]
    BY ValuesStep
  <1>2. Values(s)[n][p] = ParseValue(s, Inner(s, n), p)
    BY <1>1
  <1> QED
    BY <1>2, SkipStays

\* parse_value by the first character.
LEMMA LeafIs ==
    ASSUME NEW s, NEW inner, NEW p, Skip(s, p) = p
    PROVE  /\ Peek(s, p) = "quote" => ParseValue(s, inner, p)
                  = Given(ParseString(s, p), Str(ParseString(s, p).value))
           /\ Peek(s, p) = "t" => ParseValue(s, inner, p) = Read(Bool(TRUE), p + 4)
           /\ Peek(s, p) = "f" => ParseValue(s, inner, p) = Read(Bool(FALSE), p + 5)
           /\ Peek(s, p) \notin {"openbrace", "[", "quote", "t", "f", "n"} =>
                 ParseValue(s, inner, p) = ParseInt(s, p)
           /\ Peek(s, p) = "[" => ParseValue(s, inner, p)
                  = Given(Enclosed(s, p, inner, "]"), Arr(Enclosed(s, p, inner, "]").value))
  BY DEF ParseValue

\* A number that was written is read by parse_value.
LEMMA DecimalYields ==
    ASSUME NEW C, NEW s \in Seq(C), NEW n \in Nat, NEW m \in Nat
    PROVE  Yields(s, Values(s)[n], Decimal(m), IntOf(m))
  <1> SUFFICES ASSUME NEW p \in Places, Stands(s, p, Decimal(m)),
                      Peek(s, p + Len(Decimal(m))) \notin FigureSet
               PROVE  Values(s)[n][p] = Read(IntOf(m), p + Len(Decimal(m)))
    BY DEF Yields
  <1>1. /\ ParseInt(s, p) = Read(IntOf(m), p + Len(Decimal(m)))
        /\ Peek(s, p) \in FigureSet
    BY DecimalReads, FiguresAre
  <1>2. Peek(s, p) \notin White /\ Peek(s, p) \notin {"openbrace", "[", "quote", "t", "f", "n"}
    BY <1>1 DEF FigureSet, White
  <1>3. Values(s)[n][p] = ParseValue(s, Inner(s, n), p) /\ Skip(s, p) = p
    BY <1>2, ValueAt
  <1>4. ParseValue(s, Inner(s, n), p) = ParseInt(s, p)
    BY <1>2, <1>3, LeafIs
  <1> QED
    BY <1>1, <1>3, <1>4

\* So is a boolean, whose letters are skipped over.
LEMMA BoolYields ==
    ASSUME NEW C, NEW s \in Seq(C), NEW n \in Nat, NEW b \in BOOLEAN
    PROVE  Yields(s, Values(s)[n], DumpBool(b), Bool(b))
  <1> SUFFICES ASSUME NEW p \in Places, Stands(s, p, DumpBool(b))
               PROVE  Values(s)[n][p] = Read(Bool(b), p + Len(DumpBool(b)))
    BY DEF Yields
  <1>1. p \in Nat /\ p + (1 - 1) = p
    BY DEF Places
  <1>2. CASE b = TRUE
    <2>1. DumpBool(b) = <<"t", "r", "u", "e">>
      BY <1>2 DEF DumpBool
    <2>2. Len(DumpBool(b)) = 4 /\ DumpBool(b)[1] = "t" /\ 1 \in 1..Len(DumpBool(b))
      BY <2>1
    <2>3. Peek(s, p) = "t"
      BY <1>1, <2>2 DEF Stands
    <2>4. Values(s)[n][p] = ParseValue(s, Inner(s, n), p) /\ Skip(s, p) = p
      BY <2>3, ValueAt DEF White
    <2>5. ParseValue(s, Inner(s, n), p) = Read(Bool(TRUE), p + 4)
      BY <2>3, <2>4, LeafIs
    <2> QED
      BY <1>2, <2>2, <2>4, <2>5
  <1>3. CASE b = FALSE
    <2>1. DumpBool(b) = <<"f", "a", "l", "s", "e">>
      BY <1>3 DEF DumpBool
    <2>2. Len(DumpBool(b)) = 5 /\ DumpBool(b)[1] = "f" /\ 1 \in 1..Len(DumpBool(b))
      BY <2>1
    <2>3. Peek(s, p) = "f"
      BY <1>1, <2>2 DEF Stands
    <2>4. Values(s)[n][p] = ParseValue(s, Inner(s, n), p) /\ Skip(s, p) = p
      BY <2>3, ValueAt DEF White
    <2>5. ParseValue(s, Inner(s, n), p) = Read(Bool(FALSE), p + 5)
      BY <2>3, <2>4, LeafIs
    <2> QED
      BY <1>3, <2>2, <2>4, <2>5
  <1> QED
    BY <1>2, <1>3

\* So is a string.
LEMMA StringYields ==
    ASSUME NEW C, Marks \subseteq C, NEW s \in Seq(C), NEW n \in Nat,
           NEW x \in Seq(C), \A i \in 1..Len(x) : x[i] # "nul"
    PROVE  Yields(s, Values(s)[n], DumpString(x), Str(x))
  <1> DEFINE u == DumpString(x)
  <1> SUFFICES ASSUME NEW p \in Places, Stands(s, p, u)
               PROVE  Values(s)[n][p] = Read(Str(x), p + Len(u))
    BY DEF Yields
  <1>1. ParseString(s, p) = Read(x, p + Len(u)) /\ Peek(s, p) = "quote"
    BY StringReads
  <1>2. Values(s)[n][p] = ParseValue(s, Inner(s, n), p) /\ Skip(s, p) = p
    BY <1>1, ValueAt DEF White
  <1>3. ParseValue(s, Inner(s, n), p) = Given(ParseString(s, p), Str(ParseString(s, p).value))
    BY <1>1, <1>2, LeafIs
  <1>4. p + Len(u) # 0
    <2>1. Len(u) \in Nat
      <3>1. Escaped(x) \in Seq(C) /\ <<"quote">> \in Seq(C)
        BY EscapedPartsType DEF Marks
      <3>2. u \in Seq(C)
        BY <3>1, Joined DEF DumpString
      <3> HIDE DEF u
      <3> QED
        BY <3>2
    <2> HIDE DEF u
    <2> QED
      BY <2>1 DEF Places
  <1> HIDE DEF u
  <1>5. Given(Read(x, p + Len(u)), Str(Read(x, p + Len(u)).value)) = Read(Str(x), p + Len(u))
    BY <1>4 DEF Given, Failed, Read
  <1> QED
    BY <1>1, <1>2, <1>3, <1>5

\* Parts that are read as values are read so one after another.
LEMMA YieldsRead ==
    ASSUME NEW s, NEW item, NEW parts, NEW vals,
           NEW close, close \notin FigureSet,
           \A i \in Nat : i < Len(parts) => Yields(s, item, parts[i + 1], vals[i + 1])
    PROVE  Reads(s, item, parts, vals, close)
  <1>1. "comma" \notin FigureSet
    BY DEF FigureSet
  <1> SUFFICES ASSUME NEW i \in Nat, i < Len(parts), NEW q \in Places,
                      Stands(s, q, parts[i + 1]),
                      Peek(s, q + Len(parts[i + 1])) \in {"comma", close}
               PROVE  item[q] = Read(vals[i + 1], q + Len(parts[i + 1]))
    BY DEF Reads
  <1>2. Peek(s, q + Len(parts[i + 1])) \notin FigureSet
    BY <1>1
  <1>3. Yields(s, item, parts[i + 1], vals[i + 1])
    OBVIOUS
  <1> QED
    BY <1>2, <1>3 DEF Yields

\* What a part that was read is made into.
LEMMA GivenRead ==
    ASSUME NEW v, NEW w, NEW e, e # 0
    PROVE  Given(Read(v, e), w) = Read(w, e) /\ Read(v, e).value = v /\ Read(v, e).at = e
           /\ ~Failed(Read(v, e))
  BY DEF Given, Failed, Read

\* An array that dump wrote is read back by parse_array where each of its
\* elements is (json.hpp:127-135, 226-242).
THEOREM ArrayYields ==
    ASSUME NEW C, Marks \subseteq C, NEW s \in Seq(C), NEW n \in Nat,
           NEW parts \in Lists(C), NEW V, NEW vals \in Seq(V), Len(parts) = Len(vals),
           \A i \in Nat : i < Len(parts) => Yields(s, Inner(s, n), parts[i + 1], vals[i + 1]),
           Len(parts) # 0 => /\ Len(parts[1]) # 0
                             /\ parts[1][1] \notin {"]"} \union White
    PROVE  Yields(s, Values(s)[n], DumpArr(parts), Arr(vals))
  <1> DEFINE item == Inner(s, n)
             u == DumpArr(parts)
  <1>1. "comma" \in C /\ "[" \in C /\ "]" \in C
        /\ "]" \notin {"comma", "nul"} \union White /\ "]" \notin FigureSet /\ "[" \notin White
    BY DEF Marks, White, FigureSet
  <1>2. Reads(s, item, parts, vals, "]") /\ Forward(item)
    BY <1>1, YieldsRead, InnerForward
  <1>3. Listed(parts) \in Seq(C)
    BY <1>1, ListedPartsType
  <1>4. Len(u) \in Nat
    <2>1. /\ Len(<<"[">> \o Listed(parts) \o <<"]">>) = Len(Listed(parts)) + 2
          /\ Len(Listed(parts)) \in Nat
      BY <1>1, <1>3, Framed
    <2> QED
      BY <2>1 DEF DumpArr
  <1> SUFFICES ASSUME NEW p \in Places, Stands(s, p, u)
               PROVE  Values(s)[n][p] = Read(Arr(vals), p + Len(u))
    BY DEF Yields
  <1>5. Enclosed(s, p, item, "]") = Read(vals, p + Len(u)) /\ Peek(s, p) = "["
    <2>1. Stands(s, p, <<"[">> \o Listed(parts) \o <<"]">>)
      BY DEF DumpArr
    <2> HIDE DEF item
    <2>2. /\ Enclosed(s, p, item, "]")
                 = Read(vals, p + Len(<<"[">> \o Listed(parts) \o <<"]">>))
          /\ Peek(s, p) = "["
      BY <1>1, <1>2, <2>1, EnclosedReads
    <2> QED
      BY <2>2 DEF DumpArr
  <1> HIDE DEF u
  <1>6. Values(s)[n][p] = ParseValue(s, item, p) /\ Skip(s, p) = p
    BY <1>1, <1>5, ValueAt
  <1>7. p + Len(u) # 0
    BY <1>4 DEF Places
  <1> HIDE DEF item
  <1>8. ParseValue(s, item, p) = Given(Read(vals, p + Len(u)), Arr(Read(vals, p + Len(u)).value))
    <2>1. ParseValue(s, item, p)
              = Given(Enclosed(s, p, item, "]"), Arr(Enclosed(s, p, item, "]").value))
      BY <1>5, <1>6, LeafIs
    <2> DEFINE r == Read(vals, p + Len(u))
    <2>2. Enclosed(s, p, item, "]") = r
      BY <1>5
    <2> HIDE DEF r
    <2>3. ParseValue(s, item, p) = Given(r, Arr(r.value))
      BY <2>1, <2>2
    <2> QED
      BY <2>3 DEF r
  <1> QED
    BY <1>6, <1>7, <1>8, GivenRead

\* A member of an object.
MemberText(key, text) == DumpString(key) \o <<":">> \o text

\* A member is its key, a colon and its value.
LEMMA MemberTextType ==
    ASSUME NEW C, Marks \subseteq C, NEW key \in Seq(C), NEW text \in Seq(C)
    PROVE  /\ DumpString(key) \in Seq(C) /\ Len(DumpString(key)) \in Nat
           /\ MemberText(key, text) \in Seq(C)
           /\ Len(MemberText(key, text)) = (Len(DumpString(key)) + 1) + Len(text)
           /\ Len(text) \in Nat
           /\ \A s : \A p \in Nat : Stands(s, p, MemberText(key, text)) =>
                 /\ Stands(s, p, DumpString(key))
                 /\ Peek(s, p + Len(DumpString(key))) = ":"
                 /\ Stands(s, (p + Len(DumpString(key))) + 1, text)
  <1> DEFINE d == DumpString(key)
             c == <<":">>
             k == Len(d)
  <1>1. d \in Seq(C) /\ c \in Seq(C) /\ Len(c) = 1 /\ k \in Nat /\ Len(text) \in Nat
    <2>1. Escaped(key) \in Seq(C) /\ <<"quote">> \in Seq(C) /\ c \in Seq(C) /\ Len(c) = 1
      BY EscapedPartsType DEF Marks
    <2>2. d \in Seq(C)
      BY <2>1, Joined DEF DumpString
    <2> HIDE DEF d
    <2>3. \A u \in Seq(C) : Len(u) \in Nat
      OBVIOUS
    <2> QED
      BY <2>1, <2>2, <2>3
  <1> HIDE DEF d, c
  <1>2. d \o c \in Seq(C) /\ Len(d \o c) = k + 1
    <2>1. d \o c \in Seq(C) /\ Len(d \o c) = k + Len(c)
      BY <1>1, Joined
    <2> QED
      BY <1>1, <2>1
  <1> DEFINE f == d \o c
  <1> HIDE DEF f
  <1>3. f \in Seq(C) /\ Len(f) = k + 1
    BY <1>2 DEF f
  <1>4. f \o text \in Seq(C) /\ Len(f \o text) = (k + 1) + Len(text)
    <2>1. f \o text \in Seq(C) /\ Len(f \o text) = Len(f) + Len(text)
      BY <1>3, Joined
    <2> QED
      BY <1>3, <2>1
  <1>5. ASSUME NEW s, NEW p \in Nat, Stands(s, p, f \o text)
        PROVE  Stands(s, p, d) /\ Peek(s, p + k) = ":" /\ Stands(s, (p + k) + 1, text)
    <2>1. Stands(s, p, f) /\ Stands(s, p + (k + 1), text)
      BY <1>3, <1>5, StandsJoined
    <2>2. Stands(s, p, d) /\ Stands(s, p + k, c)
      BY <1>1, <2>1, StandsJoined DEF f
    <2>3. p + k \in Nat /\ p + (k + 1) = (p + k) + 1
      BY <1>1
    <2> QED
      BY <2>1, <2>2, <2>3, StandsOne DEF c
  <1>6. MemberText(key, text) = f \o text
    BY DEF MemberText, d, c, f
  <1> QED
    BY <1>1, <1>4, <1>5, <1>6 DEF d

\* A member is read back where its value is.
LEMMA MemberYields ==
    ASSUME NEW C, Marks \subseteq C, NEW s \in Seq(C), NEW inner,
           NEW key \in Seq(C), \A i \in 1..Len(key) : key[i] # "nul",
           NEW text \in Seq(C), NEW v, Yields(s, inner, text, v)
    PROVE  Yields(s, MembersOf(s, inner), MemberText(key, text), <<key, v>>)
  <1> DEFINE u == MemberText(key, text)
             d == DumpString(key)
             k == Len(d)
  <1> SUFFICES ASSUME NEW p \in Places, Stands(s, p, u), Peek(s, p + Len(u)) \notin FigureSet
               PROVE  MembersOf(s, inner)[p] = Read(<<key, v>>, p + Len(u))
    BY DEF Yields
  <1>1. /\ k \in Nat /\ Len(text) \in Nat /\ Len(u) = (k + 1) + Len(text) /\ p \in Nat
        /\ Stands(s, p, d) /\ Peek(s, p + k) = ":" /\ Stands(s, (p + k) + 1, text)
    BY MemberTextType DEF Places
  <1>2. ParseString(s, p) = Read(key, p + k) /\ Peek(s, p) = "quote"
    BY <1>1, StringReads
  <1> HIDE DEF u, d, k
  <1> DEFINE colon == p + k
             e == (colon + 1) + Len(text)
  <1>3. /\ colon \in Places /\ colon + 1 \in Places /\ colon # 0
        /\ e = p + Len(u) /\ e # 0
    <2>1. colon \in Nat /\ colon # 0
      BY <1>1 DEF Places
    <2>2. e = p + Len(u) /\ e \in Nat /\ e # 0
      BY <1>1, <2>1
    <2> HIDE DEF colon, e
    <2> QED
      BY <2>1, <2>2 DEF Places
  <1>4. Peek(s, e) \notin FigureSet
    BY <1>3
  <1>5. Skip(s, p) = p
    BY <1>2, SkipStays DEF White
  <1> HIDE DEF colon
  <1>6. Peek(s, colon) = ":" /\ Skip(s, colon) = colon
    <2>1. Peek(s, colon) = ":"
      BY <1>1 DEF colon
    <2> QED
      BY <1>3, <2>1, SkipStays DEF White
  <1>7. inner[colon + 1] = Read(v, e)
    <2>1. Stands(s, colon + 1, text)
      BY <1>1 DEF colon
    <2> QED
      BY <1>3, <1>4, <2>1 DEF Yields
  <1> HIDE DEF e
  <1>8. MembersOf(s, inner)[p] = Member(s, inner, p)
    BY DEF MembersOf
  <1>9. ParseString(s, p) = Read(key, colon)
    BY <1>2 DEF colon
  <1>10. ~Failed(Read(key, colon)) /\ Read(key, colon).at = colon /\ Read(key, colon).value = key
    BY <1>3, GivenRead
  <1>11. Member(s, inner, p) = Given(Read(v, e), <<key, Read(v, e).value>>)
    BY <1>5, <1>6, <1>7, <1>9, <1>10 DEF Member
  <1>12. Given(Read(v, e), <<key, Read(v, e).value>>) = Read(<<key, v>>, e)
    <2>1. e # 0
      BY <1>3
    <2>2. Read(v, e).value = v
      BY <2>1, GivenRead
    <2>3. Given(Read(v, e), <<key, v>>) = Read(<<key, v>>, e)
      BY <2>1, GivenRead
    <2> QED
      BY <2>2, <2>3
  <1>13. MembersOf(s, inner)[p] = Read(<<key, v>>, e)
    BY <1>8, <1>11, <1>12
  <1> QED
    BY <1>3, <1>13

\* The members of an object, pairs of a key and a text.
Fields(C) == Seq(Seq(C) \X Seq(C))

MemberTexts(members) ==
    [i \in DOMAIN members |-> DumpString(members[i][1]) \o <<":">> \o members[i][2]]

\* The pairs of a key and a value that they are read as.
KeyedValues(members, vals) == [i \in DOMAIN members |-> <<members[i][1], vals[i]>>]

\* The texts of the members of an object.
LEMMA FieldsAre ==
    ASSUME NEW C, Marks \subseteq C, NEW members \in Fields(C)
    PROVE  /\ MemberTexts(members) \in Lists(C)
           /\ Len(MemberTexts(members)) = Len(members) /\ Len(members) \in Nat
           /\ DOMAIN members = 1..Len(members)
           /\ \A i \in 1..Len(members) :
                 /\ members[i][1] \in Seq(C) /\ members[i][2] \in Seq(C)
                 /\ MemberTexts(members)[i] = MemberText(members[i][1], members[i][2])
  <1>1. DOMAIN members = 1..Len(members) /\ Len(members) \in Nat
    BY DEF Fields
  <1>2. ASSUME NEW i \in 1..Len(members)
        PROVE  members[i][1] \in Seq(C) /\ members[i][2] \in Seq(C)
    <2>1. members[i] \in Seq(C) \X Seq(C)
      BY Entries DEF Fields
    <2> QED
      BY <2>1
  <1>3. \A i \in 1..Len(members) :
            MemberTexts(members)[i] = MemberText(members[i][1], members[i][2])
    BY <1>1 DEF MemberTexts, MemberText
  <1>4. \A i \in 1..Len(members) : MemberText(members[i][1], members[i][2]) \in Seq(C)
    BY <1>2, MemberTextType
  <1>5. MemberTexts(members) \in [1..Len(members) -> Seq(C)]
    <2>1. DOMAIN MemberTexts(members) = 1..Len(members)
          /\ MemberTexts(members) = [i \in DOMAIN members |-> MemberTexts(members)[i]]
      BY <1>1 DEF MemberTexts
    <2> QED
      BY <1>1, <1>3, <1>4, <2>1
  <1>6. MemberTexts(members) \in Lists(C) /\ Len(MemberTexts(members)) = Len(members)
    BY <1>1, <1>5, Table DEF Lists
  <1> QED
    BY <1>1, <1>2, <1>3, <1>6

\* An object that dump wrote is read back by parse_object where the value of
\* each member is (json.hpp:136-148, 203-224).
THEOREM ObjectYields ==
    ASSUME NEW C, Marks \subseteq C, NEW s \in Seq(C), NEW n \in Nat,
           NEW members \in Fields(C), NEW vals,
           \A i \in 1..Len(members) :
               /\ \A j \in 1..Len(members[i][1]) : members[i][1][j] # "nul"
               /\ Yields(s, Inner(s, n), members[i][2], vals[i])
    PROVE  Yields(s, Values(s)[n], DumpObj(members), Obj(Emplaced(KeyedValues(members, vals))))
  <1> DEFINE item == MembersOf(s, Inner(s, n))
             parts == MemberTexts(members)
             pairs == KeyedValues(members, vals)
             u == DumpObj(members)
             V == {pairs[i] : i \in 1..Len(members)}
  <1>1. /\ parts \in Lists(C) /\ Len(parts) = Len(members) /\ Len(members) \in Nat
        /\ DOMAIN members = 1..Len(members)
        /\ \A i \in 1..Len(members) :
                 /\ members[i][1] \in Seq(C) /\ members[i][2] \in Seq(C)
                 /\ parts[i] = MemberText(members[i][1], members[i][2])
    BY FieldsAre
  <1>2. ASSUME NEW i \in 1..Len(members)
        PROVE  Yields(s, item, parts[i], pairs[i])
    <2>1. pairs[i] = <<members[i][1], vals[i]>>
      BY <1>1 DEF KeyedValues
    <2>2. Yields(s, item, MemberText(members[i][1], members[i][2]), <<members[i][1], vals[i]>>)
      BY <1>1, MemberYields
    <2> QED
      BY <1>1, <2>1, <2>2
  <1>3. pairs \in Seq(V) /\ Len(pairs) = Len(members)
    <2>1. pairs \in [1..Len(members) -> V]
      <3>1. DOMAIN pairs = 1..Len(members) /\ pairs = [i \in DOMAIN members |-> pairs[i]]
        BY <1>1 DEF KeyedValues
      <3> HIDE DEF pairs
      <3> QED
        BY <1>1, <3>1
    <2> HIDE DEF pairs, V
    <2> QED
      BY <1>1, <2>1, Table
  <1>4. u = <<"openbrace">> \o Listed(parts) \o <<"closebrace">>
    BY DEF DumpObj, MemberTexts
  <1> HIDE DEF item, parts, pairs, u, V
  <1>5. /\ "comma" \in C /\ "openbrace" \in C /\ "closebrace" \in C
        /\ "closebrace" \notin {"comma", "nul"} \union White
        /\ "closebrace" \notin FigureSet /\ "openbrace" \notin White
    BY DEF Marks, White, FigureSet
  <1>6. Reads(s, item, parts, pairs, "closebrace")
    <2>1. \A i \in Nat : i < Len(parts) => Yields(s, item, parts[i + 1], pairs[i + 1])
      <3> SUFFICES ASSUME NEW i \in Nat, i < Len(parts)
                   PROVE  Yields(s, item, parts[i + 1], pairs[i + 1])
        OBVIOUS
      <3>1. i + 1 \in 1..Len(members)
        BY <1>1
      <3> QED
        BY <1>2, <3>1
    <2> QED
      BY <1>5, <2>1, YieldsRead
  <1>7. Forward(item)
    BY InnerForward, MemberForward DEF item
  <1>8. Listed(parts) \in Seq(C)
    BY <1>1, <1>5, ListedPartsType
  <1>9. Len(u) \in Nat
    <2>1. /\ Len(<<"openbrace">> \o Listed(parts) \o <<"closebrace">>) = Len(Listed(parts)) + 2
          /\ Len(Listed(parts)) \in Nat
      BY <1>5, <1>8, Framed
    <2> QED
      BY <2>1, <1>4
  <1>10. Len(parts) # 0 => /\ Len(parts[1]) # 0
                           /\ parts[1][1] \notin {"closebrace"} \union White
    <2> SUFFICES ASSUME Len(parts) # 0
                 PROVE  Len(parts[1]) # 0 /\ parts[1][1] \notin {"closebrace"} \union White
      OBVIOUS
    <2>1. 1 \in 1..Len(members)
      BY <1>1
    <2> DEFINE key == members[1][1]
               text == members[1][2]
    <2>2. key \in Seq(C) /\ text \in Seq(C) /\ parts[1] = MemberText(key, text)
      BY <1>1, <2>1
    <2> HIDE DEF key, text
    <2>3. Len(MemberText(key, text)) # 0
      <3>1. Len(MemberText(key, text)) = (Len(DumpString(key)) + 1) + Len(text)
            /\ Len(DumpString(key)) \in Nat /\ Len(text) \in Nat
        BY <2>2, MemberTextType
      <3> QED
        BY <3>1
    <2>4. MemberText(key, text)[1] = "quote"
      <3> DEFINE a == <<"quote">>
                 b == Escaped(key)
                 c == <<":">>
      <3>1. b \in Seq(C) /\ a \in Seq(C) /\ c \in Seq(C) /\ a[1] = "quote" /\ Len(a) = 1
        BY <2>2, EscapedPartsType DEF Marks
      <3>2. MemberText(key, text) = ((a \o b) \o a) \o c \o text
        BY DEF MemberText, DumpString
      <3> HIDE DEF a, b, c
      <3>3. ASSUME NEW f \in Seq(C), NEW g \in Seq(C), Len(f) # 0
            PROVE  (f \o g) \in Seq(C) /\ Len(f \o g) # 0 /\ (f \o g)[1] = f[1]
        <4>1. f \o g \in Seq(C) /\ Len(f \o g) = Len(f) + Len(g) /\ Len(f) \in Nat /\ Len(g) \in Nat
              /\ \A i \in 1..Len(f) : (f \o g)[i] = f[i]
          BY Joined
        <4>2. 1 \in 1..Len(f) /\ Len(f) + Len(g) # 0
          BY <3>3, <4>1
        <4> QED
          BY <4>1, <4>2
      <3> DEFINE d == a \o b
                 f == d \o a
                 g == f \o c
      <3>4. d \in Seq(C) /\ Len(d) # 0 /\ d[1] = "quote"
        <4>1. Len(a) # 0
          BY <3>1
        <4>2. (a \o b) \in Seq(C) /\ Len(a \o b) # 0 /\ (a \o b)[1] = a[1]
          BY <3>1, <3>3, <4>1
        <4> QED
          BY <3>1, <4>2
      <3> HIDE DEF d
      <3>5. f \in Seq(C) /\ Len(f) # 0 /\ f[1] = "quote"
        BY <3>1, <3>3, <3>4
      <3> HIDE DEF f
      <3>6. g \in Seq(C) /\ Len(g) # 0 /\ g[1] = "quote"
        BY <3>1, <3>3, <3>5
      <3> HIDE DEF g
      <3>7. (g \o text)[1] = "quote"
        BY <2>2, <3>3, <3>6
      <3> QED
        BY <3>2, <3>7 DEF d, f, g
    <2> QED
      BY <2>2, <2>3, <2>4 DEF White
  <1> SUFFICES ASSUME NEW p \in Places, Stands(s, p, u)
               PROVE  Values(s)[n][p] = Read(Obj(Emplaced(pairs)), p + Len(u))
    BY DEF Yields, pairs, u
  <1>11. Enclosed(s, p, item, "closebrace") = Read(pairs, p + Len(u)) /\ Peek(s, p) = "openbrace"
    <2>1. Stands(s, p, <<"openbrace">> \o Listed(parts) \o <<"closebrace">>)
      BY <1>4
    <2>2. /\ Enclosed(s, p, item, "closebrace")
                 = Read(pairs, p + Len(<<"openbrace">> \o Listed(parts) \o <<"closebrace">>))
          /\ Peek(s, p) = "openbrace"
      BY <1>1, <1>3, <1>5, <1>6, <1>7, <1>10, <2>1, EnclosedReads
    <2> QED
      BY <1>4, <2>2
  <1>12. Values(s)[n][p] = ParseValue(s, Inner(s, n), p) /\ Skip(s, p) = p
    BY <1>5, <1>11, ValueAt
  <1>13. ParseValue(s, Inner(s, n), p)
             = Given(Enclosed(s, p, item, "closebrace"),
                     Obj(Emplaced(Enclosed(s, p, item, "closebrace").value)))
    BY <1>11, <1>12, ParseObjectIs DEF item
  <1>14. p + Len(u) # 0
    BY <1>9 DEF Places
  <1>15. Values(s)[n][p] = Given(Read(pairs, p + Len(u)), Obj(Emplaced(pairs)))
    <2> DEFINE r == Read(pairs, p + Len(u))
    <2>1. r.value = pairs /\ Enclosed(s, p, item, "closebrace") = r
      BY <1>11, <1>14, GivenRead
    <2> HIDE DEF r
    <2>2. Values(s)[n][p] = Given(r, Obj(Emplaced(r.value)))
      BY <1>12, <1>13, <2>1
    <2> QED
      BY <2>1, <2>2 DEF r
  <1> QED
    BY <1>14, <1>15, GivenRead

\* No key comes twice.
Distinct(members) ==
    \A i, j \in 1..Len(members) : members[i][1] = members[j][1] => i = j

\* Every value is found under its key, and nothing else is.
Holding(members, vals, object) ==
    /\ DOMAIN object = {members[i][1] : i \in 1..Len(members)}
    /\ \A i \in 1..Len(members) : object[members[i][1]] = vals[i]

\* The members are then all found under their keys.
LEMMA EmplacedAt ==
    ASSUME NEW C, Marks \subseteq C, NEW members \in Fields(C), NEW vals,
           Distinct(members)
    PROVE  Holding(members, vals, Emplaced(KeyedValues(members, vals)))
  <1> DEFINE n == Len(members)
             key == [i \in 1..n |-> members[i][1]]
             pairs == KeyedValues(members, vals)
             kept == Emplaced(pairs)
             First(k, i) == key[i] = k /\ \A j \in 1..(i - 1) : key[j] # k
  <1>1. DOMAIN members = 1..n /\ n \in Nat
    BY FieldsAre
  <1>2. pairs = [i \in 1..n |-> <<key[i], vals[i]>>]
    BY <1>1 DEF KeyedValues
  <1>3. \A i, j \in 1..n : key[i] = key[j] => i = j
    BY DEF Distinct
  <1> HIDE DEF n, key
  <1>4. /\ DOMAIN pairs = 1..n
        /\ \A i \in 1..n : pairs[i][1] = key[i] /\ pairs[i][2] = vals[i]
    BY <1>2
  <1> HIDE DEF pairs
  <1>5. kept = [k \in {key[i] : i \in 1..n} |->
                   pairs[CHOOSE i \in 1..n : First(k, i)][2]]
    <2> DEFINE Old(k, i) == pairs[i][1] = k /\ \A j \in 1..(i - 1) : pairs[j][1] # k
    <2>1. kept = [k \in {pairs[i][1] : i \in 1..n} |->
                     pairs[CHOOSE i \in 1..n : Old(k, i)][2]]
      BY <1>4 DEF Emplaced
    <2>2. {pairs[i][1] : i \in 1..n} = {key[i] : i \in 1..n}
      BY <1>4
    <2>3. ASSUME NEW k, NEW i \in 1..n PROVE Old(k, i) <=> First(k, i)
      <3>1. \A j \in 1..(i - 1) : j \in 1..n
        BY <1>1 DEF n
      <3> QED
        BY <1>4, <3>1
    <2> HIDE DEF Old, First, kept
    <2> DEFINE OldOf(k) == pairs[CHOOSE i \in 1..n : Old(k, i)][2]
               FirstOf(k) == pairs[CHOOSE i \in 1..n : First(k, i)][2]
    <2>4. ASSUME NEW k PROVE OldOf(k) = FirstOf(k)
      <3>1. (CHOOSE i \in 1..n : Old(k, i)) = (CHOOSE i \in 1..n : First(k, i))
        BY <2>3
      <3> QED
        BY <3>1
    <2>5. kept = [k \in {pairs[i][1] : i \in 1..n} |-> OldOf(k)]
      BY <2>1
    <2> HIDE DEF OldOf, FirstOf
    <2>6. kept = [k \in {key[i] : i \in 1..n} |-> FirstOf(k)]
      BY <2>2, <2>4, <2>5
    <2> QED
      BY <2>6 DEF FirstOf
  <1> HIDE DEF kept
  <1>6. ASSUME NEW i \in 1..n PROVE kept[key[i]] = vals[i]
    <2> DEFINE k == key[i]
               c == CHOOSE x \in 1..n : First(k, x)
    <2>1. First(k, i)
      <3>1. \A j \in 1..(i - 1) : j \in 1..n /\ j # i
        BY <1>1 DEF n
      <3> QED
        BY <1>3, <3>1
    <2>2. c \in 1..n /\ First(k, c)
      <3> HIDE DEF First
      <3> QED
        BY <2>1
    <2>3. c = i
      BY <1>3, <2>2
    <2>4. kept[k] = pairs[c][2]
      BY <1>5
    <2> QED
      BY <1>4, <2>3, <2>4
  <1>7. DOMAIN kept = {key[i] : i \in 1..n}
    BY <1>5
  <1>8. {key[i] : i \in 1..n} = {members[i][1] : i \in 1..n}
    BY DEF key
  <1>9. \A i \in 1..n : key[i] = members[i][1]
    BY DEF key
  <1>10. /\ DOMAIN kept = {members[i][1] : i \in 1..n}
         /\ \A i \in 1..n : kept[members[i][1]] = vals[i]
    BY <1>6, <1>7, <1>8, <1>9
  <1> QED
    BY <1>10 DEF kept, n, pairs, Holding

\* The texts of the values.
LEMMA TextsType ==
    ASSUME NEW C, Marks \subseteq C
    PROVE  /\ \A x \in Seq(C) : DumpString(x) \in Seq(C)
           /\ \A m \in Nat : Decimal(m) \in Seq(C)
           /\ \A b \in BOOLEAN : DumpBool(b) \in Seq(C)
           /\ \A parts \in Lists(C) : DumpArr(parts) \in Seq(C)
           /\ \A members \in Fields(C) : DumpObj(members) \in Seq(C)
  <1>1. \A x \in Seq(C) : DumpString(x) \in Seq(C)
    BY MemberTextType
  <1>2. ASSUME NEW m \in Nat PROVE Decimal(m) \in Seq(C)
    <2>1. Decimal(m) \in Seq(FigureSet) /\ FigureSet \subseteq C
      BY DecimalCounts DEF Marks
    <2>2. \A D : D \subseteq C => Seq(D) \subseteq Seq(C)
      OBVIOUS
    <2> QED
      BY <2>1, <2>2
  <1>3. ASSUME NEW b \in BOOLEAN PROVE DumpBool(b) \in Seq(C)
    <2>1. "t" \in C /\ "r" \in C /\ "u" \in C /\ "e" \in C
          /\ "f" \in C /\ "a" \in C /\ "l" \in C /\ "s" \in C
      BY DEF Marks
    <2> QED
      BY <2>1 DEF DumpBool
  <1>4. ASSUME NEW parts \in Lists(C) PROVE DumpArr(parts) \in Seq(C)
    <2>1. "comma" \in C /\ "[" \in C /\ "]" \in C
      BY DEF Marks
    <2>2. Listed(parts) \in Seq(C)
      BY <2>1, ListedPartsType
    <2> QED
      BY <2>1, <2>2, Framed DEF DumpArr
  <1>5. ASSUME NEW members \in Fields(C) PROVE DumpObj(members) \in Seq(C)
    <2>1. "comma" \in C /\ "openbrace" \in C /\ "closebrace" \in C
      BY DEF Marks
    <2>2. MemberTexts(members) \in Lists(C)
      BY FieldsAre
    <2>3. Listed(MemberTexts(members)) \in Seq(C)
      BY <2>1, <2>2, ListedPartsType
    <2>4. DumpObj(members) = <<"openbrace">> \o Listed(MemberTexts(members)) \o <<"closebrace">>
      BY DEF DumpObj, MemberTexts
    <2> QED
      BY <2>1, <2>3, <2>4, Framed
  <1> QED
    BY <1>1, <1>2, <1>3, <1>4, <1>5

-----------------------------------------------------------------------------
(* Machines *)

KeyWords == {"dec", "limbs", "neg", "base", "den", "index", "kind", "num", "spec_name",
             "series_vm"}
Chars == (Marks \union KeyWords) \union ({"newline", "space", "-"} \union STRING)

\* The characters that texts are made of.
LEMMA CharsAre ==
    /\ Marks \subseteq Chars /\ STRING \subseteq Chars /\ FigureSet \subseteq Chars
    /\ "newline" \in Chars /\ "space" \in Chars /\ "-" \in Chars /\ "openbrace" \in Chars
  BY DEF Chars, Marks

\* A key is a text without a zero byte.
LEMMA KeyIs ==
    ASSUME NEW word \in KeyWords
    PROVE  /\ Key(word) \in Seq(Chars)
           /\ \A i \in 1..Len(Key(word)) : Key(word)[i] # "nul"
  <1>1. word \in Chars /\ word # "nul"
    BY DEF Chars, KeyWords
  <1>2. \A c \in Chars : <<c>> \in Seq(Chars) /\ Len(<<c>>) = 1 /\ <<c>>[1] = c
    OBVIOUS
  <1> QED
    BY <1>1, <1>2 DEF Key

\* Different words are different keys.
LEMMA KeysDiffer == \A v, w : Key(v) = Key(w) => v = w
  BY DEF Key

\* The decimal mirror of an integer.
LEMMA InDecimalType ==
    ASSUME NEW x \in BigInts
    PROVE  /\ InDecimal(x) \in Seq(Chars)
           /\ \A i \in 1..Len(InDecimal(x)) : InDecimal(x)[i] # "nul"
  <1> DEFINE D == FigureSet \union {"-"}
  <1>1. x.mag \in Magnitudes
    BY IntSplits
  <1>2. InFigures[x.mag] \in Seq(FigureSet)
    BY <1>1, FiguresReadBack DEF Texts
  <1>3. InDecimal(x) \in Seq(D)
    <2>1. <<"0">> \in Seq(D) /\ <<"-">> \in Seq(D) /\ <<>> \in Seq(D)
      BY DEF FigureSet
    <2>2. InFigures[x.mag] \in Seq(D)
      <3>1. \A A, B : A \subseteq B => Seq(A) \subseteq Seq(B)
        OBVIOUS
      <3> QED
        BY <1>2, <3>1
    <2> HIDE DEF D
    <2> QED
      BY <2>1, <2>2, Joined DEF InDecimal
  <1>4. D \subseteq Chars /\ "nul" \notin D
    BY CharsAre DEF FigureSet
  <1> HIDE DEF D
  <1>5. \A u \in Seq(D) : u \in Seq(Chars) /\ \A i \in 1..Len(u) : u[i] # "nul"
    BY <1>4
  <1> QED
    BY <1>3, <1>5

LimbTexts(x) == [i \in DOMAIN x.mag |-> Decimal(x.mag[i])]
LimbValues(x) == [i \in DOMAIN x.mag |-> IntOf(x.mag[i])]

\* The limbs of an integer fit their width, and make it up again.
LEMMA LimbsAre ==
    ASSUME NEW x \in BigInts
    PROVE  /\ DOMAIN x.mag = 1..Len(x.mag) /\ Len(x.mag) \in Nat
           /\ \A i \in 1..Len(x.mag) : x.mag[i] \in Nat /\ x.mag[i] % Limb = x.mag[i]
           /\ x.negative \in BOOLEAN
           /\ FromLimbs(x.mag, x.negative) = x /\ FromString(InDecimal(x)) = x
  <1>1. x.mag \in Magnitudes /\ x.negative \in BOOLEAN
    BY IntSplits
  <1>2. x.mag \in Seq(0..(Limb - 1))
    BY <1>1 DEF Magnitudes
  <1>3. Limb \in Nat \ {0}
    BY LimbType
  <1>4. \A k \in 0..(Limb - 1) : k \in Nat /\ k % Limb = k
    BY <1>3
  <1>5. \A i \in 1..Len(x.mag) : x.mag[i] \in 0..(Limb - 1)
    BY <1>2, Entries
  <1>6. DOMAIN x.mag = 1..Len(x.mag) /\ Len(x.mag) \in Nat
    BY <1>2
  <1> QED
    BY <1>1, <1>4, <1>5, <1>6, TextReadsBack

\* The array of the limbs is read back.
LEMMA LimbsYield ==
    ASSUME NEW s \in Seq(Chars), NEW n \in Nat, NEW x \in BigInts
    PROVE  /\ Yields(s, Values(s)[n + 1], DumpArr(LimbTexts(x)), Arr(LimbValues(x)))
           /\ DumpArr(LimbTexts(x)) \in Seq(Chars)
  <1> DEFINE k == Len(x.mag)
             parts == LimbTexts(x)
             vals == LimbValues(x)
             V == {IntOf(m) : m \in Nat}
  <1>1. /\ DOMAIN x.mag = 1..k /\ k \in Nat
        /\ \A i \in 1..k : x.mag[i] \in Nat
    BY LimbsAre
  <1>2. \A m \in Nat : Decimal(m) \in Seq(Chars)
    BY TextsType, CharsAre
  <1> HIDE DEF k
  <1>3. /\ parts \in [1..k -> Seq(Chars)] /\ vals \in [1..k -> V]
        /\ \A i \in 1..k : parts[i] = Decimal(x.mag[i]) /\ vals[i] = IntOf(x.mag[i])
    <2>1. \A i \in 1..k : Decimal(x.mag[i]) \in Seq(Chars) /\ IntOf(x.mag[i]) \in V
      BY <1>1, <1>2
    <2>2. parts = [i \in 1..k |-> Decimal(x.mag[i])]
      BY <1>1 DEF LimbTexts
    <2>3. vals = [i \in 1..k |-> IntOf(x.mag[i])]
      BY <1>1 DEF LimbValues
    <2> HIDE DEF V, parts, vals
    <2> QED
      BY <2>1, <2>2, <2>3
  <1> HIDE DEF parts, vals, V
  <1>4. /\ parts \in Lists(Chars) /\ vals \in Seq(V)
        /\ Len(parts) = k /\ Len(vals) = k
    BY <1>1, <1>3, Table DEF Lists
  <1>5. Inner(s, n + 1) = Values(s)[n]
    <2>1. n + 1 # 0 /\ (n + 1) - 1 = n
      OBVIOUS
    <2> QED
      BY <2>1 DEF Inner
  <1>6. \A i \in Nat : i < Len(parts) => Yields(s, Inner(s, n + 1), parts[i + 1], vals[i + 1])
    <2> SUFFICES ASSUME NEW i \in Nat, i < Len(parts)
                 PROVE  Yields(s, Inner(s, n + 1), parts[i + 1], vals[i + 1])
      OBVIOUS
    <2>1. i + 1 \in 1..k
      BY <1>1, <1>4
    <2>2. Yields(s, Values(s)[n], Decimal(x.mag[i + 1]), IntOf(x.mag[i + 1]))
      BY <1>1, <2>1, DecimalYields
    <2> QED
      BY <1>3, <1>5, <2>1, <2>2
  <1>7. Len(parts) # 0 => /\ Len(parts[1]) # 0
                          /\ parts[1][1] \notin {"]"} \union White
    <2> SUFFICES ASSUME Len(parts) # 0
                 PROVE  Len(parts[1]) # 0 /\ parts[1][1] \notin {"]"} \union White
      OBVIOUS
    <2>1. 1 \in 1..k
      BY <1>1, <1>4
    <2>2. parts[1] = Decimal(x.mag[1]) /\ x.mag[1] \in Nat
      BY <1>1, <1>3, <2>1
    <2>3. parts[1] \in Seq(FigureSet) /\ Len(parts[1]) \in Nat \ {0}
      BY <2>2, DecimalCounts
    <2>4. parts[1][1] \in FigureSet
      <3>1. 1 \in 1..Len(parts[1])
        BY <2>3
      <3> QED
        BY <2>3, <3>1, Entries
    <2> QED
      BY <2>3, <2>4 DEF FigureSet, White
  <1>8. n + 1 \in Nat
    OBVIOUS
  <1>9. Yields(s, Values(s)[n + 1], DumpArr(parts), Arr(vals))
    BY <1>4, <1>6, <1>7, <1>8, CharsAre, ArrayYields
  <1>10. DumpArr(parts) \in Seq(Chars)
    BY <1>4, CharsAre, TextsType
  <1> QED
    BY <1>9, <1>10 DEF parts, vals

\* What is written of an integer, and what is read.
IntegerFields(x) ==
    << <<Key("dec"), DumpString(InDecimal(x))>>,
       <<Key("limbs"), DumpArr(LimbTexts(x))>>,
       <<Key("neg"), DumpBool(x.negative)>> >>
IntegerValues(x) == <<Str(InDecimal(x)), Arr(LimbValues(x)), Bool(x.negative)>>
IntegerValue(x) == Obj(Emplaced(KeyedValues(IntegerFields(x), IntegerValues(x))))

\* The members of the object of an integer.
LEMMA IntegerFieldsType ==
    ASSUME NEW x \in BigInts
    PROVE  /\ IntegerFields(x) \in Fields(Chars) /\ Len(IntegerFields(x)) = 3
           /\ IntegerFields(x)[1] = <<Key("dec"), DumpString(InDecimal(x))>>
           /\ IntegerFields(x)[2] = <<Key("limbs"), DumpArr(LimbTexts(x))>>
           /\ IntegerFields(x)[3] = <<Key("neg"), DumpBool(x.negative)>>
           /\ Distinct(IntegerFields(x))
  <1> DEFINE F == Seq(Chars)
             a == DumpString(InDecimal(x))
             b == DumpArr(LimbTexts(x))
             c == DumpBool(x.negative)
             d == Key("dec")
             l == Key("limbs")
             g == Key("neg")
  <1>1. a \in F /\ b \in F /\ c \in F
    <2>1. a \in F
      BY InDecimalType, CharsAre, TextsType
    <2>2. b \in F
      <3>1. <<>> \in Seq(Chars) /\ 0 \in Nat
        OBVIOUS
      <3> QED
        BY <3>1, LimbsYield
    <2>3. c \in F
      BY LimbsAre, CharsAre, TextsType
    <2> QED
      BY <2>1, <2>2, <2>3
  <1>2. d \in F /\ l \in F /\ g \in F
    BY KeyIs DEF KeyWords
  <1>3. d # l /\ d # g /\ l # g
    <2>1. "dec" # "limbs" /\ "dec" # "neg" /\ "limbs" # "neg"
      OBVIOUS
    <2> QED
      BY <2>1, KeysDiffer
  <1>4. IntegerFields(x) = << <<d, a>>, <<l, b>>, <<g, c>> >>
    BY DEF IntegerFields
  <1> HIDE DEF a, b, c, d, l, g, F
  <1>5. <<d, a>> \in F \X F /\ <<l, b>> \in F \X F /\ <<g, c>> \in F \X F
    BY <1>1, <1>2
  <1> DEFINE three == << <<d, a>>, <<l, b>>, <<g, c>> >>
  <1>6. three \in Seq(F \X F) /\ Len(three) = 3
    <2>1. \A S : \A y, z, w \in S : <<y, z, w>> \in Seq(S) /\ Len(<<y, z, w>>) = 3
      OBVIOUS
    <2> QED
      BY <1>5, <2>1
  <1>7. three[1] = <<d, a>> /\ three[2] = <<l, b>> /\ three[3] = <<g, c>>
    OBVIOUS
  <1> HIDE DEF three
  <1>8. \A i, j \in 1..3 : three[i][1] = three[j][1] => i = j
    <2>1. three[1][1] = d /\ three[2][1] = l /\ three[3][1] = g
      BY <1>7
    <2>2. \A i \in 1..3 : i = 1 \/ i = 2 \/ i = 3
      OBVIOUS
    <2> QED
      BY <1>3, <2>1, <2>2
  <1>9. Distinct(three)
    BY <1>6, <1>8 DEF Distinct
  <1> QED
    BY <1>4, <1>6, <1>7, <1>9 DEF three, Fields, F, a, b, c, d, l, g

\* The object of an integer is read back.
LEMMA IntegerYields ==
    ASSUME NEW s \in Seq(Chars), NEW n \in Nat, NEW x \in BigInts
    PROVE  /\ Yields(s, Values(s)[n + 2], IntegerText(x), IntegerValue(x))
           /\ IntegerText(x) \in Seq(Chars)
  <1> DEFINE members == IntegerFields(x)
             vals == IntegerValues(x)
             inner == Inner(s, n + 2)
  <1>1. inner = Values(s)[n + 1] /\ n + 1 \in Nat /\ n + 2 \in Nat
    <2>1. n + 2 # 0 /\ (n + 2) - 1 = n + 1
      OBVIOUS
    <2> QED
      BY <2>1 DEF Inner
  <1>2. /\ members \in Fields(Chars) /\ Len(members) = 3
        /\ members[1] = <<Key("dec"), DumpString(InDecimal(x))>>
        /\ members[2] = <<Key("limbs"), DumpArr(LimbTexts(x))>>
        /\ members[3] = <<Key("neg"), DumpBool(x.negative)>>
    BY IntegerFieldsType
  <1>3. vals[1] = Str(InDecimal(x)) /\ vals[2] = Arr(LimbValues(x)) /\ vals[3] = Bool(x.negative)
    BY DEF IntegerValues
  <1>4. IntegerText(x) = DumpObj(members)
    BY DEF IntegerText, IntegerFields, LimbTexts
  <1> HIDE DEF members, vals, inner
  <1>5. Yields(s, inner, members[1][2], vals[1])
    BY <1>1, <1>2, <1>3, StringYields, InDecimalType, CharsAre
  <1>6. Yields(s, inner, members[2][2], vals[2])
    BY <1>1, <1>2, <1>3, LimbsYield
  <1>7. Yields(s, inner, members[3][2], vals[3])
    BY <1>1, <1>2, <1>3, BoolYields, LimbsAre
  <1>8. \A i \in 1..Len(members) :
            /\ \A j \in 1..Len(members[i][1]) : members[i][1][j] # "nul"
            /\ Yields(s, inner, members[i][2], vals[i])
    <2>1. \A i \in 1..Len(members) : i = 1 \/ i = 2 \/ i = 3
      BY <1>2
    <2>2. /\ members[1][1] = Key("dec") /\ members[2][1] = Key("limbs")
          /\ members[3][1] = Key("neg")
      BY <1>2
    <2>3. \A i \in 1..Len(members) : \A j \in 1..Len(members[i][1]) : members[i][1][j] # "nul"
      BY <2>1, <2>2, KeyIs DEF KeyWords
    <2> QED
      BY <1>5, <1>6, <1>7, <2>1, <2>3
  <1>9. Yields(s, Values(s)[n + 2], DumpObj(members), Obj(Emplaced(KeyedValues(members, vals))))
    BY <1>1, <1>2, <1>8, CharsAre, ObjectYields DEF inner
  <1>10. DumpObj(members) \in Seq(Chars)
    BY <1>2, CharsAre, TextsType
  <1> QED
    BY <1>4, <1>9, <1>10 DEF IntegerValue, members, vals

\* big_int_from_json makes the same integer of it.
LEMMA IntegerLoads ==
    ASSUME NEW x \in BigInts
    PROVE  IntegerReads(IntegerValue(x)) /\ IntegerFrom(IntegerValue(x)) = x
  <1> DEFINE members == IntegerFields(x)
             vals == IntegerValues(x)
             kept == Emplaced(KeyedValues(members, vals))
             v == IntegerValue(x)
  <1>1. /\ members \in Fields(Chars) /\ Len(members) = 3
        /\ members[1][1] = Key("dec") /\ members[2][1] = Key("limbs")
        /\ members[3][1] = Key("neg")
        /\ Distinct(members)
    BY IntegerFieldsType
  <1>2. vals[2] = Arr(LimbValues(x)) /\ vals[3] = Bool(x.negative)
    BY DEF IntegerValues
  <1>3. v.type = "obj" /\ v.of = kept
    BY DEF IntegerValue, Obj, Value
  <1> HIDE DEF members, vals
  <1>4. /\ DOMAIN kept = {members[i][1] : i \in 1..Len(members)}
        /\ \A i \in 1..Len(members) : kept[members[i][1]] = vals[i]
    <2>1. members \in Fields(Chars) /\ Distinct(members) /\ Marks \subseteq Chars
      BY <1>1, CharsAre
    <2>2. Holding(members, vals, kept)
      BY <2>1, EmplacedAt
    <2> HIDE DEF kept
    <2> QED
      BY <2>2 DEF Holding
  <1> HIDE DEF kept, v
  <1>5. /\ Key("limbs") \in DOMAIN kept /\ Key("neg") \in DOMAIN kept
        /\ kept[Key("limbs")] = vals[2] /\ kept[Key("neg")] = vals[3]
    <2>1. 2 \in 1..Len(members) /\ 3 \in 1..Len(members)
      BY <1>1
    <2> QED
      BY <1>1, <1>4, <2>1
  <1>6. /\ Has(v, "limbs") /\ Has(v, "neg")
        /\ Get(v, "limbs").type = "arr" /\ Get(v, "limbs").of = LimbValues(x)
        /\ Get(v, "neg").of = x.negative
    BY <1>2, <1>3, <1>5 DEF Has, Get, Arr, Bool, Value
  <1>7. /\ DOMAIN LimbValues(x) = DOMAIN x.mag
        /\ \A i \in DOMAIN x.mag : LimbValues(x)[i].type = "int" /\ LimbValues(x)[i].of = x.mag[i]
    BY DEF LimbValues, IntOf, Value
  <1>8. IntegerReads(v)
    BY <1>6, <1>7 DEF IntegerReads, IsInt
  <1>9. [i \in DOMAIN LimbValues(x) |-> LimbValues(x)[i].of % Limb] = x.mag
    <2>1. \A i \in DOMAIN x.mag : LimbValues(x)[i].of % Limb = x.mag[i]
      BY <1>7, LimbsAre
    <2>2. x.mag = [i \in DOMAIN x.mag |-> x.mag[i]]
      <3>1. x.mag \in Seq(0..(Limb - 1))
        BY IntSplits DEF Magnitudes
      <3> QED
        BY <3>1
    <2> QED
      BY <1>7, <2>1, <2>2
  <1>10. (Has(v, "neg") /\ Get(v, "neg").of = TRUE) = x.negative
    BY <1>6, LimbsAre
  <1>11. IntegerFrom(v) = FromLimbs(x.mag, x.negative)
    BY <1>6, <1>9, <1>10 DEF IntegerFrom
  <1> QED
    BY <1>8, <1>11, LimbsAre DEF v

\* The decimal mirror alone.
MirrorFields(x) == << <<Key("dec"), DumpString(InDecimal(x))>> >>
MirrorValue(x) == Obj(Emplaced(KeyedValues(MirrorFields(x), <<Str(InDecimal(x))>>)))

\* The member of an object with the decimal mirror alone.
LEMMA MirrorFieldsType ==
    ASSUME NEW x \in BigInts
    PROVE  /\ MirrorFields(x) \in Fields(Chars) /\ Len(MirrorFields(x)) = 1
           /\ MirrorFields(x)[1] = <<Key("dec"), DumpString(InDecimal(x))>>
           /\ Distinct(MirrorFields(x))
  <1> DEFINE F == Seq(Chars)
             a == DumpString(InDecimal(x))
             d == Key("dec")
             f == <<d, a>>
  <1>1. a \in F
    BY InDecimalType, CharsAre, TextsType
  <1>2. d \in F
    BY KeyIs DEF KeyWords
  <1> HIDE DEF a, d, F
  <1>3. f \in F \X F
    BY <1>1, <1>2
  <1> HIDE DEF f
  <1>4. <<f>> \in Seq(F \X F) /\ Len(<<f>>) = 1 /\ <<f>>[1] = f
    BY <1>3
  <1>5. Distinct(<<f>>)
    BY <1>4 DEF Distinct
  <1> QED
    BY <1>4, <1>5 DEF MirrorFields, Fields, F, a, d, f

\* That object is read back.
LEMMA MirrorYields ==
    ASSUME NEW s \in Seq(Chars), NEW n \in Nat, NEW x \in BigInts
    PROVE  /\ Yields(s, Values(s)[n + 1], DecimalText(x), MirrorValue(x))
           /\ DecimalText(x) \in Seq(Chars)
  <1> DEFINE members == MirrorFields(x)
             vals == <<Str(InDecimal(x))>>
             inner == Inner(s, n + 1)
  <1>1. inner = Values(s)[n] /\ n + 1 \in Nat
    <2>1. n + 1 # 0 /\ (n + 1) - 1 = n
      OBVIOUS
    <2> QED
      BY <2>1 DEF Inner
  <1>2. /\ members \in Fields(Chars) /\ Len(members) = 1
        /\ members[1] = <<Key("dec"), DumpString(InDecimal(x))>>
    BY MirrorFieldsType
  <1>3. vals[1] = Str(InDecimal(x))
    OBVIOUS
  <1>4. DecimalText(x) = DumpObj(members)
    BY DEF DecimalText, MirrorFields
  <1> HIDE DEF members, vals, inner
  <1>5. Yields(s, inner, members[1][2], vals[1])
    BY <1>1, <1>2, <1>3, StringYields, InDecimalType, CharsAre
  <1>8. \A i \in 1..Len(members) :
            /\ \A j \in 1..Len(members[i][1]) : members[i][1][j] # "nul"
            /\ Yields(s, inner, members[i][2], vals[i])
    <2>1. \A i \in 1..Len(members) : i = 1
      BY <1>2
    <2>2. members[1][1] = Key("dec")
      BY <1>2
    <2>3. \A i \in 1..Len(members) : \A j \in 1..Len(members[i][1]) : members[i][1][j] # "nul"
      BY <2>1, <2>2, KeyIs DEF KeyWords
    <2> QED
      BY <1>5, <2>1, <2>3
  <1>9. Yields(s, Values(s)[n + 1], DumpObj(members), Obj(Emplaced(KeyedValues(members, vals))))
    BY <1>1, <1>2, <1>8, CharsAre, ObjectYields DEF inner
  <1>10. DumpObj(members) \in Seq(Chars)
    BY <1>2, CharsAre, TextsType
  <1> QED
    BY <1>4, <1>9, <1>10 DEF MirrorValue, members, vals

\* big_int_from_json makes the same integer of the mirror.
LEMMA MirrorLoads ==
    ASSUME NEW x \in BigInts
    PROVE  IntegerReads(MirrorValue(x)) /\ IntegerFrom(MirrorValue(x)) = x
  <1> DEFINE members == MirrorFields(x)
             vals == <<Str(InDecimal(x))>>
             kept == Emplaced(KeyedValues(members, vals))
             v == MirrorValue(x)
  <1>1. /\ members \in Fields(Chars) /\ Len(members) = 1
        /\ members[1][1] = Key("dec") /\ Distinct(members)
    BY MirrorFieldsType
  <1>2. vals[1] = Str(InDecimal(x))
    OBVIOUS
  <1>3. v.type = "obj" /\ v.of = kept
    BY DEF MirrorValue, Obj, Value
  <1> HIDE DEF members, vals
  <1>4. /\ DOMAIN kept = {members[i][1] : i \in 1..Len(members)}
        /\ \A i \in 1..Len(members) : kept[members[i][1]] = vals[i]
    <2>1. members \in Fields(Chars) /\ Distinct(members) /\ Marks \subseteq Chars
      BY <1>1, CharsAre
    <2>2. Holding(members, vals, kept)
      BY <2>1, EmplacedAt
    <2> HIDE DEF kept
    <2> QED
      BY <2>2 DEF Holding
  <1> HIDE DEF kept, v
  <1>5. DOMAIN kept = {Key("dec")} /\ kept[Key("dec")] = vals[1]
    <2>1. 1 \in 1..Len(members) /\ \A i \in 1..Len(members) : i = 1
      BY <1>1
    <2> QED
      BY <1>1, <1>4, <2>1
  <1>6. Key("limbs") # Key("dec")
    <2>1. "limbs" # "dec"
      OBVIOUS
    <2> QED
      BY <2>1, KeysDiffer
  <1>7. /\ ~Has(v, "limbs") /\ Has(v, "dec")
        /\ Get(v, "dec").type = "str" /\ Get(v, "dec").of = InDecimal(x)
    BY <1>2, <1>3, <1>5, <1>6 DEF Has, Get, Str, Value
  <1>8. IntegerReads(v) /\ IntegerFrom(v) = FromString(InDecimal(x))
    BY <1>7 DEF IntegerReads, IntegerFrom
  <1> QED
    BY <1>8, LimbsAre DEF v

\* What is written of a machine, and what is read.
MachineFields(name) ==
    << <<Key("base"), Decimal(10)>>,
       <<Key("den"), IntegerText(rem)>>,
       <<Key("index"), Decimal(Depth)>>,
       <<Key("kind"), DumpString(Key("series_vm"))>>,
       <<Key("num"), IntegerText(reg)>>,
       <<Key("spec_name"), DumpString(name)>> >>
MachineValues(name) ==
    <<IntOf(10), IntegerValue(rem), IntOf(Depth), Str(Key("series_vm")),
      IntegerValue(reg), Str(name)>>
MachineValue(name) ==
    Obj(Emplaced(KeyedValues(MachineFields(name), MachineValues(name))))

\* Six texts under six keys.
LEMMA SixFields ==
    ASSUME NEW C, NEW a \in C, NEW b \in C, NEW c \in C, NEW d \in C, NEW e \in C, NEW f \in C
    PROVE  LET six == <<a, b, c, d, e, f>> IN
           /\ six \in Seq(C) /\ Len(six) = 6
           /\ six[1] = a /\ six[2] = b /\ six[3] = c
           /\ six[4] = d /\ six[5] = e /\ six[6] = f
  OBVIOUS

\* The numbers of the six members.
LEMMA OneOfSix ==
    \A i \in 1..6 : i = 1 \/ i = 2 \/ i = 3 \/ i = 4 \/ i = 5 \/ i = 6
  OBVIOUS

\* A name is a text without a zero byte.
LEMMA NameIs ==
    ASSUME NEW name \in Names
    PROVE  name \in Seq(Chars) /\ \A i \in 1..Len(name) : name[i] # "nul"
  <1>1. name \in Seq(STRING) /\ \A i \in DOMAIN name : name[i] # "nul"
    BY TextAssumption
  <1>2. \A A, B : A \subseteq B => Seq(A) \subseteq Seq(B)
    OBVIOUS
  <1>3. DOMAIN name = 1..Len(name)
    BY <1>1
  <1> QED
    BY <1>1, <1>2, <1>3, CharsAre

\* The members of the object of a machine.
LEMMA MachineFieldsType ==
    ASSUME NEW name \in Names, reg \in BigInts, rem \in BigInts
    PROVE  LET members == MachineFields(name) IN
           /\ members \in Fields(Chars) /\ Len(members) = 6
           /\ members[1] = <<Key("base"), Decimal(10)>>
           /\ members[2] = <<Key("den"), IntegerText(rem)>>
           /\ members[3] = <<Key("index"), Decimal(Depth)>>
           /\ members[4] = <<Key("kind"), DumpString(Key("series_vm"))>>
           /\ members[5] = <<Key("num"), IntegerText(reg)>>
           /\ members[6] = <<Key("spec_name"), DumpString(name)>>
           /\ Distinct(members)
  <1> DEFINE F == Seq(Chars)
             a == Decimal(10)
             b == IntegerText(rem)
             c == Decimal(Depth)
             d == DumpString(Key("series_vm"))
             e == IntegerText(reg)
             f == DumpString(name)
  <1>1. a \in F /\ b \in F /\ c \in F /\ d \in F /\ e \in F /\ f \in F
    <2>1. a \in F /\ c \in F
      BY CharsAre, TextsType, TextAssumption
    <2>2. b \in F /\ e \in F
      <3>1. <<>> \in Seq(Chars) /\ 0 \in Nat
        OBVIOUS
      <3> QED
        BY <3>1, IntegerYields
    <2>3. Key("series_vm") \in Seq(Chars)
      BY KeyIs DEF KeyWords
    <2>4. d \in F /\ f \in F
      BY <2>3, NameIs, CharsAre, TextsType
    <2> QED
      BY <2>1, <2>2, <2>4
  <1> DEFINE ka == Key("base")
             kb == Key("den")
             kc == Key("index")
             kd == Key("kind")
             ke == Key("num")
             kf == Key("spec_name")
  <1>2. ka \in F /\ kb \in F /\ kc \in F /\ kd \in F /\ ke \in F /\ kf \in F
    BY KeyIs DEF KeyWords
  <1>3. /\ ka # kb /\ ka # kc /\ ka # kd /\ ka # ke /\ ka # kf
        /\ kb # kc /\ kb # kd /\ kb # ke /\ kb # kf
        /\ kc # kd /\ kc # ke /\ kc # kf
        /\ kd # ke /\ kd # kf /\ ke # kf
    <2>1. /\ "base" # "den" /\ "base" # "index" /\ "base" # "kind" /\ "base" # "num"
          /\ "base" # "spec_name" /\ "den" # "index" /\ "den" # "kind" /\ "den" # "num"
          /\ "den" # "spec_name" /\ "index" # "kind" /\ "index" # "num"
          /\ "index" # "spec_name" /\ "kind" # "num" /\ "kind" # "spec_name"
          /\ "num" # "spec_name"
      OBVIOUS
    <2> QED
      BY <2>1, KeysDiffer
  <1>4. MachineFields(name)
            = << <<ka, a>>, <<kb, b>>, <<kc, c>>, <<kd, d>>, <<ke, e>>, <<kf, f>> >>
    BY DEF MachineFields
  <1> HIDE DEF a, b, c, d, e, f, ka, kb, kc, kd, ke, kf, F
  <1> DEFINE six == << <<ka, a>>, <<kb, b>>, <<kc, c>>, <<kd, d>>, <<ke, e>>, <<kf, f>> >>
  <1>5. /\ <<ka, a>> \in F \X F /\ <<kb, b>> \in F \X F /\ <<kc, c>> \in F \X F
        /\ <<kd, d>> \in F \X F /\ <<ke, e>> \in F \X F /\ <<kf, f>> \in F \X F
    BY <1>1, <1>2
  <1>6. /\ six \in Seq(F \X F) /\ Len(six) = 6
        /\ six[1] = <<ka, a>> /\ six[2] = <<kb, b>> /\ six[3] = <<kc, c>>
        /\ six[4] = <<kd, d>> /\ six[5] = <<ke, e>> /\ six[6] = <<kf, f>>
    BY <1>5, SixFields
  <1> HIDE DEF six
  <1>7. Distinct(six)
    <2>1. /\ six[1][1] = ka /\ six[2][1] = kb /\ six[3][1] = kc
          /\ six[4][1] = kd /\ six[5][1] = ke /\ six[6][1] = kf
      BY <1>6
    <2>2. ASSUME NEW i \in 1..6, NEW j \in 1..6, six[i][1] = six[j][1] PROVE i = j
      <3>1. i = 1 \/ i = 2 \/ i = 3 \/ i = 4 \/ i = 5 \/ i = 6
        BY OneOfSix
      <3>2. j = 1 \/ j = 2 \/ j = 3 \/ j = 4 \/ j = 5 \/ j = 6
        BY OneOfSix
      <3> QED
        BY <1>3, <2>1, <2>2, <3>1, <3>2
    <2> QED
      BY <1>6, <2>2 DEF Distinct
  <1> QED
    BY <1>4, <1>6, <1>7 DEF six, Fields, F, a, b, c, d, e, f, ka, kb, kc, kd, ke, kf

\* The object of a machine is read back.
LEMMA MachineYields ==
    ASSUME NEW s \in Seq(Chars), NEW n \in Nat, NEW name \in Names,
           reg \in BigInts, rem \in BigInts
    PROVE  /\ Yields(s, Values(s)[n + 3], Saved(name), MachineValue(name))
           /\ Saved(name) \in Seq(Chars)
  <1> DEFINE members == MachineFields(name)
             vals == MachineValues(name)
             inner == Inner(s, n + 3)
  <1>1. inner = Values(s)[n + 2] /\ n + 2 \in Nat /\ n + 3 \in Nat
    <2>1. n + 3 # 0 /\ (n + 3) - 1 = n + 2
      OBVIOUS
    <2> QED
      BY <2>1 DEF Inner
  <1>2. /\ members \in Fields(Chars) /\ Len(members) = 6
        /\ members[1] = <<Key("base"), Decimal(10)>>
        /\ members[2] = <<Key("den"), IntegerText(rem)>>
        /\ members[3] = <<Key("index"), Decimal(Depth)>>
        /\ members[4] = <<Key("kind"), DumpString(Key("series_vm"))>>
        /\ members[5] = <<Key("num"), IntegerText(reg)>>
        /\ members[6] = <<Key("spec_name"), DumpString(name)>>
    BY MachineFieldsType
  <1>3. /\ vals[1] = IntOf(10) /\ vals[2] = IntegerValue(rem) /\ vals[3] = IntOf(Depth)
        /\ vals[4] = Str(Key("series_vm")) /\ vals[5] = IntegerValue(reg)
        /\ vals[6] = Str(name)
    BY DEF MachineValues
  <1>4. Saved(name) = DumpObj(members)
    BY DEF Saved, MachineFields
  <1> HIDE DEF members, vals, inner
  <1>5. Yields(s, inner, members[1][2], vals[1]) /\ Yields(s, inner, members[3][2], vals[3])
    <2>1. 10 \in Nat /\ Depth \in Nat
      BY TextAssumption
    <2> QED
      BY <1>1, <1>2, <1>3, <2>1, DecimalYields
  <1>6. Yields(s, inner, members[2][2], vals[2]) /\ Yields(s, inner, members[5][2], vals[5])
    BY <1>1, <1>2, <1>3, IntegerYields
  <1>7. Yields(s, inner, members[4][2], vals[4])
    <2> DEFINE kind == Key("series_vm")
    <2>1. kind \in Seq(Chars) /\ \A i \in 1..Len(kind) : kind[i] # "nul"
      BY KeyIs DEF KeyWords
    <2>2. members[4][2] = DumpString(kind) /\ vals[4] = Str(kind)
      BY <1>2, <1>3
    <2> HIDE DEF kind
    <2>3. Yields(s, Values(s)[n + 2], DumpString(kind), Str(kind))
      BY <1>1, <2>1, StringYields, CharsAre
    <2> QED
      BY <1>1, <2>2, <2>3
  <1>8. Yields(s, inner, members[6][2], vals[6])
    BY <1>1, <1>2, <1>3, NameIs, StringYields, CharsAre
  <1>9. \A i \in 1..Len(members) :
            /\ \A j \in 1..Len(members[i][1]) : members[i][1][j] # "nul"
            /\ Yields(s, inner, members[i][2], vals[i])
    <2> SUFFICES ASSUME NEW i \in 1..6
                 PROVE  /\ \A j \in 1..Len(members[i][1]) : members[i][1][j] # "nul"
                        /\ Yields(s, inner, members[i][2], vals[i])
      BY <1>2
    <2>1. i = 1 \/ i = 2 \/ i = 3 \/ i = 4 \/ i = 5 \/ i = 6
      BY OneOfSix
    <2>2. Yields(s, inner, members[i][2], vals[i])
      BY <1>5, <1>6, <1>7, <1>8, <2>1
    <2>3. \E word \in KeyWords : members[i][1] = Key(word)
      <3>1. /\ members[1][1] = Key("base") /\ members[2][1] = Key("den")
            /\ members[3][1] = Key("index") /\ members[4][1] = Key("kind")
            /\ members[5][1] = Key("num") /\ members[6][1] = Key("spec_name")
        BY <1>2
      <3> QED
        BY <2>1, <3>1 DEF KeyWords
    <2>4. \A j \in 1..Len(members[i][1]) : members[i][1][j] # "nul"
      BY <2>3, KeyIs
    <2> QED
      BY <2>2, <2>4
  <1>10. Yields(s, Values(s)[n + 3], DumpObj(members), Obj(Emplaced(KeyedValues(members, vals))))
    BY <1>1, <1>2, <1>9, CharsAre, ObjectYields DEF inner
  <1>11. DumpObj(members) \in Seq(Chars)
    BY <1>2, CharsAre, TextsType
  <1> QED
    BY <1>4, <1>10, <1>11 DEF MachineValue, members, vals

\* What is loaded from the value read is what was saved.
LEMMA MachineLoads ==
    ASSUME NEW name \in Names, reg \in BigInts, rem \in BigInts
    PROVE  /\ Loads(MachineValue(name))
           /\ Loaded(MachineValue(name))
                  = [base |-> 10, index |-> Depth, num |-> reg, den |-> rem, spec_name |-> name]
  <1> DEFINE members == MachineFields(name)
             vals == MachineValues(name)
             kept == Emplaced(KeyedValues(members, vals))
             v == MachineValue(name)
  <1>1. /\ members \in Fields(Chars) /\ Len(members) = 6 /\ Distinct(members)
        /\ members[1][1] = Key("base") /\ members[2][1] = Key("den")
        /\ members[3][1] = Key("index") /\ members[5][1] = Key("num")
        /\ members[6][1] = Key("spec_name")
    BY MachineFieldsType
  <1>2. /\ vals[1] = IntOf(10) /\ vals[2] = IntegerValue(rem) /\ vals[3] = IntOf(Depth)
        /\ vals[5] = IntegerValue(reg) /\ vals[6] = Str(name)
    BY DEF MachineValues
  <1>3. v.type = "obj" /\ v.of = kept
    BY DEF MachineValue, Obj, Value
  <1> HIDE DEF members, vals
  <1>4. /\ DOMAIN kept = {members[i][1] : i \in 1..Len(members)}
        /\ \A i \in 1..Len(members) : kept[members[i][1]] = vals[i]
    <2>1. members \in Fields(Chars) /\ Distinct(members) /\ Marks \subseteq Chars
      BY <1>1, CharsAre
    <2>2. Holding(members, vals, kept)
      BY <2>1, EmplacedAt
    <2> HIDE DEF kept
    <2> QED
      BY <2>2 DEF Holding
  <1> HIDE DEF kept, v
  <1>5. /\ Key("base") \in DOMAIN kept /\ Key("den") \in DOMAIN kept
        /\ Key("index") \in DOMAIN kept /\ Key("num") \in DOMAIN kept
        /\ Key("spec_name") \in DOMAIN kept
        /\ kept[Key("base")] = vals[1] /\ kept[Key("den")] = vals[2]
        /\ kept[Key("index")] = vals[3] /\ kept[Key("num")] = vals[5]
        /\ kept[Key("spec_name")] = vals[6]
    <2>1. {1, 2, 3, 5, 6} \subseteq 1..Len(members)
      BY <1>1
    <2> QED
      BY <1>1, <1>4, <2>1
  <1>6. /\ Has(v, "base") /\ Has(v, "den") /\ Has(v, "index") /\ Has(v, "num")
        /\ Has(v, "spec_name")
        /\ Get(v, "base") = IntOf(10) /\ Get(v, "den") = IntegerValue(rem)
        /\ Get(v, "index") = IntOf(Depth) /\ Get(v, "num") = IntegerValue(reg)
        /\ Get(v, "spec_name") = Str(name)
    BY <1>2, <1>3, <1>5 DEF Has, Get
  <1>7. /\ \A m : IntOf(m).type = "int" /\ IntOf(m).of = m
        /\ Str(name).type = "str" /\ Str(name).of = name
    BY DEF IntOf, Str, Value
  <1>8. /\ IntegerReads(IntegerValue(reg)) /\ IntegerFrom(IntegerValue(reg)) = reg
        /\ IntegerReads(IntegerValue(rem)) /\ IntegerFrom(IntegerValue(rem)) = rem
    BY IntegerLoads
  <1>9. Loads(v)
    BY <1>6, <1>7, <1>8 DEF Loads, IsInt
  <1>10. Loaded(v) = [base |-> 10, index |-> Depth, num |-> reg, den |-> rem,
                      spec_name |-> name]
    BY <1>6, <1>7, <1>8 DEF Loaded
  <1> QED
    BY <1>9, <1>10 DEF v

-----------------------------------------------------------------------------
(* Texts parsed *)

\* A text stands in itself.
LEMMA StandsAlone ==
    ASSUME NEW C, NEW u \in Seq(C)
    PROVE  Stands(u, 1, u) /\ Peek(u, 1 + Len(u)) = "nul"
  <1> DEFINE k == Len(u)
  <1>1. k \in Nat /\ DOMAIN u = 1..k
    OBVIOUS
  <1>2. Stands(u, 1, u)
    <2> SUFFICES ASSUME NEW i \in 1..k PROVE Peek(u, 1 + (i - 1)) = u[i]
      BY DEF Stands
    <2>1. 1 + (i - 1) = i
      OBVIOUS
    <2> QED
      BY <1>1, <2>1 DEF Peek
  <1>3. 1 + k \notin DOMAIN u
    BY <1>1
  <1> QED
    BY <1>2, <1>3 DEF Peek

\* A text that begins with no white space is parsed as its value.
LEMMA ParsesAs ==
    ASSUME NEW C, NEW u \in Seq(C), NEW v, Yields(u, Values(u)[Len(u)], u, v)
    PROVE  Parse(u) = v /\ Values(u)[Len(u)][1] = Read(v, Len(u) + 1)
  <1> DEFINE k == Len(u)
  <1>1. k \in Nat
    OBVIOUS
  <1>2. Stands(u, 1, u)
    BY StandsAlone
  <1>3. Peek(u, 1 + k) \notin FigureSet
    <2>1. Peek(u, 1 + k) = "nul"
      BY StandsAlone
    <2> QED
      BY <2>1 DEF FigureSet
  <1>4. 1 \in Places /\ 1 + k = k + 1
    BY <1>1 DEF Places
  <1>5. Values(u)[k][1] = Read(v, 1 + k)
    BY <1>2, <1>3, <1>4 DEF Yields
  <1> QED
    BY <1>4, <1>5 DEF Parse, Read

\* One character before a text.
LEMMA OneBefore ==
    ASSUME NEW C, NEW f \in Seq(C), NEW g \in Seq(C), Len(f) = 1
    PROVE  /\ f \o g \in Seq(C) /\ Len(f \o g) = 1 + Len(g) /\ (f \o g)[1] = f[1]
           /\ \A i \in 1..Len(g) : (f \o g)[1 + i] = g[i]
  <1> DEFINE h == f \o g
             m == Len(g)
  <1>1. h \in Seq(C) /\ Len(h) = Len(f) + m
    BY Joined
  <1>2. ASSUME NEW x \in Seq(C), NEW y \in Seq(C)
        PROVE  /\ \A i \in 1..Len(x) : (x \o y)[i] = x[i]
               /\ \A i \in 1..Len(y) : (x \o y)[Len(x) + i] = y[i]
    BY Joined
  <1>3. /\ \A i \in 1..Len(f) : h[i] = f[i]
        /\ \A i \in 1..m : h[Len(f) + i] = g[i]
    BY <1>2
  <1> HIDE DEF h, m
  <1>4. 1 \in 1..Len(f)
    OBVIOUS
  <1> QED
    BY <1>1, <1>3, <1>4 DEF h, m

\* White space before it, and whatever is not a figure after it, make no
\* difference.
LEMMA ParsesWithin ==
    ASSUME NEW C, NEW u \in Seq(C), "newline" \in C, "space" \in C, "openbrace" \in C,
           Len(u) # 0, u[1] \notin White, NEW v,
           LET s == <<"newline">> \o u \o <<"space", "openbrace">> IN
           Yields(s, Values(s)[Len(s)], u, v)
    PROVE  Parse(<<"newline">> \o u \o <<"space", "openbrace">>) = v
  <1> DEFINE a == <<"newline">>
             c == <<"space", "openbrace">>
             d == a \o u
             s == d \o c
             k == Len(u)
             n == Len(s)
  <1>1. /\ a \in Seq(C) /\ c \in Seq(C) /\ Len(a) = 1 /\ a[1] = "newline"
        /\ Len(c) = 2 /\ c[1] = "space" /\ k \in Nat /\ k # 0
    OBVIOUS
  <1>2. Yields(s, Values(s)[n], u, v)
    OBVIOUS
  <1> HIDE DEF a, c
  <1>3. /\ d \in Seq(C) /\ Len(d) = 1 + k /\ d[1] = "newline"
        /\ \A i \in 1..k : d[1 + i] = u[i]
    <2>1. /\ d \in Seq(C) /\ Len(d) = 1 + Len(u) /\ d[1] = a[1]
          /\ \A i \in 1..Len(u) : d[1 + i] = u[i]
      BY <1>1, OneBefore
    <2> HIDE DEF d
    <2> QED
      BY <1>1, <2>1
  <1> HIDE DEF d
  <1>4. /\ s \in Seq(C) /\ n = (1 + k) + 2
        /\ \A i \in 1..(1 + k) : s[i] = d[i]
        /\ s[(1 + k) + 1] = "space"
    <2>8. d \in Seq(C) /\ c \in Seq(C)
      BY <1>1, <1>3
    <2>1. d \o c \in Seq(C) /\ Len(d \o c) = Len(d) + Len(c)
      BY <2>8, Joined
    <2>2. \A i \in 1..Len(d) : (d \o c)[i] = d[i]
      BY <2>8, Joined
    <2>3. (d \o c)[Len(d) + 1] = c[1]
      <3>1. 1 \in 1..Len(c)
        BY <1>1
      <3> QED
        BY <2>8, <3>1, Joined
    <2>4. Len(d) = 1 + k /\ Len(c) = 2 /\ c[1] = "space"
      BY <1>1, <1>3
    <2> HIDE DEF k
    <2>5. s \in Seq(C) /\ n = (1 + k) + 2
      BY <2>1, <2>4
    <2>6. \A i \in 1..(1 + k) : s[i] = d[i]
      BY <2>2, <2>4, Zenon
    <2>7. s[(1 + k) + 1] = "space"
      BY <2>3, <2>4, Zenon
    <2> QED
      BY <2>5, <2>6, <2>7
  <1> HIDE DEF s, n
  <1>5. n \in Nat /\ DOMAIN s = 1..n
    BY <1>1, <1>4 DEF n
  <1> HIDE DEF k
  <1>6. \A i \in 1..k : s[1 + i] = u[i]
    <2> SUFFICES ASSUME NEW i \in 1..k PROVE s[1 + i] = u[i]
      OBVIOUS
    <2>1. 1 + i \in 1..(1 + k)
      BY <1>1
    <2> QED
      BY <1>3, <1>4, <2>1
  <1>7. Stands(s, 2, u)
    <2> SUFFICES ASSUME NEW i \in 1..k PROVE Peek(s, 2 + (i - 1)) = u[i]
      BY DEF Stands, k
    <2>1. 2 + (i - 1) = 1 + i /\ 1 + i \in DOMAIN s
      BY <1>1, <1>4, <1>5
    <2> QED
      BY <1>6, <2>1 DEF Peek
  <1>8. Peek(s, 2 + k) = "space"
    <2>1. 2 + k = (1 + k) + 1 /\ 2 + k \in DOMAIN s
      BY <1>1, <1>4, <1>5
    <2> QED
      BY <1>4, <2>1 DEF Peek
  <1>9. 1 \in Places /\ 2 \in Places
    BY DEF Places
  <1>10. Values(s)[n][2] = Read(v, 2 + k)
    <2>1. "space" \notin FigureSet
      BY DEF FigureSet
    <2> QED
      BY <1>2, <1>7, <1>8, <1>9, <2>1 DEF Yields, k
  <1>11. Peek(s, 1) = "newline" /\ Peek(s, 2) = u[1]
    <2>1. 1 \in DOMAIN s /\ 1 \in 1..(1 + k) /\ 2 \in DOMAIN s /\ 1 \in 1..k /\ 1 + 1 = 2
      BY <1>1, <1>4, <1>5
    <2>2. s[1] = "newline"
      BY <1>3, <1>4, <2>1
    <2>3. s[2] = u[1]
      BY <1>6, <2>1
    <2> QED
      BY <2>1, <2>2, <2>3 DEF Peek
  <1>12. Skip(s, 2) = 2
    BY <1>4, <1>9, <1>11, SkipStays
  <1>13. Skip(s, 1) = 2
    <2> DEFINE q == Skip(s, 1)
    <2>1. /\ q \in Places /\ 1 <= q /\ Peek(s, q) \notin White
          /\ \A i \in 1..(q - 1) : Peek(s, i) \in White
      BY <1>4, <1>9, SkipIs
    <2> HIDE DEF q
    <2>2. "newline" \in White
      BY DEF White
    <2>3. q # 1
      BY <1>11, <2>1, <2>2
    <2>4. ~(q > 2)
      <3> SUFFICES ASSUME q > 2 PROVE FALSE
        OBVIOUS
      <3>1. 2 \in 1..(q - 1)
        BY <2>1 DEF Places
      <3> QED
        BY <1>11, <2>1, <3>1
    <2>5. q = 2
      BY <2>1, <2>3, <2>4 DEF Places
    <2> QED
      BY <2>5 DEF q
  <1>14. Values(s)[n][1] = Values(s)[n][2]
    <2>1. /\ Values(s)[n][1] = ParseValue(s, Inner(s, n), 1)
          /\ Values(s)[n][2] = ParseValue(s, Inner(s, n), 2)
      <3>1. Values(s)[n] = [p \in Places |-> ParseValue(s, Inner(s, n), p)]
        BY <1>5, ValuesStep
      <3> QED
        BY <1>9, <3>1
    <2>2. ParseValue(s, Inner(s, n), 1) = ParseValue(s, Inner(s, n), 2)
      BY <1>12, <1>13 DEF ParseValue
    <2> QED
      BY <2>1, <2>2
  <1>15. Parse(s) = v
    BY <1>10, <1>14 DEF Parse, Read, n
  <1> QED
    BY <1>15 DEF s, d, a, c

\* An object with a member has three characters and more.
LEMMA ObjectText ==
    ASSUME NEW C, Marks \subseteq C, NEW members \in Fields(C), Len(members) # 0
    PROVE  /\ DumpObj(members) \in Seq(C) /\ Len(DumpObj(members)) \in Nat
           /\ Len(DumpObj(members)) >= 3
           /\ DumpObj(members)[1] = "openbrace"
  <1> DEFINE parts == MemberTexts(members)
             u == DumpObj(members)
  <1>1. "comma" \in C /\ "openbrace" \in C /\ "closebrace" \in C
    BY DEF Marks
  <1>2. /\ parts \in Lists(C) /\ Len(parts) = Len(members) /\ Len(members) \in Nat
        /\ \A i \in 1..Len(members) :
               /\ members[i][1] \in Seq(C) /\ members[i][2] \in Seq(C)
               /\ parts[i] = MemberText(members[i][1], members[i][2])
    BY FieldsAre
  <1>3. u = <<"openbrace">> \o Listed(parts) \o <<"closebrace">>
    BY DEF DumpObj, MemberTexts
  <1> HIDE DEF parts, u
  <1>4. Listed(parts) \in Seq(C)
    BY <1>1, <1>2, ListedPartsType
  <1>5. /\ u \in Seq(C) /\ Len(u) = Len(Listed(parts)) + 2 /\ Len(Listed(parts)) \in Nat
        /\ \A s : \A p \in Nat : Stands(s, p, u) => Peek(s, p) = "openbrace"
    BY <1>1, <1>3, <1>4, Framed
  <1>6. Len(Listed(parts)) # 0
    <2>1. PICK place \in [Nat -> Nat] :
              \A i \in Nat : i + 1 = Len(parts) =>
                  place[i] + Len(parts[i + 1]) = Len(Listed(parts))
      BY <1>1, <1>2, ListLaid
    <2> DEFINE i == Len(members) - 1
    <2>2. i \in Nat /\ i + 1 = Len(parts) /\ i + 1 \in 1..Len(members)
      BY <1>2
    <2> HIDE DEF i
    <2>3. place[i] + Len(parts[i + 1]) = Len(Listed(parts)) /\ place[i] \in Nat
      BY <2>1, <2>2
    <2> DEFINE key == members[i + 1][1]
               text == members[i + 1][2]
    <2>4. key \in Seq(C) /\ text \in Seq(C) /\ parts[i + 1] = MemberText(key, text)
      BY <1>2, <2>2
    <2> HIDE DEF key, text
    <2>5. /\ Len(MemberText(key, text)) = (Len(DumpString(key)) + 1) + Len(text)
          /\ Len(DumpString(key)) \in Nat /\ Len(text) \in Nat
      BY <2>4, MemberTextType
    <2> DEFINE a == Len(DumpString(key))
               b == Len(text)
               c == place[i]
               z == Len(Listed(parts))
    <2>6. a \in Nat /\ b \in Nat /\ c \in Nat /\ c + ((a + 1) + b) = z
      BY <2>3, <2>4, <2>5
    <2> HIDE DEF a, b, c, z
    <2>7. z # 0
      BY <2>6
    <2> QED
      BY <2>7 DEF z
  <1>7. Len(u) \in Nat /\ Len(u) >= 3
    BY <1>5, <1>6
  <1>8. u[1] = "openbrace"
    <2>1. Stands(u, 1, u)
      BY <1>5, StandsAlone
    <2>2. Peek(u, 1) = "openbrace"
      BY <1>5, <2>1
    <2>3. 1 \in DOMAIN u
      BY <1>5, <1>7
    <2> QED
      BY <2>2, <2>3 DEF Peek
  <1> QED
    BY <1>5, <1>7, <1>8 DEF u

\* A machine is read back from its text whatever stands around it, and not
\* from less than all of it.
LEMMA MachineReadsBack ==
    ASSUME NEW name \in Names, reg \in BigInts, rem \in BigInts
    PROVE  /\ Parse(Saved(name)) = MachineValue(name)
           /\ Parse(<<"newline">> \o Saved(name) \o <<"space", "openbrace">>)
                  = MachineValue(name)
           /\ \A n \in 0..(Len(Saved(name)) - 1) :
                  Parse(SubSeq(Saved(name), 1, n)).type # "obj"
  <1> DEFINE u == Saved(name)
             v == MachineValue(name)
  <1>1. /\ u \in Seq(Chars) /\ Len(u) \in Nat /\ Len(u) >= 3 /\ u[1] = "openbrace"
    <2> DEFINE members == MachineFields(name)
    <2>1. members \in Fields(Chars) /\ Len(members) # 0
      BY MachineFieldsType
    <2>2. u = DumpObj(members)
      BY DEF Saved, MachineFields
    <2> HIDE DEF members, u
    <2> QED
      BY <2>1, <2>2, ObjectText, CharsAre
  <1>2. ASSUME NEW s \in Seq(Chars), NEW m \in Nat, m >= 3
        PROVE  Yields(s, Values(s)[m], u, v)
    <2>1. m - 3 \in Nat /\ (m - 3) + 3 = m
      BY <1>2
    <2> DEFINE n == m - 3
    <2>2. n \in Nat /\ n + 3 = m
      BY <2>1
    <2> HIDE DEF n
    <2>3. Yields(s, Values(s)[n + 3], u, v)
      BY <2>2, MachineYields
    <2> QED
      BY <2>2, <2>3
  <1> HIDE DEF u, v
  <1>3. Parse(u) = v /\ Values(u)[Len(u)][1] = Read(v, Len(u) + 1)
    <2>1. Yields(u, Values(u)[Len(u)], u, v)
      BY <1>1, <1>2
    <2> QED
      BY <1>1, <2>1, ParsesAs
  <1>4. Parse(<<"newline">> \o u \o <<"space", "openbrace">>) = v
    <2> DEFINE s == <<"newline">> \o u \o <<"space", "openbrace">>
    <2>1. s \in Seq(Chars) /\ Len(s) \in Nat /\ Len(s) >= 3
      <3> DEFINE a == <<"newline">>
                 c == <<"space", "openbrace">>
                 d == a \o u
      <3>1. a \in Seq(Chars) /\ c \in Seq(Chars) /\ Len(a) = 1 /\ Len(c) = 2
        BY CharsAre
      <3> HIDE DEF a, c
      <3>2. d \in Seq(Chars) /\ Len(d) = 1 + Len(u)
        BY <1>1, <3>1, OneBefore
      <3> HIDE DEF d
      <3>3. d \o c \in Seq(Chars) /\ Len(d \o c) = Len(d) + Len(c)
        BY <3>1, <3>2, Joined
      <3>4. Len(d \o c) \in Nat /\ Len(d \o c) >= 3
        BY <1>1, <3>1, <3>2, <3>3
      <3> QED
        BY <3>3, <3>4 DEF d, a, c
    <2>2. Yields(s, Values(s)[Len(s)], u, v)
      <3> HIDE DEF s
      <3> QED
        BY <1>2, <2>1
    <2>3. u[1] \notin White /\ Len(u) # 0
      BY <1>1 DEF White
    <2> QED
      BY <1>1, <2>2, <2>3, ParsesWithin, CharsAre
  <1>5. ASSUME NEW n \in 0..(Len(u) - 1)
        PROVE  Parse(SubSeq(u, 1, n)).type # "obj"
    <2> DEFINE t == SubSeq(u, 1, n)
    <2>1. n \in 0..Len(u) /\ n < Len(u) /\ n <= Len(u)
      BY <1>1
    <2>2. t \in Seq(Chars) /\ Len(t) = n /\ \A j \in 1..n : t[j] = u[j]
      BY <1>1, <2>1, FrontType
    <2> HIDE DEF t
    <2>3. Begins(t, u) /\ Len(t) < Len(u)
      BY <2>1, <2>2 DEF Begins
    <2>4. Values(u)[Len(u)][1].at = Len(u) + 1
      BY <1>3 DEF Read
    <2>5. Parse(t).type # "obj"
      BY <1>1, <2>2, <2>3, <2>4, CutTextRefused
    <2> QED
      BY <2>5 DEF t
  <1> QED
    BY <1>3, <1>4, <1>5 DEF u, v

\* The decimal mirror, parsed.
LEMMA MirrorReadsBack ==
    ASSUME NEW x \in BigInts
    PROVE  Parse(DecimalText(x)) = MirrorValue(x)
  <1> DEFINE u == DecimalText(x)
             v == MirrorValue(x)
             n == Len(u) - 1
  <1>1. u \in Seq(Chars) /\ Len(u) \in Nat /\ Len(u) >= 3
    <2> DEFINE members == MirrorFields(x)
    <2>1. members \in Fields(Chars) /\ Len(members) # 0
      BY MirrorFieldsType
    <2>2. u = DumpObj(members)
      BY DEF DecimalText, MirrorFields
    <2> HIDE DEF members, u
    <2> QED
      BY <2>1, <2>2, ObjectText, CharsAre
  <1>2. n \in Nat /\ n + 1 = Len(u)
    BY <1>1
  <1> HIDE DEF n
  <1>3. Yields(u, Values(u)[n + 1], u, v)
    BY <1>1, <1>2, MirrorYields
  <1> HIDE DEF u, v
  <1>4. Yields(u, Values(u)[Len(u)], u, v)
    BY <1>2, <1>3
  <1>5. Parse(u) = v
    BY <1>1, <1>4, ParsesAs
  <1> QED
    BY <1>5 DEF u, v

\* What the text promises, of any two integers in the registers.
LEMMA TextTrue ==
    ASSUME reg \in BigInts, rem \in BigInts
    PROVE  LoadsWhatWasSaved
  <1>1. ASSUME NEW name \in Names
        PROVE  LET text == Saved(name)
                   v == Parse(<<"newline">> \o text \o <<"space", "openbrace">>)
               IN  /\ Loads(v)
                   /\ Loaded(v) = [base |-> 10, index |-> Depth, num |-> reg,
                                   den |-> rem, spec_name |-> name]
                   /\ \A n \in 0..(Len(text) - 1) : ~Loads(Parse(SubSeq(text, 1, n)))
    <2>1. ASSUME NEW n \in 0..(Len(Saved(name)) - 1)
          PROVE  ~Loads(Parse(SubSeq(Saved(name), 1, n)))
      <3>1. Parse(SubSeq(Saved(name), 1, n)).type # "obj"
        BY MachineReadsBack
      <3> QED
        BY <3>1 DEF Loads, Has
    <2>2. Parse(<<"newline">> \o Saved(name) \o <<"space", "openbrace">>) = MachineValue(name)
      BY MachineReadsBack
    <2>3. /\ Loads(MachineValue(name))
          /\ Loaded(MachineValue(name))
                 = [base |-> 10, index |-> Depth, num |-> reg, den |-> rem, spec_name |-> name]
      BY MachineLoads
    <2> QED
      BY <2>1, <2>2, <2>3
  <1>2. IntegerReads(Parse(DecimalText(reg))) /\ IntegerFrom(Parse(DecimalText(reg))) = reg
    BY MirrorReadsBack, MirrorLoads
  <1> QED
    BY <1>1, <1>2 DEF LoadsWhatWasSaved

-----------------------------------------------------------------------------
(* The register *)

\* Between operations the register is canonical and holds the exact integer.
IInv ==
    /\ reg \in BigInts /\ rem \in BigInts
    /\ exact \in (-MaxValue)..MaxValue
    /\ ValueOf(reg) = exact

\* A step leaves canonical integers, and the register with the exact value.
Holds ==
    /\ reg' \in BigInts /\ rem' \in BigInts
    /\ ValueOf(reg') = exact'

LEMMA CanonicalType == \A x \in BigInts : Canonical(x)
  <1> SUFFICES ASSUME NEW x \in BigInts PROVE Canonical(x)
    OBVIOUS
  <1> DEFINE R == 0..(Limb - 1)
             m == x.mag
  <1>1. m \in Seq(R) /\ (Len(m) > 0 => m[Len(m)] # 0) /\ (x.negative => m # <<>>)
    BY DEF BigInts, Magnitudes
  <1>2. \A i \in 1..Len(m) : m[i] \in R
    <2> HIDE DEF R, m
    <2> QED
      BY <1>1
  <1> QED
    BY <1>1, <1>2 DEF Canonical

LEMMA AddHolds ==
    ASSUME IInv, NEW n \in Int, Add(n)
    PROVE  Holds
  <1>1. Of(n) \in BigInts /\ ValueOf(Of(n)) = n
    BY OfIs
  <1>2. reg' = Plus(reg, Of(n)) /\ rem' = Zero /\ exact' = exact + n
    BY DEF Add, Becomes
  <1>3. reg \in BigInts /\ ValueOf(reg) = exact
    BY DEF IInv
  <1>4. /\ Plus(reg, Of(n)) \in BigInts
        /\ ValueOf(Plus(reg, Of(n))) = ValueOf(reg) + ValueOf(Of(n))
    BY <1>1, <1>3, PlusAdds
  <1> QED
    BY <1>1, <1>2, <1>3, <1>4, ZeroIs DEF Holds

LEMMA SubtractHolds ==
    ASSUME IInv, NEW n \in Int, Subtract(n)
    PROVE  Holds
  <1>1. Of(n) \in BigInts /\ ValueOf(Of(n)) = n
    BY OfIs
  <1> DEFINE y == Negate(Of(n))
  <1>2. y \in BigInts /\ ValueOf(y) = -n
    BY <1>1, Negation
  <1>3. reg' = Plus(reg, y) /\ rem' = Zero /\ exact' = exact - n
    BY DEF Subtract, Becomes
  <1> HIDE DEF y
  <1>4. reg \in BigInts /\ ValueOf(reg) = exact /\ exact \in Int
    BY DEF IInv
  <1>5. /\ Plus(reg, y) \in BigInts
        /\ ValueOf(Plus(reg, y)) = ValueOf(reg) + ValueOf(y)
    BY <1>2, <1>4, PlusAdds
  <1>6. exact + (-n) = exact - n
    BY <1>4
  <1> QED
    BY <1>2, <1>3, <1>4, <1>5, <1>6, ZeroIs DEF Holds

LEMMA MultiplyHolds ==
    ASSUME IInv, NEW n \in Int, Multiply(n)
    PROVE  Holds
  <1>1. Of(n) \in BigInts /\ ValueOf(Of(n)) = n
    BY OfIs
  <1>2. reg' = Times(reg, Of(n)) /\ rem' = Zero /\ exact' = exact * n
    BY DEF Multiply, Becomes
  <1>3. reg \in BigInts /\ ValueOf(reg) = exact
    BY DEF IInv
  <1>4. /\ Times(reg, Of(n)) \in BigInts
        /\ ValueOf(Times(reg, Of(n))) = ValueOf(reg) * ValueOf(Of(n))
    BY <1>1, <1>3, TimesMultiplies
  <1> QED
    BY <1>1, <1>2, <1>3, <1>4, ZeroIs DEF Holds

\* The remainder of a division, and its divisor, in what the step leaves.
LEMMA DivideHolds ==
    ASSUME IInv, NEW n \in Int, Divide(n)
    PROVE  /\ Holds /\ n # 0 /\ op' = "div" /\ arg' = n
           /\ Truncates(ValueOf(reg), n, ValueOf(reg'), ValueOf(rem'))
  <1>1. Of(n) \in BigInts /\ ValueOf(Of(n)) = n
    BY OfIs
  <1> DEFINE d == DivMod(reg, Of(n))
  <1>2. /\ n # 0 /\ op' = "div" /\ arg' = n /\ exact' = Quotient(exact, n)
        /\ reg' = d.quotient /\ rem' = d.rem
    BY DEF Divide, Becomes
  <1>3. reg \in BigInts /\ ValueOf(reg) = exact
    BY DEF IInv
  <1>4. /\ d.quotient \in BigInts /\ d.rem \in BigInts
        /\ Truncates(ValueOf(reg), n, ValueOf(d.quotient), ValueOf(d.rem))
    BY <1>1, <1>2, <1>3, DivModDivides
  <1> HIDE DEF d
  <1>5. ValueOf(reg') = exact'
    BY <1>2, <1>3, <1>4 DEF Truncates
  <1> QED
    BY <1>2, <1>4, <1>5 DEF Holds

LEMMA FloorDivideHolds ==
    ASSUME IInv, NEW n \in Int, FloorDivide(n)
    PROVE  /\ Holds /\ n # 0 /\ op' = "floor" /\ arg' = n
           /\ Floors(ValueOf(reg), n, ValueOf(reg'), ValueOf(rem'))
  <1>1. Of(n) \in BigInts /\ ValueOf(Of(n)) = n
    BY OfIs
  <1> DEFINE d == FloorDiv(reg, Of(n))
  <1>2. /\ n # 0 /\ op' = "floor" /\ arg' = n /\ exact' = Floor(exact, n)
        /\ reg' = d.quotient /\ rem' = d.rem
    BY DEF FloorDivide, Becomes
  <1>3. reg \in BigInts /\ ValueOf(reg) = exact
    BY DEF IInv
  <1>4. /\ d.quotient \in BigInts /\ d.rem \in BigInts
        /\ Floors(ValueOf(reg), n, ValueOf(d.quotient), ValueOf(d.rem))
    BY <1>1, <1>2, <1>3, FloorDivDivides
  <1> HIDE DEF d
  <1>5. ValueOf(reg') = exact'
    BY <1>2, <1>3, <1>4 DEF Floors
  <1> QED
    BY <1>2, <1>4, <1>5 DEF Holds

LEMMA RaiseHolds ==
    ASSUME IInv, NEW n \in Exponents, Raise(n)
    PROVE  Holds
  <1>1. n \in Nat
    BY BigIntAssumption
  <1>2. /\ reg' = Power(reg, n) /\ rem' = Zero
        /\ exact' = IF n = 0 THEN 1 ELSE exact^n
    BY DEF Raise, Becomes
  <1>3. reg \in BigInts /\ ValueOf(reg) = exact /\ exact \in (-MaxValue)..MaxValue
    BY DEF IInv
  <1>4. Power(reg, n) \in BigInts /\ ValueOf(Power(reg, n)) = Powers(exact)[n]
    BY <1>1, <1>3, PowerRaises
  <1>5. Powers(exact)[n] = IF n = 0 THEN 1 ELSE exact^n
    <2>1. CASE n = 0
      <3>1. exact \in Int
        BY <1>3, BigIntAssumption
      <3>2. Powers(exact)[0] = 1
        BY <3>1, PowersRun
      <3> QED
        BY <2>1, <3>2
    <2>2. CASE n # 0
      BY <1>3, <2>2, PowAssumption
    <2> QED
      BY <2>1, <2>2
  <1> QED
    BY <1>2, <1>4, <1>5, ZeroIs DEF Holds

\* A restart leaves the registers as they were.
LEMMA RestartHolds ==
    ASSUME IInv, NEW name \in Names, Restart(name)
    PROVE  IInv' /\ reg' = reg /\ rem' = rem /\ op' = "load"
  <1>1. reg \in BigInts /\ rem \in BigInts
    BY DEF IInv
  <1>2. Parse(Saved(name)) = MachineValue(name)
    BY <1>1, MachineReadsBack
  <1>3. /\ Loaded(MachineValue(name)).num = reg
        /\ Loaded(MachineValue(name)).den = rem
    BY <1>1, MachineLoads
  <1>4. /\ reg' = reg /\ rem' = rem /\ op' = "load" /\ exact' = exact
    BY <1>2, <1>3 DEF Restart, Becomes
  <1> QED
    BY <1>4 DEF IInv

\* The invariant is inductive.
LEMMA StepKeeps == IInv /\ [TextNext]_vars => IInv'
  <1> SUFFICES ASSUME IInv, [TextNext]_vars PROVE IInv'
    OBVIOUS
  <1>0. \A n \in Operands : n \in Int
    BY BigIntAssumption
  <1>1. ASSUME Next PROVE IInv'
    <2>1. Holds
      <3>1. ASSUME NEW n \in Operands,
                   Add(n) \/ Subtract(n) \/ Multiply(n) \/ Divide(n) \/ FloorDivide(n)
            PROVE  Holds
        <4>1. n \in Int
          BY <1>0
        <4> QED
          BY <3>1, <4>1, AddHolds, SubtractHolds, MultiplyHolds, DivideHolds,
             FloorDivideHolds
      <3>2. ASSUME NEW n \in Exponents, Raise(n) PROVE Holds
        BY <3>2, RaiseHolds
      <3> QED
        BY <1>1, <3>1, <3>2 DEF Next
    <2>2. exact' \in (-MaxValue)..MaxValue
      BY <1>1 DEF Next
    <2> QED
      BY <2>1, <2>2 DEF Holds, IInv
  <1>2. ASSUME NEW name \in Names, Restart(name) PROVE IInv'
    BY <1>2, RestartHolds
  <1>3. CASE UNCHANGED vars
    BY <1>3 DEF vars, IInv
  <1> QED
    BY <1>1, <1>2, <1>3 DEF TextNext

LEMMA Invariant == TextSpec => []IInv
  <1>1. Init => IInv
    <2> SUFFICES ASSUME Init PROVE IInv
      OBVIOUS
    <2>1. 0 \in (-MaxValue)..MaxValue
      BY BigIntAssumption
    <2> QED
      BY <2>1, ZeroIs DEF Init, IInv
  <1> QED
    BY <1>1, StepKeeps, PTL DEF TextSpec

\* Both registers stay canonical (big_int.hpp:27-29), so that equality may
\* compare limbs and sign, for limbs of any width and operands of any length.
THEOREM TypeCorrect == TextSpec => []TypeOK
  <1>1. IInv => TypeOK
    BY CanonicalType DEF IInv, TypeOK
  <1> QED
    BY <1>1, Invariant, PTL

\* No carry, borrow, row of a product or shifted bit is lost: the register
\* holds the exact integer after any sequence of additions, subtractions,
\* products, divisions of both kinds and powers.
THEOREM ValueCorrect == TextSpec => []ValueExact
  <1>1. IInv => ValueExact
    BY DEF IInv, ValueExact
  <1> QED
    BY <1>1, Invariant, PTL

\* big_gcd returns the greatest common divisor, whatever the signs.
THEOREM GcdCorrect == TextSpec => []GcdTrue
  <1>1. IInv => GcdTrue
    <2> SUFFICES ASSUME IInv, NEW n \in Operands
                 PROVE  LET g == ValueOf(Gcd(reg, Of(n))) IN
                        IF g = 0 THEN exact = 0 /\ n = 0
                        ELSE /\ exact % g = 0 /\ n % g = 0
                             /\ \A d \in 1..Magnitude(n) :
                                    n % d = 0 /\ exact % d = 0 => g % d = 0
      BY DEF GcdTrue
    <2> DEFINE g == ValueOf(Gcd(reg, Of(n)))
    <2>1. /\ n \in Int /\ reg \in BigInts /\ ValueOf(reg) = exact /\ exact \in Int
          /\ Of(n) \in BigInts /\ ValueOf(Of(n)) = n
      <3>1. n \in Int
        BY BigIntAssumption
      <3>2. reg \in BigInts /\ ValueOf(reg) = exact /\ exact \in Int
        BY BigIntAssumption DEF IInv
      <3>3. Of(n) \in BigInts /\ ValueOf(Of(n)) = n
        BY <3>1, OfIs
      <3> QED
        BY <3>1, <3>2, <3>3
    <2>2. g \in Nat /\ Greatest(g, exact, n)
      BY <2>1, GcdDivides
    <2> HIDE DEF g
    <2>3. Divides(g, exact) /\ Divides(g, n)
      BY <2>2 DEF Greatest
    <2>4. CASE g = 0
      <3>1. \A k \in Int : k * 0 = 0
        OBVIOUS
      <3>2. exact = 0 /\ n = 0
        BY <2>3, <2>4, <3>1 DEF Divides
      <3> QED
        BY <2>4, <3>2 DEF g
    <2>5. CASE g # 0
      <3>1. exact % g = 0 /\ n % g = 0
        <4>1. g \in Nat \ {0}
          BY <2>2, <2>5
        <4> QED
          BY <2>1, <2>3, <4>1, DividesIsNoRemainder
      <3>2. ASSUME NEW d \in 1..Magnitude(n), n % d = 0, exact % d = 0
            PROVE  g % d = 0
        <4>1. d \in Nat \ {0} /\ d \in Nat /\ g \in Int
          BY <2>1, <2>2 DEF Magnitude
        <4>2. Divides(d, n) /\ Divides(d, exact)
          BY <2>1, <3>2, <4>1, DividesIsNoRemainder
        <4>3. Divides(d, g)
          BY <2>2, <4>1, <4>2 DEF Greatest
        <4> QED
          BY <4>1, <4>3, DividesIsNoRemainder
      <3> QED
        BY <2>5, <3>1, <3>2 DEF g
    <2> QED
      BY <2>4, <2>5
  <1> QED
    BY <1>1, Invariant, PTL

\* Every division makes up its dividend with a remainder smaller than the
\* divisor, which the floored one leaves with the divisor's sign
\* (big_int.hpp:160-161).
THEOREM DivisionCorrect == TextSpec => DivisionTrue
  <1> DEFINE Made(n) ==
                op' \in {"div", "floor"} /\ arg' = n =>
                    /\ ValueOf(reg') * n + ValueOf(rem') = ValueOf(reg)
                    /\ Magnitude(ValueOf(rem')) < Magnitude(n)
                    /\ op' = "floor" /\ n > 0 => ValueOf(rem') >= 0
  <1>1. ASSUME IInv, [TextNext]_vars PROVE [\A n \in Operands : Made(n)]_vars
    <2>0. ASSUME NEW name \in Names, Restart(name), NEW n \in Operands PROVE Made(n)
      BY <2>0 DEF Restart, Becomes
    <2>1. ASSUME Next, NEW n \in Operands PROVE Made(n)
      <3>1. n \in Int
        BY BigIntAssumption
      <3>2. ASSUME NEW k \in Operands, Add(k) \/ Subtract(k) \/ Multiply(k)
            PROVE  op' \notin {"div", "floor"}
        BY <3>2 DEF Add, Subtract, Multiply, Becomes
      <3>3. ASSUME NEW k \in Exponents, Raise(k) PROVE op' \notin {"div", "floor"}
        BY <3>3 DEF Raise, Becomes
      <3>4. ASSUME NEW k \in Operands, Divide(k) PROVE Made(n)
        <4>1. k \in Int
          BY BigIntAssumption
        <4>2. /\ op' = "div" /\ arg' = k
              /\ Truncates(ValueOf(reg), k, ValueOf(reg'), ValueOf(rem'))
          BY <1>1, <3>4, <4>1, DivideHolds
        <4> QED
          BY <4>2 DEF Truncates
      <3>5. ASSUME NEW k \in Operands, FloorDivide(k) PROVE Made(n)
        <4>1. k \in Int
          BY BigIntAssumption
        <4>2. /\ op' = "floor" /\ arg' = k /\ k # 0
              /\ Floors(ValueOf(reg), k, ValueOf(reg'), ValueOf(rem'))
          BY <1>1, <3>5, <4>1, FloorDivideHolds
        <4>3. /\ ValueOf(reg) = ValueOf(reg') * k + ValueOf(rem')
              /\ k > 0 => ValueOf(rem') \in 0..(k - 1)
              /\ k < 0 => ValueOf(rem') \in (k + 1)..0
          BY <4>2 DEF Floors
        <4>4. Magnitude(ValueOf(rem')) < Magnitude(k)
          BY <4>1, <4>2, <4>3 DEF Magnitude
        <4>5. k > 0 => ValueOf(rem') >= 0
          BY <4>3
        <4> QED
          BY <4>2, <4>3, <4>4, <4>5
      <3> HIDE DEF Made
      <3>6. CASE op' \in {"div", "floor"}
        BY <2>1, <3>2, <3>3, <3>4, <3>5, <3>6 DEF Next
      <3>7. CASE op' \notin {"div", "floor"}
        BY <3>7 DEF Made
      <3> QED
        BY <3>6, <3>7
    <2> HIDE DEF Made
    <2> QED
      BY <1>1, <2>0, <2>1 DEF TextNext
  <1> QED
    BY <1>1, Invariant, PTL DEF TextSpec, DivisionTrue

\* Whatever was saved loads as it was, with other text around it, and from its
\* decimal mirror; and no text whose end is missing loads (serialize.hpp:59-61,
\* 426-428), for any numbers and any name.
THEOREM TextCorrect == TextSpec => []LoadsWhatWasSaved
  <1>1. IInv => LoadsWhatWasSaved
    BY TextTrue DEF IInv
  <1> QED
    BY <1>1, Invariant, PTL
=============================================================================
