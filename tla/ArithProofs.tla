---------------------------- MODULE ArithProofs ----------------------------
(***************************************************************************)
(* Theorems about Arith: the digits of a sum, difference, product or       *)
(* quotient are true, for every base, every two operands in that base and  *)
(* every place where an operand pends or a budget runs out, as long as an  *)
(* operand's run of kTerminateRun zeros is the end of it.                  *)
(***************************************************************************)
EXTENDS Arith, FiniteSetTheorems, Recursion

-----------------------------------------------------------------------------
(* Integer lemmas *)

\* Division and remainder.
LEMMA Division ==
    ASSUME NEW a \in Int, NEW d \in Nat \ {0}
    PROVE  /\ a \div d \in Int /\ a % d \in 0..(d - 1)
           /\ a = d * (a \div d) + (a % d)
  BY SMT

\* A quotient is known by the interval its dividend lies in.
LEMMA QuotientIs ==
    ASSUME NEW a \in Int, NEW d \in Nat \ {0}, NEW q \in Int,
           q * d <= a, a < (q + 1) * d
    PROVE  a \div d = q
  <1> DEFINE t == a \div d
             m == a % d
  <1>1. t \in Int /\ m \in 0..(d - 1) /\ a = d * t + m
    BY Division
  <1> HIDE DEF t, m
  <1>2. t < q + 1
    <2> SUFFICES ASSUME q + 1 <= t PROVE FALSE
      BY <1>1
    <2>1. (q + 1) * d <= t * d
      BY <1>1
    <2> QED
      BY <2>1, <1>1
  <1>3. q < t + 1
    <2> SUFFICES ASSUME t + 1 <= q PROVE FALSE
      BY <1>1
    <2>1. (t + 1) * d <= q * d
      BY <1>1
    <2>2. (t + 1) * d = d * t + d
      BY <1>1
    <2> QED
      BY <2>1, <2>2, <1>1
  <1> QED
    BY <1>1, <1>2, <1>3 DEF t

\* Both sides of an inequality scaled.
LEMMA Products == \A x, y \in Int : x * y \in Int
  OBVIOUS

\* Taking off an integer part and a prefix before or after a product.
LEMMA TakenOff ==
    ASSUME NEW x \in Int, NEW i \in Int, NEW s \in Int,
           NEW k \in Int, NEW p \in Int, NEW d \in Int
    PROVE  ((x - i * s) * k - p * s) * d = (x * d) * k - ((i * s) * k + p * s) * d
  <1> DEFINE A == i * s
             B == p * s
             C == x * k
             D == A * k
  <1>1. A \in Int /\ B \in Int /\ C \in Int
    BY Products
  <1>2. (x * k) * d = (x * d) * k
    OBVIOUS
  <1> HIDE DEF A, B
  <1>3. (x - A) * k = C - D
    BY <1>1
  <1>4. D \in Int
    BY <1>1, Products
  <1> HIDE DEF C, D
  <1>5. ((C - D) - B) * d = C * d - (D + B) * d
    BY <1>1, <1>4
  <1> QED
    BY <1>2, <1>3, <1>5 DEF A, B, C, D

LEMMA Scaling ==
    ASSUME NEW a \in Int, NEW b \in Int, NEW c \in Nat, a <= b
    PROVE  a * c <= b * c /\ c * a <= c * b
  BY SMT

LEMMA ScalingBack ==
    ASSUME NEW a \in Int, NEW b \in Int, NEW c \in Nat \ {0}
    PROVE  /\ a * c <= b * c => a <= b
           /\ a * c < b * c => a < b
  BY SMT

\* An end of an interval and a fraction, seen from another multiple of both.
LEMMA DigitFrom ==
    ASSUME NEW B \in Nat, NEW k \in Nat, k < B, NEW q \in Int
    PROVE  (B * q + k) % B = k
  <1> DEFINE a == B * q + k
  <1>1. a \in Int /\ B \in Nat \ {0}
    OBVIOUS
  <1>2. q * B <= a /\ a < (q + 1) * B
    OBVIOUS
  <1>3. a \div B = q
    BY <1>1, <1>2, QuotientIs
  <1>4. a = B * (a \div B) + (a % B) /\ a % B \in Int
    BY <1>1, Division
  <1> QED
    BY <1>3, <1>4

-----------------------------------------------------------------------------
(* The greatest common divisor: what reduce_fraction needs of it *)

\* Euclid's recursion has a solution.
LEMMA GcdDefined ==
    \E g \in [Nat \X Nat -> Nat] :
        g = [p \in Nat \X Nat |->
               IF p[2] = 0 THEN p[1] ELSE g[<<p[2], p[1] % p[2]>>]]
  <1> DEFINE S == Nat \X Nat
             Stop == {p \in S : p[2] = 0}
             measure == [p \in S |-> p[2]]
             value == [p \in S |-> p[1]]
             next == [p \in S |-> IF p[2] = 0 THEN p ELSE <<p[2], p[1] % p[2]>>]
             F == [p \in S |-> [n \in Nat |-> n]]
  <1>1. ASSUME NEW p \in S, p[2] # 0
        PROVE  <<p[2], p[1] % p[2]>> \in S /\ p[1] % p[2] < p[2]
    <2>1. p[1] \in Int /\ p[2] \in Nat \ {0}
      BY <1>1
    <2>2. p[1] % p[2] \in 0..(p[2] - 1)
      BY <2>1, Division
    <2> QED
      BY <2>1, <2>2
  <1>2. next \in [S -> S]
    BY <1>1
  <1>3. \A p \in S \ Stop : measure[next[p]] < measure[p]
    BY <1>1
  <1>4. /\ Stop \in SUBSET S /\ measure \in [S -> Nat] /\ value \in [S -> Nat]
        /\ F \in [S -> [Nat -> Nat]]
    OBVIOUS
  <1>5. PICK g \in [S -> Nat] : Descends(g, S, Stop, value, next, F)
    <2> HIDE DEF S, Stop, measure, value, next, F
    <2> QED
      BY <1>2, <1>3, <1>4, MeasuredRecursion
  <1>6. ASSUME NEW p \in S
        PROVE  g[p] = IF p[2] = 0 THEN p[1] ELSE g[<<p[2], p[1] % p[2]>>]
    <2>1. p \in Stop <=> p[2] = 0
      OBVIOUS
    <2>2. g[p] = IF p \in Stop THEN value[p] ELSE F[p][g[next[p]]]
      BY <1>5 DEF Descends
    <2>3. g[next[p]] \in Nat
      BY <1>2
    <2> QED
      BY <2>1, <2>2, <2>3
  <1> QED
    BY <1>6

LEMMA GcdStep ==
    \A p \in Nat \X Nat :
        Gcd[p] = IF p[2] = 0 THEN p[1] ELSE Gcd[<<p[2], p[1] % p[2]>>]
  <1>1. Gcd = [p \in Nat \X Nat |->
                 IF p[2] = 0 THEN p[1] ELSE Gcd[<<p[2], p[1] % p[2]>>]]
    BY GcdDefined DEF Gcd
  <1> QED
    BY <1>1

Divides(g, a) == \E m \in Int : a = g * m

\* What Euclid's recursion returns divides both numbers, and is not zero
\* unless both are.
LEMMA GcdDivides ==
    ASSUME NEW a \in Nat, NEW b \in Nat
    PROVE  LET g == Gcd[<<a, b>>] IN
           /\ g \in Nat /\ Divides(g, a) /\ Divides(g, b)
           /\ a > 0 => g > 0
  <1> DEFINE Fine(c, d) == LET g == Gcd[<<c, d>>] IN
                 /\ g \in Nat /\ Divides(g, c) /\ Divides(g, d)
                 /\ c > 0 \/ d > 0 => g > 0
             S == {n \in Nat : \A c, d \in Nat : d <= n => Fine(c, d)}
  <1>1. ASSUME NEW c \in Nat PROVE Fine(c, 0)
    <2>1. Gcd[<<c, 0>>] = c
      <3>1. <<c, 0>> \in Nat \X Nat
        OBVIOUS
      <3> QED
        BY <3>1, GcdStep
    <2>2. c = c * 1 /\ 0 = c * 0
      OBVIOUS
    <2>3. Divides(c, c) /\ Divides(c, 0)
      BY <2>2 DEF Divides
    <2> QED
      BY <2>1, <2>3
  <1>2. 0 \in S
    <2> HIDE DEF Fine
    <2>1. \A d \in Nat : d <= 0 => d = 0
      OBVIOUS
    <2> QED
      BY <1>1, <2>1
  <1>3. ASSUME NEW n \in Nat, n \in S PROVE n + 1 \in S
    <2> SUFFICES ASSUME NEW c \in Nat, NEW d \in Nat, d <= n + 1, d # 0
                 PROVE  Fine(c, d)
      <3> HIDE DEF Fine
      <3> QED
        BY <1>1
    <2> DEFINE r == c % d
               g == Gcd[<<d, r>>]
    <2>1. r \in Nat /\ r < d /\ c \div d \in Int /\ c = d * (c \div d) + r
      <3>1. c \in Int /\ d \in Nat \ {0}
        OBVIOUS
      <3> QED
        BY <3>1, Division
    <2>2. Fine(d, r)
      <3> HIDE DEF Fine, r
      <3> QED
        BY <1>3, <2>1
    <2>3. Gcd[<<c, d>>] = g
      <3>1. <<c, d>> \in Nat \X Nat
        OBVIOUS
      <3> QED
        BY <3>1, GcdStep
    <2>4. Divides(g, c)
      <3>1. PICK m1 \in Int : d = g * m1
        BY <2>2 DEF Divides
      <3>2. PICK m2 \in Int : r = g * m2
        BY <2>2 DEF Divides
      <3> DEFINE q == c \div d
      <3>3. q \in Int /\ c = d * q + r
        BY <2>1
      <3> HIDE DEF q, r
      <3>4. g \in Nat
        BY <2>2
      <3> HIDE DEF g
      <3>5. c = g * (m1 * q + m2)
        BY <3>1, <3>2, <3>3, <3>4
      <3>6. m1 * q + m2 \in Int
        BY <3>1, <3>2, <3>3
      <3> QED
        BY <3>5, <3>6 DEF Divides
    <2> QED
      BY <2>2, <2>3, <2>4
  <1>4. \A n \in Nat : n \in S
    <2> HIDE DEF S
    <2> QED
      BY <1>2, <1>3, SetInduction
  <1> HIDE DEF Fine
  <1>5. Fine(a, b)
    BY <1>4
  <1> QED
    BY <1>5 DEF Fine

\* A common divisor taken out of an interval leaves its ends where they were.
LEMMA DividedOut ==
    ASSUME NEW g \in Nat \ {0}, NEW a \in Int, Divides(g, a)
    PROVE  a \div g \in Int /\ (a \div g) * g = a
  <1>1. PICK m \in Int : a = g * m
    BY DEF Divides
  <1>2. m * g <= a /\ a < (m + 1) * g
    BY <1>1
  <1>3. a \div g = m
    BY <1>2, QuotientIs
  <1> QED
    BY <1>1, <1>3

-----------------------------------------------------------------------------
(* The operand boxes *)

\* An operand is read in the base it was made in: that of the result.
OneBase == \A v \in Values : v.base = Base

\* When an operand has given kTerminateRun zeros in a row, nothing is left of
\* it: what collapse_if_terminated takes for granted.
RunsEnd ==
    \A v \in Values : \A k \in ZeroRun..MaxPos :
        (\A j \in (k - ZeroRun + 1)..k : DigitOf(v, j) = 0)
            => (v.num * Base^k) % v.den = 0

Boxes == [lo : Nat, hi : Nat, den : Nat \ {0}, run : Nat, pos : 0..MaxPos]

\* The denominator counts the digits read: nothing is ever stripped from it.
Shape(b) == b \in Boxes /\ b.den = Base^b.pos

\* The first k digits of an operand, as an integer.
Taken(v, k) == (v.num * Base^k) \div v.den

\* A box holds the digits read of an operand in the base of the result, and is
\* one unit of the last place wide, or a point after a run of zeros.
BoxInv(b, v) ==
    /\ Shape(b)
    /\ b.lo = Taken(v, b.pos)
    /\ b.hi = b.lo + 1 \/ (b.hi = b.lo /\ b.run >= ZeroRun)
    /\ b.run <= b.pos
    /\ \A j \in (b.pos - b.run + 1)..b.pos : DigitOf(v, j) = 0

LEMMA ValueType ==
    ASSUME NEW v \in Values
    PROVE  v.num \in Nat /\ v.den \in Nat \ {0} /\ v.num < v.den
  BY ArithAssumption

LEMMA BaseType == Base \in Nat \ {0, 1} /\ Base > 1
  BY ArithAssumption

LEMMA PowType ==
    ASSUME NEW n \in Nat, n <= MaxPos + MaxDigits
    PROVE  Base^n \in Nat \ {0} /\ Base^(n + 1) = Base * Base^n
  <1>1. n \in 0..(MaxPos + MaxDigits)
    BY ArithAssumption DEF MaxPos
  <1> QED
    BY <1>1, PowAssumption

LEMMA TakenType ==
    ASSUME NEW v \in Values, NEW k \in Nat, k <= MaxPos
    PROVE  /\ v.num * Base^k \in Nat /\ Taken(v, k) \in Nat
           /\ Taken(v, k) * v.den <= v.num * Base^k
           /\ v.num * Base^k < (Taken(v, k) + 1) * v.den
  <1> DEFINE a == v.num * Base^k
             d == v.den
  <1>1. k <= MaxPos + MaxDigits
    BY ArithAssumption DEF MaxPos
  <1>2. a \in Nat /\ d \in Nat \ {0}
    BY <1>1, ValueType, PowType
  <1>3. a \div d \in Int /\ a % d \in 0..(d - 1) /\ a = d * (a \div d) + (a % d)
    <2> HIDE DEF a, d
    <2> QED
      BY <1>2, Division
  <1> DEFINE t == a \div d
  <1>4. t \in Int /\ t * d <= a /\ a < (t + 1) * d
    <2>1. a = d * t + (a % d) /\ a % d \in 0..(d - 1)
      BY <1>3
    <2> HIDE DEF a, d, t
    <2>2. t \in Int
      BY <1>3 DEF t
    <2>3. t * d \in Int /\ d * t = t * d /\ (t + 1) * d = t * d + d
      BY <1>2, <2>2
    <2> QED
      BY <1>2, <2>1, <2>2, <2>3
  <1>5. t >= 0
    <2> SUFFICES ASSUME t + 1 <= 0 PROVE FALSE
      BY <1>4
    <2>1. (t + 1) * d <= 0 * d
      BY <1>2, <1>4, Scaling
    <2> QED
      BY <2>1, <1>2, <1>4
  <1>6. t = Taken(v, k)
    BY DEF Taken
  <1> QED
    BY <1>2, <1>4, <1>5, <1>6

\* A digit read extends the digits read before by one place.
LEMMA TakenGrows ==
    ASSUME OneBase, NEW v \in Values, NEW k \in Nat, k < MaxPos
    PROVE  /\ DigitOf(v, k + 1) \in 0..(Base - 1)
           /\ Taken(v, k + 1) = Taken(v, k) * Base + DigitOf(v, k + 1)
  <1> DEFINE B == Base
             d == v.den
             a == v.num * Base^k
             h == Taken(v, k)
             left == a - h * d
             e == (B * left) \div d
  <1>1. /\ B \in Nat \ {0} /\ d \in Nat \ {0} /\ a \in Nat /\ h \in Nat
        /\ h * d <= a /\ a < (h + 1) * d
    <2>1. k <= MaxPos
      BY ArithAssumption DEF MaxPos
    <2> QED
      BY <2>1, BaseType, ValueType, TakenType
  <1>2. v.num * Base^(k + 1) = B * a
    <2>1. k <= MaxPos + MaxDigits
      BY ArithAssumption DEF MaxPos
    <2>2. Base^(k + 1) = B * Base^k /\ Base^k \in Nat
      BY <2>1, PowType
    <2>3. v.num \in Nat
      BY ValueType
    <2> QED
      BY <1>1, <2>2, <2>3
  <1> HIDE DEF B, d, a, h
  <1>3. left \in Nat /\ left < d /\ a = h * d + left
    BY <1>1
  <1> HIDE DEF left
  <1>4. /\ B * left \in Nat /\ e \in Int
        /\ e * d <= B * left /\ B * left < (e + 1) * d
    <2>1. B * left \in Nat
      BY <1>1, <1>3
    <2> DEFINE m == B * left
    <2>2. m \in Int
      BY <2>1
    <2>3. m \div d \in Int /\ m % d \in 0..(d - 1) /\ m = d * (m \div d) + (m % d)
      <3> HIDE DEF m
      <3> QED
        BY <1>1, <2>2, Division
    <2>4. e = m \div d
      BY DEF e
    <2> HIDE DEF m
    <2>5. e \in Int /\ e * d <= m /\ m < (e + 1) * d
      BY <1>1, <2>2, <2>3, <2>4
    <2> QED
      BY <2>1, <2>5 DEF m
  <1> HIDE DEF e
  <1>5. e >= 0
    <2> SUFFICES ASSUME e + 1 <= 0 PROVE FALSE
      BY <1>4
    <2>1. (e + 1) * d <= 0 * d
      BY <1>1, <1>4, Scaling
    <2> QED
      BY <2>1, <1>1, <1>4
  <1>6. e < B
    <2> SUFFICES ASSUME B <= e PROVE FALSE
      BY <1>1, <1>4
    <2>1. B * d <= e * d
      BY <1>1, <1>4, Scaling
    <2>2. B * left < B * d
      BY <1>1, <1>3
    <2>3. e * d \in Int /\ B * d \in Int
      BY <1>1, <1>4
    <2> QED
      BY <2>1, <2>2, <2>3, <1>4
  <1>7. (B * a) \div d = h * B + e
    <2>1. B * a = (h * B) * d + B * left
      BY <1>1, <1>3
    <2>2. (h * B + e) * d = (h * B) * d + e * d
      BY <1>1, <1>4
    <2>3. (h * B + e + 1) * d = (h * B) * d + (e + 1) * d
      BY <1>1, <1>4
    <2>4. (h * B) * d \in Int /\ e * d \in Int /\ (e + 1) * d \in Int
      BY <1>1, <1>4
    <2>5. (h * B + e) * d <= B * a /\ B * a < (h * B + e + 1) * d
      BY <2>1, <2>2, <2>3, <2>4, <1>4
    <2>6. B * a \in Int /\ h * B + e \in Int
      BY <1>1, <1>4
    <2> QED
      BY <2>5, <2>6, <1>1, QuotientIs
  <1>8. Taken(v, k + 1) = h * B + e
    BY <1>2, <1>7 DEF Taken, d
  <1>9. DigitOf(v, k + 1) = e
    <2>1. DigitOf(v, k + 1) = (h * B + e) % B
      BY <1>2, <1>7 DEF DigitOf, OneBase, B, d
    <2>2. h * B + e = B * h + e
      BY <1>1
    <2>3. e \in Nat /\ h \in Int
      BY <1>1, <1>4, <1>5
    <2>4. (B * h + e) % B = e
      BY <2>3, <1>1, <1>6, DigitFrom
    <2> QED
      BY <2>1, <2>2, <2>4
  <1> QED
    BY <1>1, <1>4, <1>5, <1>6, <1>8, <1>9 DEF B, h

\* Two neighbours have no common divisor but one.
LEMMA Neighbours ==
    ASSUME NEW n \in Nat, NEW p \in Nat \ {0}, n % p = 0, (n + 1) % p = 0
    PROVE  p = 1
  <1>1. n \div p \in Int /\ n = p * (n \div p)
    <2>1. n \in Int
      OBVIOUS
    <2> QED
      BY <2>1, Division
  <1>2. (n + 1) \div p \in Int /\ n + 1 = p * ((n + 1) \div p)
    <2>1. n + 1 \in Int
      OBVIOUS
    <2> QED
      BY <2>1, Division
  <1> DEFINE a == n \div p
             c == (n + 1) \div p
  <1>3. a \in Int /\ c \in Int /\ 1 = p * (c - a)
    BY <1>1, <1>2
  <1> HIDE DEF a, c
  <1>4. c - a >= 1
    <2> SUFFICES ASSUME c - a <= 0 PROVE FALSE
      BY <1>3
    <2>1. (c - a) * p <= 0 * p
      BY <1>3, Scaling
    <2> QED
      BY <2>1, <1>3
  <1>5. 1 * p <= (c - a) * p
    BY <1>3, <1>4, Scaling
  <1> QED
    BY <1>3, <1>5

\* reduce_operand finds nothing to strip: the ends of a box just read are
\* neighbours.
LEMMA NothingStripped ==
    ASSUME NEW b \in Boxes, b.hi = b.lo + 1
    PROVE  ReduceOperand(b) = b
  <1> DEFINE Fits(p) == /\ \A n \in {b.lo, b.hi, b.den} : n % p = 0
                        /\ \/ p * Base > b.den
                           \/ \E n \in {b.lo, b.hi, b.den} : n % (p * Base) # 0
             P == {Base^k : k \in 0..b.pos}
  <1>1. /\ b.lo \in Nat /\ b.hi \in Nat /\ b.den \in Nat \ {0}
        /\ b.pos \in Nat /\ b.pos <= MaxPos
    BY DEF Boxes
  <1>2. \A p \in P : p \in Nat \ {0}
    <2>1. ASSUME NEW k \in 0..b.pos PROVE Base^k \in Nat \ {0}
      <3>1. k \in Nat /\ k <= MaxPos + MaxDigits
        BY <1>1, ArithAssumption DEF MaxPos
      <3> QED
        BY <3>1, PowType
    <2> QED
      BY <2>1
  <1>3. 1 \in P
    BY <1>1, PowAssumption
  <1>4. Fits(1)
    <2>1. \A n \in {b.lo, b.hi, b.den} : n % 1 = 0
      BY <1>1
    <2>2. b.lo % Base # 0 \/ b.hi % Base # 0
      BY <1>1, BaseType, Neighbours
    <2>3. 1 * Base = Base
      BY BaseType
    <2> QED
      BY <2>1, <2>2, <2>3
  <1>5. \A p \in P : Fits(p) => p = 1
    BY <1>1, <1>2, Neighbours
  <1>6. SharedPower(b) = CHOOSE p \in P : Fits(p)
    BY DEF SharedPower
  <1> HIDE DEF P, Fits
  <1>7. SharedPower(b) = 1
    BY <1>3, <1>4, <1>5, <1>6
  <1>8. b.lo \div 1 = b.lo /\ b.hi \div 1 = b.hi /\ b.den \div 1 = b.den
    BY <1>1
  <1>9. [b EXCEPT !.lo = @ \div 1, !.hi = @ \div 1, !.den = @ \div 1] = b
    BY <1>8 DEF Boxes
  <1> QED
    BY <1>7, <1>9 DEF ReduceOperand

\* refine_x, refine_y before reduce_operand.
Taking(s) ==
    LET b == box[s]
        d == DigitOf(val[s], b.pos + 1)
    IN [lo |-> b.lo * Base + d, hi |-> b.lo * Base + d + 1,
        den |-> b.den * Base,
        run |-> IF d = 0 THEN b.run + 1 ELSE 0, pos |-> b.pos + 1]

\* An operand gives natural digits, in whatever base it was made.
LEMMA DigitType ==
    ASSUME NEW v \in Values, NEW k \in Nat, k <= MaxPos
    PROVE  DigitOf(v, k) \in Nat
  <1> DEFINE a == v.num * v.base^k
  <1>1. /\ v.num \in Nat /\ v.den \in Nat \ {0} /\ v.base \in Nat \ {0}
        /\ MaxPos \in Nat
    BY ArithAssumption, ValueType DEF MaxPos
  <1>2. v.base^k \in Nat
    <2>1. k \in 0..MaxPos
      BY <1>1
    <2> QED
      BY <2>1, PowAssumption
  <1>3. a \in Int
    BY <1>1, <1>2
  <1> HIDE DEF a
  <1>4. a \div v.den \in Int
    BY <1>1, <1>3, Division
  <1>5. (a \div v.den) % v.base \in 0..(v.base - 1)
    <2> DEFINE q == a \div v.den
    <2>1. q \in Int
      BY <1>4
    <2> HIDE DEF q
    <2>2. q % v.base \in 0..(v.base - 1)
      BY <1>1, <2>1, Division
    <2> QED
      BY <2>2 DEF q
  <1>6. (a \div v.den) % v.base \in Nat
    BY <1>1, <1>5
  <1> QED
    BY <1>6 DEF DigitOf, a

\* refine_x, refine_y take in one digit and restart the box one unit wide, in
\* whatever base the operand was made.
LEMMA RefinedShape ==
    ASSUME NEW s \in Sides, val[s] \in Values, Shape(box[s]), box[s].pos < MaxPos
    PROVE  /\ Refined(s) = Taking(s) /\ Shape(Refined(s))
           /\ Refined(s).pos = box[s].pos + 1
  <1> DEFINE b == box[s]
             d == DigitOf(val[s], b.pos + 1)
             n == Taking(s)
  <1>1. /\ b.lo \in Nat /\ b.den \in Nat \ {0} /\ b.run \in Nat /\ b.pos \in Nat
        /\ b.pos < MaxPos /\ b.den = Base^b.pos
    BY DEF Shape, Boxes
  <1>2. /\ n.lo = b.lo * Base + d /\ n.hi = b.lo * Base + d + 1
        /\ n.den = b.den * Base /\ n.pos = b.pos + 1
        /\ n.run = IF d = 0 THEN b.run + 1 ELSE 0
        /\ n = [lo |-> n.lo, hi |-> n.hi, den |-> n.den, run |-> n.run, pos |-> n.pos]
    BY DEF Taking
  <1>3. Refined(s) = ReduceOperand(n)
    BY DEF Refined, Taking
  <1>4. d \in Nat
    <2>1. b.pos + 1 \in Nat /\ b.pos + 1 <= MaxPos
      BY <1>1, ArithAssumption DEF MaxPos
    <2> QED
      BY <2>1, DigitType
  <1> HIDE DEF b, d, n
  <1>5. b.den * Base = Base^(b.pos + 1) /\ b.den * Base \in Nat \ {0}
    <2>1. b.pos <= MaxPos + MaxDigits
      BY <1>1, ArithAssumption DEF MaxPos
    <2>2. Base^(b.pos + 1) = Base * Base^b.pos
      BY <2>1, <1>1, PowType
    <2> QED
      BY <2>2, <1>1, BaseType
  <1>6. b.lo * Base \in Nat
    BY <1>1, BaseType
  <1>7. b.pos + 1 \in 0..MaxPos
    BY <1>1, ArithAssumption DEF MaxPos
  <1>8. n \in Boxes /\ n.hi = n.lo + 1
    <2>1. n.lo \in Nat /\ n.hi \in Nat /\ n.hi = n.lo + 1
      BY <1>2, <1>4, <1>6
    <2>2. n.den \in Nat \ {0} /\ n.run \in Nat /\ n.pos \in 0..MaxPos
      BY <1>1, <1>2, <1>5, <1>7
    <2> QED
      BY <1>2, <2>1, <2>2 DEF Boxes
  <1>9. ReduceOperand(n) = n
    BY <1>8, NothingStripped
  <1>10. Shape(n) /\ n.pos = b.pos + 1
    BY <1>2, <1>5, <1>8 DEF Shape
  <1> QED
    BY <1>3, <1>9, <1>10 DEF n, b

LEMMA CollapsedShape ==
    ASSUME NEW b, Shape(b)
    PROVE  Shape(Collapsed(b)) /\ Collapsed(b).pos = b.pos
  <1>1. b \in Boxes /\ b.lo \in Nat
    BY DEF Shape, Boxes
  <1> DEFINE c == [b EXCEPT !.hi = b.lo]
  <1>2. c \in Boxes /\ c.den = b.den /\ c.pos = b.pos
    BY <1>1 DEF Boxes
  <1>3. Collapsed(b) = c \/ Collapsed(b) = b
    BY DEF Collapsed
  <1> HIDE DEF c
  <1> QED
    BY <1>2, <1>3 DEF Shape

\* The box holds the digits of an operand in the base of the result.
LEMMA RefinedBox ==
    ASSUME OneBase, NEW s \in Sides, val[s] \in Values,
           BoxInv(box[s], val[s]), box[s].pos < MaxPos
    PROVE  BoxInv(Refined(s), val[s])
  <1> DEFINE b == box[s]
             v == val[s]
             d == DigitOf(v, b.pos + 1)
             n == Taking(s)
  <1>1. /\ b.lo \in Nat /\ b.den \in Nat \ {0} /\ b.run \in Nat /\ b.pos \in Nat
        /\ b.pos < MaxPos /\ b.lo = Taken(v, b.pos)
        /\ b.run <= b.pos /\ \A j \in (b.pos - b.run + 1)..b.pos : DigitOf(v, j) = 0
    BY DEF BoxInv, Shape, Boxes
  <1>2. v \in Values
    OBVIOUS
  <1>3. Refined(s) = n /\ Shape(n)
    BY RefinedShape DEF BoxInv
  <1>4. /\ n.lo = b.lo * Base + d /\ n.hi = n.lo + 1 /\ n.pos = b.pos + 1
        /\ n.run = IF d = 0 THEN b.run + 1 ELSE 0
    BY DEF Taking
  <1> HIDE DEF b, v, n
  <1>5. Taken(v, b.pos + 1) = Taken(v, b.pos) * Base + d
    BY <1>1, <1>2, TakenGrows
  <1>6. n.run <= n.pos /\ \A j \in (n.pos - n.run + 1)..n.pos : DigitOf(v, j) = 0
    <2>1. CASE d = 0
      <3>1. n.run = b.run + 1 /\ n.pos = b.pos + 1
        BY <2>1, <1>4
      <3>2. ASSUME NEW j \in (n.pos - n.run + 1)..n.pos PROVE DigitOf(v, j) = 0
        <4>1. j = b.pos + 1 \/ j \in (b.pos - b.run + 1)..b.pos
          BY <3>1, <1>1
        <4> QED
          BY <4>1, <2>1, <1>1
      <3> QED
        BY <3>1, <3>2, <1>1
    <2>2. CASE d # 0
      <3>1. n.run = 0 /\ n.pos = b.pos + 1
        BY <2>2, <1>4
      <3> QED
        BY <3>1, <1>1
    <2> QED
      BY <2>1, <2>2
  <1>7. n.lo = Taken(v, n.pos)
    BY <1>1, <1>4, <1>5
  <1> HIDE DEF d
  <1>8. BoxInv(n, v)
    BY <1>3, <1>4, <1>6, <1>7 DEF BoxInv
  <1> QED
    BY <1>3, <1>8 DEF v

LEMMA CollapsedBox ==
    ASSUME NEW b, NEW v, BoxInv(b, v)
    PROVE  BoxInv(Collapsed(b), v)
  <1>1. CASE b.run >= ZeroRun
    <2>1. b \in Boxes /\ b.lo \in Nat
      BY DEF BoxInv, Shape, Boxes
    <2>2. Collapsed(b) = [b EXCEPT !.hi = b.lo]
      BY <1>1 DEF Collapsed
    <2> DEFINE c == [b EXCEPT !.hi = b.lo]
    <2>3. /\ c \in Boxes /\ c.lo = b.lo /\ c.hi = b.lo /\ c.den = b.den
          /\ c.run = b.run /\ c.pos = b.pos
      BY <2>1 DEF Boxes
    <2> HIDE DEF c
    <2>4. BoxInv(c, v)
      BY <1>1, <2>3 DEF BoxInv, Shape
    <2> QED
      BY <2>2, <2>4 DEF c
  <1>2. CASE ~(b.run >= ZeroRun)
    BY <1>2 DEF Collapsed
  <1> QED
    BY <1>1, <1>2

\* An operand lies in its box, and the box is ordered.
LEMMA BoxEncloses ==
    ASSUME RunsEnd, NEW v \in Values, NEW b, BoxInv(b, v)
    PROVE  /\ b.lo * v.den <= v.num * b.den
           /\ v.num * b.den <= b.hi * v.den
           /\ b.lo <= b.hi /\ b.lo \in Nat /\ b.hi \in Nat /\ b.den \in Nat \ {0}
  <1>1. /\ b.lo \in Nat /\ b.hi \in Nat /\ b.den \in Nat \ {0} /\ b.run \in Nat
        /\ b.pos \in Nat /\ b.pos <= MaxPos
        /\ b.den = Base^b.pos /\ b.lo = Taken(v, b.pos)
        /\ b.hi = b.lo + 1 \/ (b.hi = b.lo /\ b.run >= ZeroRun)
    BY DEF BoxInv, Shape, Boxes
  <1>2. /\ v.num * b.den \in Nat /\ b.lo * v.den <= v.num * b.den
        /\ v.num * b.den < (b.lo + 1) * v.den
    BY <1>1, TakenType
  <1>3. v.num \in Nat /\ v.den \in Nat \ {0}
    BY ValueType
  <1>4. CASE b.hi = b.lo + 1
    BY <1>1, <1>2, <1>3, <1>4
  <1>5. CASE b.hi = b.lo /\ b.run >= ZeroRun
    <2> DEFINE a == v.num * b.den
    <2>1. ZeroRun \in Nat \ {0} /\ b.pos \in ZeroRun..MaxPos
      BY <1>1, <1>5, ArithAssumption DEF BoxInv, MaxPos
    <2>2. \A j \in (b.pos - ZeroRun + 1)..b.pos : DigitOf(v, j) = 0
      <3>1. \A j \in (b.pos - b.run + 1)..b.pos : DigitOf(v, j) = 0
        BY DEF BoxInv
      <3>2. \A j \in (b.pos - ZeroRun + 1)..b.pos : j \in (b.pos - b.run + 1)..b.pos
        BY <1>1, <1>5, <2>1
      <3> QED
        BY <3>1, <3>2
    <2>3. (v.num * Base^b.pos) % v.den = 0
      BY <2>1, <2>2 DEF RunsEnd
    <2>4. a % v.den = 0 /\ a \div v.den = b.lo
      BY <2>3, <1>1 DEF Taken
    <2>5. a \in Int
      BY <1>2
    <2> HIDE DEF a
    <2>6. a = v.den * (a \div v.den) + (a % v.den)
      BY <2>5, <1>3, Division
    <2>7. a = b.lo * v.den
      BY <2>4, <2>6, <1>1, <1>3
    <2>8. a <= b.hi * v.den
      BY <2>5, <2>7, <1>5
    <2> QED
      BY <2>8, <1>1, <1>2, <1>5 DEF a
  <1> QED
    BY <1>1, <1>4, <1>5

-----------------------------------------------------------------------------
(* Arithmetic on fractions, a/b written as the pair a, b *)

\* a/b <= c/d and e/f <= g/h give a/b + e/f <= c/d + g/h, and so on.
LEMMA SumsCompare ==
    ASSUME NEW a \in Int, NEW b \in Nat, NEW c \in Int, NEW d \in Nat,
           NEW e \in Int, NEW f \in Nat, NEW g \in Int, NEW h \in Nat,
           a * d <= c * b, e * h <= g * f
    PROVE  (a * f + e * b) * (d * h) <= (c * h + g * d) * (b * f)
  <1>1. (a * d) * (f * h) <= (c * b) * (f * h)
    BY Scaling
  <1>2. (e * h) * (b * d) <= (g * f) * (b * d)
    BY Scaling
  <1>3. (a * f + e * b) * (d * h) = (a * d) * (f * h) + (e * h) * (b * d)
    OBVIOUS
  <1>4. (c * h + g * d) * (b * f) = (c * b) * (f * h) + (g * f) * (b * d)
    OBVIOUS
  <1> QED
    BY <1>1, <1>2, <1>3, <1>4

LEMMA DifferencesCompare ==
    ASSUME NEW a \in Int, NEW b \in Nat, NEW c \in Int, NEW d \in Nat,
           NEW e \in Int, NEW f \in Nat, NEW g \in Int, NEW h \in Nat,
           a * d <= c * b, g * f <= e * h
    PROVE  (a * f - e * b) * (d * h) <= (c * h - g * d) * (b * f)
  <1>1. (a * d) * (f * h) <= (c * b) * (f * h)
    BY Scaling
  <1>2. (g * f) * (b * d) <= (e * h) * (b * d)
    BY Scaling
  <1>3. (a * f - e * b) * (d * h) = (a * d) * (f * h) - (e * h) * (b * d)
    OBVIOUS
  <1>4. (c * h - g * d) * (b * f) = (c * b) * (f * h) - (g * f) * (b * d)
    OBVIOUS
  <1> QED
    BY <1>1, <1>2, <1>3, <1>4

LEMMA ProductsCompare ==
    ASSUME NEW a \in Nat, NEW b \in Nat, NEW c \in Nat, NEW d \in Nat,
           NEW e \in Nat, NEW f \in Nat, NEW g \in Nat, NEW h \in Nat,
           a * d <= c * b, e * h <= g * f
    PROVE  (a * e) * (d * h) <= (c * g) * (b * f)
  <1>1. (a * d) * (e * h) <= (c * b) * (e * h)
    BY Scaling
  <1>2. (c * b) * (e * h) <= (c * b) * (g * f)
    BY Scaling
  <1>3. (a * e) * (d * h) = (a * d) * (e * h)
    OBVIOUS
  <1>4. (c * g) * (b * f) = (c * b) * (g * f)
    OBVIOUS
  <1> QED
    BY <1>1, <1>2, <1>3, <1>4

\* a/b <= c/d and g/h <= e/f give (a/b)/(e/f) <= (c/d)/(g/h), over any factor.
LEMMA QuotientsCompare ==
    ASSUME NEW a \in Nat, NEW b \in Nat, NEW c \in Nat, NEW d \in Nat,
           NEW e \in Nat, NEW f \in Nat, NEW g \in Nat, NEW h \in Nat,
           NEW k \in Nat, a * d <= c * b, g * f <= e * h
    PROVE  ((a * f) * k) * (d * g) <= (c * h) * ((b * e) * k)
  <1>1. (a * d) * (g * f) <= (c * b) * (g * f)
    BY Scaling
  <1>2. (c * b) * (g * f) <= (c * b) * (e * h)
    BY Scaling
  <1>3. ((a * d) * (g * f)) * k <= ((c * b) * (e * h)) * k
    BY <1>1, <1>2, Scaling
  <1>4. ((a * f) * k) * (d * g) = ((a * d) * (g * f)) * k
    OBVIOUS
  <1>5. (c * h) * ((b * e) * k) = ((c * b) * (e * h)) * k
    OBVIOUS
  <1> QED
    BY <1>3, <1>4, <1>5

-----------------------------------------------------------------------------
(* The interval of the result *)

Intervals == [lo : Int, hi : Int, scale : Nat \ {0}]

\* The fraction n/d lies in the interval r.
Holds(r, n, d) == r.lo * d <= n * r.scale /\ n * r.scale <= r.hi * d

\* x may be ahead of y, by as much as y pended after a digit of x.
ShapesInv(b) ==
    /\ DOMAIN b = Sides /\ \A s \in Sides : Shape(b[s])
    /\ b["y"].pos <= MaxPulls
    /\ b["y"].pos <= b["x"].pos /\ b["x"].pos <= b["y"].pos + MaxAhead

BoxesInv(b) == ShapesInv(b) /\ \A s \in Sides : BoxInv(b[s], val[s])

Typed ==
    /\ op \in Ops
    /\ val \in [Sides -> Values]

\* combined_interval holds the exact result, which exists.
LEMMA CombinedHolds ==
    ASSUME RunsEnd, Typed, NEW b, BoxesInv(b), Combinable(b)
    PROVE  /\ Exact[1] \in Int /\ Exact[2] \in Nat \ {0}
           /\ Combined(b) \in Intervals
           /\ Holds(Combined(b), Exact[1], Exact[2])
  <1> DEFINE x == b["x"]
             y == b["y"]
             X == val["x"]
             Y == val["y"]
  <1>1. /\ X \in Values /\ Y \in Values
        /\ BoxInv(x, X) /\ BoxInv(y, Y)
    BY DEF Typed, BoxesInv, Sides
  <1> HIDE DEF x, y, X, Y
  <1>2. /\ X.num \in Nat /\ X.den \in Nat \ {0}
        /\ Y.num \in Nat /\ Y.den \in Nat \ {0}
    BY <1>1, ValueType
  <1>3. /\ x.lo * X.den <= X.num * x.den /\ X.num * x.den <= x.hi * X.den
        /\ x.lo <= x.hi /\ x.lo \in Nat /\ x.hi \in Nat /\ x.den \in Nat \ {0}
    BY <1>1, BoxEncloses
  <1>4. /\ y.lo * Y.den <= Y.num * y.den /\ Y.num * y.den <= y.hi * Y.den
        /\ y.lo <= y.hi /\ y.lo \in Nat /\ y.hi \in Nat /\ y.den \in Nat \ {0}
    BY <1>1, BoxEncloses
  <1>5. x.den * y.den \in Nat \ {0} /\ X.den * Y.den \in Nat \ {0}
    BY <1>2, <1>3, <1>4
  <1>6. CASE op = "Add"
    <2>1. Exact = <<X.num * Y.den + Y.num * X.den, X.den * Y.den>>
      BY <1>6 DEF Exact, X, Y
    <2>2. Combined(b) = [lo |-> x.lo * y.den + y.lo * x.den,
                         hi |-> x.hi * y.den + y.hi * x.den, scale |-> x.den * y.den]
      BY <1>6 DEF Combined, Interval, x, y
    <2>3. (x.lo * y.den + y.lo * x.den) * (X.den * Y.den)
              <= (X.num * Y.den + Y.num * X.den) * (x.den * y.den)
      BY <1>2, <1>3, <1>4, SumsCompare
    <2>4. (X.num * Y.den + Y.num * X.den) * (x.den * y.den)
              <= (x.hi * y.den + y.hi * x.den) * (X.den * Y.den)
      BY <1>2, <1>3, <1>4, SumsCompare
    <2>5. /\ x.lo * y.den + y.lo * x.den \in Int
          /\ x.hi * y.den + y.hi * x.den \in Int
          /\ X.num * Y.den + Y.num * X.den \in Int
      BY <1>2, <1>3, <1>4
    <2> QED
      BY <2>1, <2>2, <2>3, <2>4, <2>5, <1>5 DEF Intervals, Holds
  <1>7. CASE op = "Sub"
    <2>1. Exact = <<X.num * Y.den - Y.num * X.den, X.den * Y.den>>
      BY <1>7 DEF Exact, X, Y
    <2>2. Combined(b) = [lo |-> x.lo * y.den - y.hi * x.den,
                         hi |-> x.hi * y.den - y.lo * x.den, scale |-> x.den * y.den]
      BY <1>7 DEF Combined, Interval, x, y
    <2>3. (x.lo * y.den - y.hi * x.den) * (X.den * Y.den)
              <= (X.num * Y.den - Y.num * X.den) * (x.den * y.den)
      BY <1>2, <1>3, <1>4, DifferencesCompare
    <2>4. (X.num * Y.den - Y.num * X.den) * (x.den * y.den)
              <= (x.hi * y.den - y.lo * x.den) * (X.den * Y.den)
      BY <1>2, <1>3, <1>4, DifferencesCompare
    <2>5. /\ x.lo * y.den - y.hi * x.den \in Int
          /\ x.hi * y.den - y.lo * x.den \in Int
          /\ X.num * Y.den - Y.num * X.den \in Int
      BY <1>2, <1>3, <1>4
    <2> QED
      BY <2>1, <2>2, <2>3, <2>4, <2>5, <1>5 DEF Intervals, Holds
  <1>8. CASE op = "Mul"
    <2>1. Exact = <<X.num * Y.num, X.den * Y.den>>
      BY <1>8 DEF Exact, X, Y
    <2>2. Combined(b) = [lo |-> x.lo * y.lo, hi |-> x.hi * y.hi,
                         scale |-> x.den * y.den]
      BY <1>8 DEF Combined, Interval, x, y
    <2>3. (x.lo * y.lo) * (X.den * Y.den) <= (X.num * Y.num) * (x.den * y.den)
      BY <1>2, <1>3, <1>4, ProductsCompare
    <2>4. (X.num * Y.num) * (x.den * y.den) <= (x.hi * y.hi) * (X.den * Y.den)
      BY <1>2, <1>3, <1>4, ProductsCompare
    <2>5. x.lo * y.lo \in Int /\ x.hi * y.hi \in Int /\ X.num * Y.num \in Int
      BY <1>2, <1>3, <1>4
    <2> QED
      BY <2>1, <2>2, <2>3, <2>4, <2>5, <1>5 DEF Intervals, Holds
  <1>9. CASE op = "Div"
    <2>1. y.lo > 0
      BY <1>9 DEF Combinable, y
    <2>2. y.hi \in Nat \ {0} /\ Y.num \in Nat \ {0}
      <3>1. y.hi \in Nat \ {0}
        BY <2>1, <1>4
      <3>2. Y.num # 0
        <4> SUFFICES ASSUME Y.num = 0 PROVE FALSE
          OBVIOUS
        <4>1. y.lo * Y.den <= 0
          BY <1>4
        <4>2. 1 * Y.den <= y.lo * Y.den
          BY <1>2, <1>4, <2>1, Scaling
        <4>3. y.lo * Y.den \in Int
          BY <1>2, <1>4
        <4> QED
          BY <4>1, <4>2, <4>3, <1>2
      <3> QED
        BY <3>1, <3>2, <1>2
    <2> DEFINE u == x.den * y.hi
               w == x.den * y.lo
    <2>3. u \in Nat \ {0} /\ w \in Nat \ {0}
      BY <1>3, <1>4, <2>1, <2>2
    <2>4. Exact = <<X.num * Y.den, X.den * Y.num>>
      BY <1>9 DEF Exact, X, Y
    <2>5. Combined(b) = [lo |-> (x.lo * y.den) * w, hi |-> (x.hi * y.den) * u,
                         scale |-> u * w]
      BY <1>9 DEF Combined, Interval, x, y
    <2>6. ((x.lo * y.den) * w) * (X.den * Y.num) <= (X.num * Y.den) * (u * w)
      <3> HIDE DEF w
      <3> QED
        BY <1>2, <1>3, <1>4, <2>3, QuotientsCompare DEF u
    <2>7. (X.num * Y.den) * (u * w) <= ((x.hi * y.den) * u) * (X.den * Y.num)
      <3>1. ((X.num * Y.den) * u) * (x.den * y.lo) <= (x.hi * y.den) * ((X.den * Y.num) * u)
        <4> HIDE DEF u
        <4> QED
          BY <1>2, <1>3, <1>4, <2>3, QuotientsCompare
      <3> DEFINE i == X.num * Y.den
                 j == x.hi * y.den
                 k == X.den * Y.num
      <3>2. i \in Int /\ j \in Int /\ k \in Int
        BY <1>2, <1>3, <1>4
      <3>3. (i * u) * w <= j * (k * u)
        BY <3>1
      <3> HIDE DEF i, j, k, u, w
      <3>4. (i * u) * w = i * (u * w) /\ j * (k * u) = (j * u) * k
        BY <3>2, <2>3
      <3>5. i * (u * w) <= (j * u) * k
        BY <3>3, <3>4
      <3> QED
        BY <3>5 DEF i, j, k
    <2>8. /\ (x.lo * y.den) * w \in Int /\ (x.hi * y.den) * u \in Int
          /\ u * w \in Nat \ {0}
          /\ X.num * Y.den \in Int /\ X.den * Y.num \in Nat \ {0}
      <3> HIDE DEF u, w
      <3> QED
        BY <1>2, <1>3, <1>4, <2>2, <2>3
    <2> HIDE DEF u, w
    <2> QED
      BY <2>4, <2>5, <2>6, <2>7, <2>8 DEF Intervals, Holds
  <1> QED
    BY <1>6, <1>7, <1>8, <1>9, ArithAssumption DEF Typed

-----------------------------------------------------------------------------
(* What is left of the result *)

\* reduce_fraction takes a common divisor out of both ends and the scale.
LEMMA Reduction ==
    ASSUME NEW r \in Intervals
    PROVE  /\ ReduceFraction(r) \in Intervals
           /\ \E g \in Nat \ {0} : /\ r.lo = ReduceFraction(r).lo * g
                                   /\ r.hi = ReduceFraction(r).hi * g
                                   /\ r.scale = ReduceFraction(r).scale * g
  <1> DEFINE h == Gcd[<<r.scale, Abs(r.lo)>>]
             g == Gcd[<<h, Abs(r.hi)>>]
  <1>1. r.lo \in Int /\ r.hi \in Int /\ r.scale \in Nat \ {0}
    BY DEF Intervals
  <1>2. Abs(r.lo) \in Nat /\ Abs(r.hi) \in Nat
    BY <1>1 DEF Abs
  <1>3. h \in Nat \ {0} /\ Divides(h, r.scale) /\ Divides(h, Abs(r.lo))
    BY <1>1, <1>2, GcdDivides
  <1> HIDE DEF h
  <1>4. g \in Nat \ {0} /\ Divides(g, h) /\ Divides(g, Abs(r.hi))
    BY <1>2, <1>3, GcdDivides
  <1>5. \A a \in Int : Divides(g, Abs(a)) => Divides(g, a)
    <2> HIDE DEF g
    <2> SUFFICES ASSUME NEW a \in Int, NEW m \in Int, Abs(a) = g * m
                 PROVE  \E k \in Int : a = g * k
      BY DEF Divides
    <2>1. a = g * m \/ a = g * (-m)
      BY <1>4 DEF Abs
    <2> QED
      BY <2>1
  <1>6. \A a \in Int : Divides(h, a) => Divides(g, a)
    <2> SUFFICES ASSUME NEW a \in Int, NEW m \in Int, a = h * m PROVE Divides(g, a)
      BY DEF Divides
    <2>1. PICK k \in Int : h = g * k
      BY <1>4 DEF Divides
    <2> HIDE DEF g
    <2>2. a = g * (k * m) /\ k * m \in Int
      BY <1>3, <1>4, <2>1
    <2> QED
      BY <2>2 DEF Divides
  <1>7. Divides(g, r.scale) /\ Divides(g, r.lo) /\ Divides(g, r.hi)
    BY <1>1, <1>2, <1>3, <1>4, <1>5, <1>6
  <1> DEFINE q == [lo |-> r.lo \div g, hi |-> r.hi \div g, scale |-> r.scale \div g]
  <1>8. ReduceFraction(r) = q
    BY DEF ReduceFraction, Interval, h
  <1> HIDE DEF g
  <1>9. /\ q.lo \in Int /\ q.hi \in Int /\ q.scale \in Int
        /\ r.lo = q.lo * g /\ r.hi = q.hi * g /\ r.scale = q.scale * g
    <2>1. \A a \in Int : Divides(g, a) => a \div g \in Int /\ a = (a \div g) * g
      BY <1>4, DividedOut
    <2>2. /\ r.lo \div g \in Int /\ r.lo = (r.lo \div g) * g
          /\ r.hi \div g \in Int /\ r.hi = (r.hi \div g) * g
          /\ r.scale \div g \in Int /\ r.scale = (r.scale \div g) * g
      <3>1. r.lo \in Int /\ r.hi \in Int /\ r.scale \in Int
        BY <1>1
      <3> QED
        BY <2>1, <3>1, <1>7
    <2>3. q.lo = r.lo \div g /\ q.hi = r.hi \div g /\ q.scale = r.scale \div g
      OBVIOUS
    <2> HIDE DEF q
    <2> QED
      BY <2>2, <2>3
  <1>10. q.scale > 0
    <2> SUFFICES ASSUME q.scale <= 0 PROVE FALSE
      BY <1>9
    <2>1. q.scale * g <= 0 * g
      BY <1>4, <1>9, Scaling
    <2> QED
      BY <2>1, <1>1, <1>4, <1>9
  <1>11. q \in Intervals
    BY <1>9, <1>10 DEF Intervals
  <1> HIDE DEF q
  <1> QED
    BY <1>4, <1>8, <1>9, <1>11

LEMMA ReductionHolds ==
    ASSUME NEW r \in Intervals, NEW n \in Int, NEW d \in Nat \ {0}, Holds(r, n, d)
    PROVE  Holds(ReduceFraction(r), n, d)
  <1> DEFINE q == ReduceFraction(r)
  <1>1. PICK g \in Nat \ {0} :
            r.lo = q.lo * g /\ r.hi = q.hi * g /\ r.scale = q.scale * g
    BY Reduction
  <1>2. q.lo \in Int /\ q.hi \in Int /\ q.scale \in Nat \ {0}
    BY Reduction DEF Intervals
  <1> HIDE DEF q
  <1>3. (q.lo * d) * g <= (n * q.scale) * g
    <2>1. (q.lo * d) * g = r.lo * d /\ (n * q.scale) * g = n * r.scale
      BY <1>1, <1>2
    <2> QED
      BY <2>1 DEF Holds
  <1>4. (n * q.scale) * g <= (q.hi * d) * g
    <2>1. (q.hi * d) * g = r.hi * d /\ (n * q.scale) * g = n * r.scale
      BY <1>1, <1>2
    <2> QED
      BY <2>1 DEF Holds
  <1>5. q.lo * d \in Int /\ q.hi * d \in Int /\ n * q.scale \in Int
    BY <1>2
  <1> QED
    BY <1>3, <1>4, <1>5, ScalingBack DEF Holds, q

\* Both ends agree on the integer part e of a multiple: so does the fraction,
\* and with e taken out of all three it is held as before.
LEMMA EndsAgree ==
    ASSUME NEW r \in Intervals, NEW n \in Int, NEW d \in Nat \ {0}, Holds(r, n, d),
           NEW m \in Nat, NEW e,
           (m * r.lo) \div r.scale = e, (m * r.hi) \div r.scale = e
    PROVE  /\ e \in Int /\ e * d <= m * n /\ m * n < (e + 1) * d
           /\ Holds(Interval(m * r.lo - e * r.scale, m * r.hi - e * r.scale, r.scale),
                    m * n - e * d, d)
           /\ Interval(m * r.lo - e * r.scale, m * r.hi - e * r.scale, r.scale) \in Intervals
  <1> DEFINE a == m * r.lo
             b == m * r.hi
             s == r.scale
  <1>1. r.lo \in Int /\ r.hi \in Int /\ s \in Nat \ {0} /\ a \in Int /\ b \in Int
    BY DEF Intervals
  <1>2. e \in Int /\ e * s <= a
    <2>1. a \div s \in Int /\ a % s \in 0..(s - 1) /\ a = s * (a \div s) + (a % s)
      <3> HIDE DEF a, s
      <3> QED
        BY <1>1, Division
    <2>2. a \div s = e
      OBVIOUS
    <2> HIDE DEF a, s
    <2> QED
      BY <1>1, <2>1, <2>2
  <1>3. b < (e + 1) * s
    <2>1. b \div s \in Int /\ b % s \in 0..(s - 1) /\ b = s * (b \div s) + (b % s)
      <3> HIDE DEF b, s
      <3> QED
        BY <1>1, Division
    <2>2. b \div s = e
      OBVIOUS
    <2> HIDE DEF b, s
    <2> QED
      BY <1>1, <2>1, <2>2
  <1>4. a * d <= (m * n) * s /\ (m * n) * s <= b * d
    <2>1. r.lo * d <= n * s /\ n * s <= r.hi * d
      BY DEF Holds
    <2>2. m * (r.lo * d) <= m * (n * s) /\ m * (n * s) <= m * (r.hi * d)
      BY <1>1, <2>1, Scaling
    <2>3. m * (r.lo * d) = a * d /\ m * (n * s) = (m * n) * s /\ m * (r.hi * d) = b * d
      BY <1>1
    <2> QED
      BY <2>2, <2>3
  <1>5. Interval(a - e * s, b - e * s, s)
           = [lo |-> a - e * s, hi |-> b - e * s, scale |-> s]
    BY DEF Interval
  <1> HIDE DEF a, b, s
  <1> DEFINE p == m * n
  <1>6. p \in Int
    OBVIOUS
  <1> HIDE DEF p
  <1>7. a * d <= p * s /\ p * s <= b * d
    BY <1>4 DEF p
  <1>8. e * d <= p
    <2>1. (e * s) * d <= a * d
      BY <1>1, <1>2, Scaling
    <2>2. (e * s) * d = (e * d) * s
      BY <1>1, <1>2
    <2>3. a * d \in Int /\ p * s \in Int /\ e * d \in Int /\ (e * d) * s \in Int
      BY <1>1, <1>2, <1>6
    <2>4. (e * d) * s <= p * s
      BY <2>1, <2>2, <2>3, <1>7
    <2> QED
      BY <2>3, <2>4, <1>1, <1>6, ScalingBack
  <1>9. p < (e + 1) * d
    <2>1. b * d < ((e + 1) * s) * d
      BY <1>1, <1>2, <1>3
    <2>2. ((e + 1) * s) * d = ((e + 1) * d) * s
      BY <1>1, <1>2
    <2>3. /\ b * d \in Int /\ p * s \in Int /\ (e + 1) * d \in Int
          /\ ((e + 1) * d) * s \in Int
      BY <1>1, <1>2, <1>6
    <2>4. p * s < ((e + 1) * d) * s
      BY <2>1, <2>2, <2>3, <1>7
    <2> QED
      BY <2>3, <2>4, <1>1, <1>6, ScalingBack
  <1>10. /\ (a - e * s) * d <= (p - e * d) * s
         /\ (p - e * d) * s <= (b - e * s) * d
    <2>1. (a - e * s) * d = a * d - (e * s) * d
      BY <1>1, <1>2
    <2>2. (p - e * d) * s = p * s - (e * s) * d
      BY <1>1, <1>2, <1>6
    <2>3. (b - e * s) * d = b * d - (e * s) * d
      BY <1>1, <1>2
    <2>4. a * d \in Int /\ b * d \in Int /\ p * s \in Int /\ (e * s) * d \in Int
      BY <1>1, <1>2, <1>6
    <2> QED
      BY <2>1, <2>2, <2>3, <2>4, <1>7
  <1>11. a - e * s \in Int /\ b - e * s \in Int
    BY <1>1, <1>2
  <1> DEFINE i == [lo |-> a - e * s, hi |-> b - e * s, scale |-> s]
  <1>12. i \in Intervals /\ Holds(i, p - e * d, d)
    BY <1>1, <1>10, <1>11 DEF Intervals, Holds
  <1> QED
    BY <1>2, <1>5, <1>8, <1>9, <1>12 DEF a, b, s, p

\* What the digits emitted leave of the fraction, over the exact denominator.
Left == (Exact[1] - intPart * Exact[2]) * Base^Len(emitted) - prefix * Exact[2]

\* The interval re-derived after a pull holds what is left.
LEMMA RemainingHolds ==
    ASSUME NEW c \in Intervals, Exact[1] \in Int, Exact[2] \in Nat \ {0},
           Holds(c, Exact[1], Exact[2]), intPart \in Int, prefix \in Nat,
           Base^Len(emitted) \in Nat \ {0}
    PROVE  Remaining(c) \in Intervals /\ Holds(Remaining(c), Left, Exact[2])
  <1> DEFINE n == Exact[1]
             d == Exact[2]
             k == Base^Len(emitted)
             i == intPart
             p == prefix
             s == c.scale
             lo == (c.lo - i * s) * k - p * s
             hi == (c.hi - i * s) * k - p * s
  <1>1. /\ c.lo \in Int /\ c.hi \in Int /\ s \in Nat \ {0}
        /\ n \in Int /\ d \in Nat \ {0} /\ k \in Nat \ {0} /\ i \in Int /\ p \in Int
        /\ c.lo * d <= n * s /\ n * s <= c.hi * d
    BY DEF Intervals, Holds
  <1>2. Remaining(c) = [lo |-> lo, hi |-> hi, scale |-> s]
    BY DEF Remaining, Interval
  <1>3. Left = (n - i * d) * k - p * d
    BY DEF Left
  <1> HIDE DEF n, d, k, i, p, s
  <1>0. /\ c.lo \in Int /\ c.hi \in Int /\ s \in Int
        /\ n \in Int /\ d \in Int /\ k \in Int /\ i \in Int /\ p \in Int
    BY <1>1
  <1>4. lo \in Int /\ hi \in Int
    <2> DEFINE u == c.lo - i * s
               v == c.hi - i * s
               z == p * s
    <2>1. i * s \in Int /\ z \in Int
      BY <1>0, Products
    <2>2. u \in Int /\ v \in Int
      BY <1>0, <2>1
    <2> HIDE DEF u, v, z
    <2>3. u * k \in Int /\ v * k \in Int
      BY <1>0, <2>2, Products
    <2>4. u * k - z \in Int /\ v * k - z \in Int
      BY <2>1, <2>3
    <2> QED
      BY <2>4 DEF u, v, z
  <1> DEFINE w == ((i * s) * k + p * s) * d
  <1>5. w \in Int
    <2> DEFINE x == i * s
               z == p * s
               y == x * k
    <2>1. x \in Int /\ z \in Int
      BY <1>0, Products
    <2> HIDE DEF x, z
    <2>2. y \in Int
      BY <1>0, <2>1, Products
    <2> HIDE DEF y
    <2>3. y + z \in Int
      BY <2>1, <2>2
    <2>4. (y + z) * d \in Int
      BY <1>0, <2>3, Products
    <2> QED
      BY <2>4 DEF x, y, z
  <1>13. ASSUME NEW x \in Int PROVE ((x - i * s) * k - p * s) * d = (x * d) * k - w
    BY <1>0, TakenOff
  <1>6. lo * d = (c.lo * d) * k - w
    BY <1>0, <1>13
  <1>7. hi * d = (c.hi * d) * k - w
    BY <1>0, <1>13
  <1>8. ((n - i * d) * k - p * d) * s = (n * s) * k - w
    <2>1. ((n - i * d) * k - p * d) * s = (n * s) * k - ((i * d) * k + p * d) * s
      BY <1>0, TakenOff
    <2>2. ((i * d) * k + p * d) * s = w
      BY <1>0
    <2> QED
      BY <2>1, <2>2
  <1>9. (c.lo * d) * k <= (n * s) * k /\ (n * s) * k <= (c.hi * d) * k
    <2>1. c.lo * d \in Int /\ n * s \in Int /\ c.hi * d \in Int /\ k \in Nat
      BY <1>1
    <2> QED
      BY <1>1, <2>1, Scaling
  <1>10. /\ (c.lo * d) * k \in Int /\ (n * s) * k \in Int /\ (c.hi * d) * k \in Int
    <2> DEFINE A == c.lo * d
               B == n * s
               C == c.hi * d
    <2>1. A \in Int /\ B \in Int /\ C \in Int
      BY <1>1, Products
    <2>2. k \in Int
      BY <1>1
    <2> HIDE DEF A, B, C
    <2>3. A * k \in Int /\ B * k \in Int /\ C * k \in Int
      BY <2>1, <2>2, Products
    <2> QED
      BY <2>3 DEF A, B, C
  <1> HIDE DEF lo, hi, w
  <1>11. lo * d <= ((n - i * d) * k - p * d) * s /\ ((n - i * d) * k - p * d) * s <= hi * d
    BY <1>5, <1>6, <1>7, <1>8, <1>9, <1>10
  <1> DEFINE q == [lo |-> lo, hi |-> hi, scale |-> s]
  <1>12. q \in Intervals /\ Holds(q, (n - i * d) * k - p * d, d)
    BY <1>1, <1>4, <1>11 DEF Intervals, Holds
  <1> QED
    BY <1>2, <1>3, <1>12 DEF d

-----------------------------------------------------------------------------
(* The inductive invariant *)

\* NoFalseDigit is not inductive: the next digit is true because the interval
\* holds what the true digits before it have left, a proper fraction.
FractionInv ==
    /\ rest \in Intervals
    /\ Exact[1] \in Int /\ Exact[2] \in Nat \ {0}
    /\ Holds(rest, Left, Exact[2])
    /\ intPart = ExactPart
    /\ Left \in 0..(Exact[2] - 1)
    /\ \A k \in 1..Len(emitted) : emitted[k] = ExactDigit(k)

IInv ==
    /\ Typed
    /\ BoxesInv(box)
    /\ started \in BOOLEAN
    /\ intPart \in Int /\ prefix \in Nat
    /\ emitted \in Seq(Nat) /\ Len(emitted) <= MaxDigits
    /\ answer = "running" => Len(emitted) < MaxDigits
    /\ ~started => intPart = 0 /\ prefix = 0 /\ emitted = <<>>
    /\ started => FractionInv

LEMMA InitEstablishes == Init => IInv
  <1> SUFFICES ASSUME Init PROVE IInv
    OBVIOUS
  <1>1. Typed
    BY DEF Init, Typed
  <1>2. ASSUME NEW v \in Values PROVE BoxInv(Unread, v)
    <2>1. v.num * Base^0 = v.num /\ v.num \in Nat /\ v.den \in Nat \ {0} /\ v.num < v.den
      BY PowAssumption, ValueType
    <2>2. Taken(v, 0) = 0
      <3>1. 0 * v.den <= v.num /\ v.num < (0 + 1) * v.den
        BY <2>1
      <3>2. v.num \div v.den = 0
        BY <2>1, <3>1, QuotientIs
      <3> QED
        BY <2>1, <3>2 DEF Taken
    <2>3. Unread \in Boxes
      BY ArithAssumption DEF Unread, Boxes, MaxPos
    <2> QED
      BY <2>2, <2>3, PowAssumption DEF BoxInv, Shape, Unread
  <1>3. BoxesInv(box)
    <2>1. /\ DOMAIN box = Sides
          /\ \A s \in Sides : box[s] = Unread /\ BoxInv(box[s], val[s])
      BY <1>1, <1>2 DEF Init, Typed
    <2>2. \A s \in Sides : Shape(box[s])
      BY <2>1 DEF BoxInv
    <2>3. box["x"].pos = 0 /\ box["y"].pos = 0
      BY <2>1 DEF Sides, Unread
    <2> QED
      BY <2>1, <2>2, <2>3, ArithAssumption DEF BoxesInv, ShapesInv
  <1>4. /\ started = FALSE /\ intPart = 0 /\ prefix = 0 /\ emitted = <<>>
        /\ answer = "none"
    BY DEF Init
  <1>5. emitted \in Seq(Nat) /\ Len(emitted) <= MaxDigits
    BY <1>4, ArithAssumption DEF MaxPos
  <1>6. started \in BOOLEAN /\ ~started /\ answer # "running"
    BY <1>4
  <1>7. intPart \in Int /\ prefix \in Nat
    BY <1>4
  <1> QED
    BY <1>1, <1>3, <1>4, <1>5, <1>6, <1>7, Zenon DEF IInv

\* FractionInv from one state to the next, where only the interval changes.
LEMMA FractionStays ==
    ASSUME FractionInv, rest' \in Intervals, Holds(rest', Left, Exact[2]),
           UNCHANGED <<op, val, intPart, prefix, emitted>>
    PROVE  FractionInv'
  <1>1. Exact' = Exact
    BY DEF Exact
  <1>2. Left' = Left /\ ExactPart' = ExactPart
    BY <1>1 DEF Left, ExactPart
  <1>3. \A k : ExactDigit(k)' = ExactDigit(k)
    BY <1>1, <1>2 DEF ExactDigit
  <1>4. Holds(rest, Left, Exact[2])' <=> Holds(rest', Left, Exact[2])
    BY <1>1, <1>2 DEF Holds
  <1> QED
    BY <1>1, <1>2, <1>3, <1>4 DEF FractionInv

LEMMA TidiedHolds ==
    ASSUME NEW r \in Intervals, NEW n \in Int, NEW d \in Nat \ {0}, Holds(r, n, d)
    PROVE  Tidied(r) \in Intervals /\ Holds(Tidied(r), n, d)
  BY Reduction, ReductionHolds DEF Tidied

LEMMA LeftType ==
    ASSUME IInv
    PROVE  /\ Base^Len(emitted) \in Nat \ {0}
           /\ Exact[1] \in Int /\ Exact[2] \in Int => Left \in Int
  <1>1. Len(emitted) \in Nat /\ Len(emitted) <= MaxPos + MaxDigits
    BY ArithAssumption DEF IInv, MaxPos
  <1>2. Base^Len(emitted) \in Nat \ {0}
    BY <1>1, PowType
  <1>3. intPart \in Int /\ prefix \in Nat
    BY DEF IInv
  <1> DEFINE k == Base^Len(emitted)
             n == Exact[1]
             d == Exact[2]
  <1>4. ASSUME n \in Int, d \in Int PROVE (n - intPart * d) * k - prefix * d \in Int
    <2>1. k \in Int
      BY <1>2
    <2> HIDE DEF k, n, d
    <2>2. n - intPart * d \in Int /\ prefix * d \in Int
      BY <1>3, <1>4
    <2>3. (n - intPart * d) * k \in Int
      BY <2>1, <2>2
    <2> QED
      BY <2>2, <2>3
  <1> QED
    BY <1>2, <1>4 DEF Left

\* A pass that reads the operands reads the next digit of a side or leaves it
\* alone, whichever read pends.
LEMMA PullReads ==
    ASSUME ShapesInv(box), Pull
    PROVE  /\ UNCHANGED <<op, val>> /\ DOMAIN box' = Sides
           /\ \A s \in Sides : \/ box'[s] = box[s]
                               \/ /\ box[s].pos < MaxPos
                                  /\ box'[s] \in {Refined(s), Collapsed(Refined(s))}
           /\ \/ box' = box
              \/ /\ box'["x"] \in {Refined("x"), Collapsed(Refined("x"))}
                 /\ box'["y"] = box["y"] /\ box["x"].pos - box["y"].pos < MaxAhead
              \/ /\ box["y"].pos < MaxPulls
                 /\ \A s \in Sides : box'[s] \in {Refined(s), Collapsed(Refined(s))}
  <1>1. /\ UNCHANGED <<op, val>> /\ box["y"].pos < MaxPulls
        /\ \/ box' = [s \in Sides |-> Collapsed(Refined(s))]
           \/ box' = box
           \/ /\ box["x"].pos - box["y"].pos < MaxAhead
              /\ box' = [box EXCEPT !["x"] = Refined("x")]
    BY DEF Pull
  <1>2. /\ box["x"].pos \in Nat /\ box["y"].pos \in Nat /\ DOMAIN box = Sides
        /\ box["y"].pos <= box["x"].pos /\ box["x"].pos <= box["y"].pos + MaxAhead
        /\ MaxPulls \in Nat /\ MaxAhead \in Nat /\ MaxPos = MaxPulls + MaxAhead
    BY ArithAssumption DEF ShapesInv, Shape, Boxes, Sides, MaxPos
  <1>3. CASE box' = [s \in Sides |-> Collapsed(Refined(s))]
    <2>1. DOMAIN box' = Sides /\ \A s \in Sides : box'[s] = Collapsed(Refined(s))
      BY <1>3
    <2>2. \A s \in Sides : box[s].pos < MaxPos
      BY <1>1, <1>2 DEF Sides
    <2> QED
      BY <1>1, <2>1, <2>2
  <1>4. CASE box' = box
    BY <1>1, <1>2, <1>4
  <1>5. CASE /\ box["x"].pos - box["y"].pos < MaxAhead
             /\ box' = [box EXCEPT !["x"] = Refined("x")]
    <2>1. DOMAIN box' = Sides /\ box'["x"] = Refined("x") /\ box'["y"] = box["y"]
      BY <1>2, <1>5 DEF Sides
    <2>2. box["x"].pos < MaxPos
      BY <1>1, <1>2
    <2> QED
      BY <1>1, <1>5, <2>1, <2>2 DEF Sides
  <1> QED
    BY <1>1, <1>3, <1>4, <1>5

\* ... and keeps the shape of the boxes, whatever the operands.
LEMMA PullShapes ==
    ASSUME Typed, ShapesInv(box), Pull
    PROVE  Typed' /\ ShapesInv(box')
  <1>1. ASSUME NEW s \in Sides, box[s].pos < MaxPos,
               box'[s] \in {Refined(s), Collapsed(Refined(s))}
        PROVE  Shape(box'[s]) /\ box'[s].pos = box[s].pos + 1
    <2>1. val[s] \in Values /\ Shape(box[s])
      BY DEF Typed, ShapesInv
    <2>2. Shape(Refined(s)) /\ Refined(s).pos = box[s].pos + 1
      BY <1>1, <2>1, RefinedShape
    <2>3. /\ Shape(Collapsed(Refined(s)))
          /\ Collapsed(Refined(s)).pos = Refined(s).pos
      BY <2>2, CollapsedShape
    <2> QED
      BY <1>1, <2>2, <2>3
  <1>2. \A s \in Sides : Shape(box[s])
    BY DEF ShapesInv
  <1>3. \A s \in Sides : Shape(box'[s])
    BY <1>1, <1>2, PullReads
  <1>4. /\ box["x"].pos \in Nat /\ box["y"].pos \in Nat
        /\ box["y"].pos <= MaxPulls /\ box["y"].pos <= box["x"].pos
        /\ box["x"].pos <= box["y"].pos + MaxAhead
        /\ MaxPulls \in Nat /\ MaxAhead \in Nat /\ MaxPos = MaxPulls + MaxAhead
    BY ArithAssumption DEF ShapesInv, Shape, Boxes, Sides, MaxPos
  <1>5. /\ box'["y"].pos <= MaxPulls /\ box'["y"].pos <= box'["x"].pos
        /\ box'["x"].pos <= box'["y"].pos + MaxAhead
    <2>1. CASE box' = box
      BY <1>4, <2>1
    <2>2. CASE /\ box'["x"] \in {Refined("x"), Collapsed(Refined("x"))}
               /\ box'["y"] = box["y"] /\ box["x"].pos - box["y"].pos < MaxAhead
      <3>1. box["x"].pos < MaxPos
        BY <1>4, <2>2
      <3>2. box'["x"].pos = box["x"].pos + 1
        BY <1>1, <2>2, <3>1 DEF Sides
      <3> QED
        BY <1>4, <2>2, <3>2
    <2>3. CASE /\ box["y"].pos < MaxPulls
               /\ \A s \in Sides : box'[s] \in {Refined(s), Collapsed(Refined(s))}
      <3>1. box["x"].pos < MaxPos /\ box["y"].pos < MaxPos
        BY <1>4, <2>3
      <3>2. box'["x"].pos = box["x"].pos + 1 /\ box'["y"].pos = box["y"].pos + 1
        BY <1>1, <2>3, <3>1 DEF Sides
      <3> QED
        BY <1>4, <2>3, <3>2
    <2> QED
      BY <2>1, <2>2, <2>3, PullReads
  <1>6. Typed'
    BY PullReads DEF Typed
  <1> QED
    BY <1>3, <1>5, <1>6, PullReads DEF ShapesInv

\* ... and what they hold of operands in the base of the result.
LEMMA PullBoxes ==
    ASSUME OneBase, Typed, BoxesInv(box), Pull
    PROVE  BoxesInv(box') /\ BoxesInv(box)'
  <1>1. UNCHANGED <<op, val>>
    BY DEF Pull
  <1>2. ShapesInv(box) /\ \A s \in Sides : BoxInv(box[s], val[s])
    BY DEF BoxesInv
  <1>3. ASSUME NEW s \in Sides PROVE BoxInv(box'[s], val[s])
    <2>1. val[s] \in Values /\ BoxInv(box[s], val[s])
      BY <1>2 DEF Typed
    <2>2. CASE box'[s] = box[s]
      BY <2>1, <2>2
    <2>3. CASE /\ box[s].pos < MaxPos
               /\ box'[s] \in {Refined(s), Collapsed(Refined(s))}
      <3>1. BoxInv(Refined(s), val[s])
        BY <2>1, <2>3, RefinedBox
      <3>2. BoxInv(Collapsed(Refined(s)), val[s])
        BY <3>1, CollapsedBox
      <3> QED
        BY <2>3, <3>1, <3>2
    <2> QED
      BY <1>2, <2>2, <2>3, PullReads
  <1>4. ShapesInv(box')
    BY <1>2, PullShapes
  <1>5. BoxesInv(box')
    BY <1>3, <1>4 DEF BoxesInv
  <1>6. BoxesInv(box)'
    BY <1>1, <1>5 DEF BoxesInv, ShapesInv, Shape, BoxInv, Taken, DigitOf
  <1> QED
    BY <1>5, <1>6

\* ... and what is left of the result in its interval.
LEMMA PullKeeps ==
    ASSUME OneBase, RunsEnd, IInv, Pull, answer = "running"
    PROVE  IInv'
  <1>1. UNCHANGED <<op, val, started, intPart, prefix, emitted>>
    BY DEF Pull
  <1>2. BoxesInv(box')
    BY PullBoxes DEF IInv
  <1>3. BoxesInv(box)'
    BY PullBoxes DEF IInv
  <1>4. answer' \in {"running", "pending"}
    BY DEF Pull
  <1>5. ASSUME started PROVE FractionInv'
    <2>1. FractionInv
      BY <1>5 DEF IInv
    <2>2. rest \in Intervals /\ Left \in Int /\ Exact[2] \in Nat \ {0}
      BY <2>1 DEF FractionInv
    <2>3. CASE rest' = Tidied(rest)
      <3>1. rest' \in Intervals /\ Holds(rest', Left, Exact[2])
        BY <2>1, <2>2, <2>3, TidiedHolds DEF FractionInv
      <3> QED
        BY <1>1, <2>1, <3>1, FractionStays
    <2>4. CASE Combinable(box') /\ rest' = Tidied(Remaining(Combined(box')))
      <3> DEFINE c == Combined(box')
      <3>1. /\ Exact[1] \in Int /\ Exact[2] \in Nat \ {0}
            /\ c \in Intervals /\ Holds(c, Exact[1], Exact[2])
        BY <1>2, <2>4, CombinedHolds DEF IInv
      <3> HIDE DEF c
      <3>2. Remaining(c) \in Intervals /\ Holds(Remaining(c), Left, Exact[2])
        BY <3>1, LeftType, RemainingHolds DEF IInv
      <3>3. rest' \in Intervals /\ Holds(rest', Left, Exact[2])
        <4> DEFINE q == Remaining(c)
        <4>1. rest' = Tidied(q)
          BY <2>4 DEF c
        <4> HIDE DEF q
        <4> QED
          BY <3>2, <2>2, <4>1, TidiedHolds DEF q
      <3> QED
        BY <1>1, <2>1, <3>3, FractionStays
    <2> QED
      BY <2>3, <2>4 DEF Pull
  <1> QED
    BY <1>1, <1>3, <1>4, <1>5 DEF IInv, Typed

\* The integer part is settled when both ends of the interval have it.
LEMMA SettleKeeps ==
    ASSUME RunsEnd, IInv, Settle
    PROVE  IInv'
  <1> DEFINE c == Combined(box)
             i == c.lo \div c.scale
             n == Exact[1]
             d == Exact[2]
  <1>1. /\ ~started /\ Combinable(box) /\ Cardinality(IntegerEnds(c)) = 1
        /\ intPart' = i /\ started' = TRUE
        /\ rest' = Interval(c.lo - i * c.scale, c.hi - i * c.scale, c.scale)
        /\ UNCHANGED <<op, val, box, prefix, emitted>>
    BY DEF Settle, Settled
  <1>2. /\ n \in Int /\ d \in Nat \ {0} /\ c \in Intervals /\ Holds(c, n, d)
    BY <1>1, CombinedHolds DEF IInv
  <1>3. c.hi \div c.scale = i
    <2>1. IntegerEnds(c) = {i, c.hi \div c.scale}
      BY DEF IntegerEnds
    <2>2. IsFiniteSet({i, c.hi \div c.scale})
      <3> HIDE DEF c, i
      <3>1. IsFiniteSet({i})
        BY FS_Singleton
      <3>2. IsFiniteSet({i} \cup {c.hi \div c.scale})
        BY <3>1, FS_AddElement
      <3>3. {i} \cup {c.hi \div c.scale} = {i, c.hi \div c.scale}
        OBVIOUS
      <3> QED
        BY <3>2, <3>3
    <2>3. PICK e : IntegerEnds(c) = {e}
      BY <1>1, <2>1, <2>2, FS_Singleton
    <2> QED
      BY <2>1, <2>3
  <1>4. i = c.lo \div c.scale
    OBVIOUS
  <1> HIDE DEF c, i, n, d
  <1>5. /\ i \in Int /\ i * d <= n /\ n < (i + 1) * d
        /\ rest' \in Intervals /\ Holds(rest', n - i * d, d)
    <2>1. /\ c.lo \in Int /\ c.hi \in Int /\ c.scale \in Nat \ {0}
          /\ 1 * c.lo = c.lo /\ 1 * c.hi = c.hi /\ 1 * n = n
      BY <1>2 DEF Intervals
    <2>2. /\ i \in Int /\ i * d <= 1 * n /\ 1 * n < (i + 1) * d
          /\ Holds(Interval(1 * c.lo - i * c.scale, 1 * c.hi - i * c.scale, c.scale),
                   1 * n - i * d, d)
          /\ Interval(1 * c.lo - i * c.scale, 1 * c.hi - i * c.scale, c.scale) \in Intervals
      BY <1>2, <1>3, <1>4, <2>1, EndsAgree
    <2> QED
      BY <1>1, <2>1, <2>2
  <1>6. n \div d = i
    BY <1>2, <1>5, QuotientIs
  <1>7. emitted = <<>> /\ prefix = 0
    BY <1>1 DEF IInv
  <1>8. Exact' = Exact
    BY <1>1 DEF Exact
  <1>9. Left' = n - i * d
    <2>1. Len(emitted') = 0 /\ Base^0 = 1
      BY <1>1, <1>7, PowAssumption
    <2>2. Left' = (n - i * d) * 1 - 0 * d
      BY <1>1, <1>7, <1>8, <2>1 DEF Left, n, d
    <2> QED
      BY <1>2, <1>5, <2>2
  <1>10. FractionInv'
    <2>1. Left' \in 0..(d - 1)
      <3>1. i * d \in Int /\ (i + 1) * d = i * d + d
        BY <1>2, <1>5
      <3> QED
        BY <1>2, <1>5, <1>9, <3>1
    <2>2. intPart' = ExactPart'
      BY <1>1, <1>6, <1>8 DEF ExactPart, n, d
    <2>3. \A k \in 1..Len(emitted') : emitted'[k] = ExactDigit(k)'
      BY <1>1, <1>7
    <2>4. Holds(rest, Left, Exact[2])'
      BY <1>5, <1>8, <1>9 DEF Holds, d
    <2> QED
      BY <1>2, <1>5, <1>8, <2>1, <2>2, <2>3, <2>4 DEF FractionInv, n, d
  <1>11. BoxesInv(box)'
    BY <1>1 DEF IInv, BoxesInv, ShapesInv, Shape, BoxInv, Taken, DigitOf
  <1>12. answer' = "running" => Len(emitted) < MaxDigits
    BY DEF Settle, Looping, IInv
  <1> QED
    BY <1>1, <1>5, <1>10, <1>11, <1>12 DEF IInv, Typed

\* A digit is emitted when both ends of the interval have it: it is then the
\* next digit of the exact result, and below the base.
LEMMA CommitKeeps ==
    ASSUME IInv, CommitDigit
    PROVE  IInv'
  <1> DEFINE r == ReduceFraction(rest)
             e == Lowest
             d == Exact[2]
             n == Left
             B == Base
             L == Len(emitted)
             next == Interval(B * r.lo - e * r.scale, B * r.hi - e * r.scale, r.scale)
  <1>1. /\ started /\ Lowest = Highest /\ answer = "running"
        /\ rest' = ReduceFraction(next)
        /\ prefix' = prefix * B + e
        /\ emitted' = Append(emitted, e % Word)
        /\ answer' = "answered"
        /\ UNCHANGED <<op, val, box, started, intPart>>
    BY DEF CommitDigit, Fraction, Looping, Reduced
  <1>2. /\ FractionInv /\ rest \in Intervals /\ d \in Nat \ {0} /\ n \in Int
        /\ Exact[1] \in Int /\ Holds(rest, n, d) /\ n >= 0 /\ n < d
        /\ intPart = ExactPart
    BY <1>1 DEF IInv, FractionInv
  <1>3. r \in Intervals /\ Holds(r, n, d)
    BY <1>2, Reduction, ReductionHolds
  <1>4. (B * r.lo) \div r.scale = e /\ (B * r.hi) \div r.scale = e
    BY <1>1 DEF Lowest, Highest, Reduced
  <1>5. /\ emitted \in Seq(Nat) /\ L \in Nat /\ L < MaxDigits /\ prefix \in Nat
        /\ intPart \in Int
    BY <1>1 DEF IInv
  <1>6. B \in Nat \ {0} /\ B <= Word /\ Word \in Nat
    BY ArithAssumption DEF MaxPos
  <1>7. Base^(L + 1) = B * Base^L /\ Base^L \in Nat \ {0}
    <2>1. L <= MaxPos + MaxDigits
      BY <1>5, ArithAssumption DEF MaxPos
    <2> QED
      BY <1>5, <2>1, PowType
  <1>8. Exact' = Exact
    BY <1>1 DEF Exact
  <1>9. n = (Exact[1] - intPart * d) * Base^L - prefix * d
    BY DEF Left
  <1> HIDE DEF r, e, n, L
  <1>10. /\ e \in Int /\ e * d <= B * n /\ B * n < (e + 1) * d
         /\ Holds(next, B * n - e * d, d) /\ next \in Intervals
    BY <1>2, <1>3, <1>4, <1>6, EndsAgree
  <1>11. e \in 0..(B - 1)
    <2>1. e < B
      <3>1. B * n <= B * (d - 1)
        BY <1>2, <1>6, Scaling
      <3>2. B * (d - 1) < B * d /\ B * n \in Int /\ B * d \in Int /\ B * (d - 1) \in Int
        BY <1>2, <1>6
      <3>3. e * d < B * d
        BY <3>1, <3>2, <1>2, <1>10
      <3> HIDE DEF d, B
      <3> QED
        BY <3>3, <1>2, <1>6, <1>10, ScalingBack
    <2>2. 0 < e + 1
      <3>1. 0 <= B * n /\ B * n \in Int /\ (e + 1) * d \in Int
        BY <1>2, <1>6, <1>10
      <3>2. 0 * d < (e + 1) * d
        BY <3>1, <1>2, <1>10
      <3> HIDE DEF d, B
      <3> QED
        BY <3>2, <1>2, <1>10, ScalingBack
    <2> QED
      BY <2>1, <2>2, <1>6, <1>10
  <1>12. e % Word = e
    BY <1>6, <1>11
  <1>13. /\ emitted' \in Seq(Nat) /\ Len(emitted') = L + 1
         /\ \A k \in 1..L : emitted'[k] = emitted[k]
         /\ emitted'[L + 1] = e
    BY <1>1, <1>5, <1>11, <1>12 DEF L
  <1>14. prefix' \in Nat
    BY <1>1, <1>5, <1>6, <1>11
  <1> DEFINE f == Exact[1] - intPart * d
             k == Base^L
  <1>15. f \in Int /\ k \in Int
    BY <1>2, <1>5, <1>7
  <1>16. Left' = f * (B * k) - (prefix * B + e) * d
    BY <1>1, <1>7, <1>8, <1>13 DEF Left
  <1>17. n = f * k - prefix * d
    BY <1>9
  <1> HIDE DEF f, k, d, B
  <1>18. Left' = B * n - e * d
    BY <1>2, <1>5, <1>6, <1>10, <1>15, <1>16, <1>17
  <1>19. Left' \in Int /\ 0 <= Left' /\ Left' < d
    <2>1. B * n \in Int /\ e * d \in Int /\ (e + 1) * d = e * d + d
      BY <1>2, <1>6, <1>10
    <2> QED
      BY <2>1, <1>2, <1>10, <1>18
  <1>20. rest' \in Intervals /\ Holds(rest', Left', d)
    <2> HIDE DEF next
    <2>1. B * n - e * d \in Int
      BY <1>18, <1>19
    <2> QED
      BY <2>1, <1>1, <1>2, <1>10, <1>18, Reduction, ReductionHolds
  <1>21. emitted'[L + 1] = ExactDigit(L + 1)
    <2>1. f * (B * k) = prefix' * d + Left'
      <3>1. prefix' * d = (prefix * B + e) * d
        BY <1>1 DEF B
      <3>2. (prefix * B + e) * d \in Int /\ f * (B * k) \in Int
        BY <1>2, <1>5, <1>6, <1>10, <1>15
      <3> QED
        BY <3>1, <3>2, <1>16
    <2>2. prefix' * d <= f * (B * k) /\ f * (B * k) < (prefix' + 1) * d
      <3>1. prefix' * d \in Int /\ (prefix' + 1) * d = prefix' * d + d
        BY <1>2, <1>14
      <3> QED
        BY <3>1, <2>1, <1>2, <1>19
    <2>3. (f * (B * k)) \div d = prefix'
      <3>1. f * (B * k) \in Int /\ prefix' \in Int
        BY <1>6, <1>14, <1>15
      <3> QED
        BY <3>1, <2>2, <1>2, QuotientIs
    <2>4. ExactDigit(L + 1) = ((f * (B * k)) \div d) % B
      BY <1>2, <1>7 DEF ExactDigit, f, d, B, k
    <2>5. prefix' = B * prefix + e
      BY <1>1, <1>5, <1>6 DEF B
    <2>6. (B * prefix + e) % B = e
      <3>1. B \in Nat /\ e \in Nat /\ e < B /\ prefix \in Int
        BY <1>5, <1>6, <1>11
      <3> QED
        BY <3>1, DigitFrom
    <2> QED
      BY <2>3, <2>4, <2>5, <2>6, <1>13
  <1>22. FractionInv'
    <2>1. \A j : ExactDigit(j)' = ExactDigit(j)
      BY <1>1, <1>8 DEF ExactDigit, ExactPart
    <2>2. \A j \in 1..Len(emitted)' : emitted'[j] = ExactDigit(j)'
      <3> SUFFICES ASSUME NEW j \in 1..Len(emitted)' PROVE emitted'[j] = ExactDigit(j)'
        OBVIOUS
      <3>1. j \in 1..L \/ j = L + 1
        BY <1>5, <1>13
      <3>2. CASE j \in 1..L
        BY <3>2, <2>1, <1>2, <1>13 DEF FractionInv, L
      <3>3. CASE j = L + 1
        BY <3>3, <2>1, <1>21
      <3> QED
        BY <3>1, <3>2, <3>3
    <2>3. Left' \in 0..(Exact[2]' - 1)
      BY <1>2, <1>8, <1>19 DEF d
    <2>4. intPart' = ExactPart' /\ Exact[1]' \in Int /\ Exact[2]' \in Nat \ {0}
      BY <1>1, <1>2, <1>8 DEF ExactPart, d
    <2>5. Holds(rest, Left, Exact[2])'
      BY <1>8, <1>20 DEF Holds, d
    <2> QED
      BY <1>20, <2>2, <2>3, <2>4, <2>5 DEF FractionInv
  <1>23. BoxesInv(box)'
    BY <1>1 DEF IInv, BoxesInv, ShapesInv, Shape, BoxInv, Taken, DigitOf
  <1>24. Typed' /\ started' /\ started' \in BOOLEAN /\ intPart' \in Int
    BY <1>1 DEF IInv, Typed
  <1>25. Len(emitted') <= MaxDigits
    BY <1>5, <1>13, ArithAssumption DEF MaxPos
  <1> QED
    BY <1>1, <1>13, <1>14, <1>22, <1>23, <1>24, <1>25 DEF IInv

LEMMA GiveUpKeeps ==
    ASSUME IInv, GiveUp
    PROVE  IInv'
  <1>1. /\ rest' = Tidied(rest) /\ answer' = "pending"
        /\ UNCHANGED <<op, val, box, started, intPart, prefix, emitted>>
    BY DEF GiveUp
  <1>2. ASSUME started PROVE FractionInv'
    <2>1. FractionInv
      BY <1>2 DEF IInv
    <2>2. rest' \in Intervals /\ Holds(rest', Left, Exact[2])
      BY <1>1, <2>1, TidiedHolds DEF FractionInv
    <2> QED
      BY <1>1, <2>1, <2>2, FractionStays
  <1>3. BoxesInv(box)'
    BY <1>1 DEF IInv, BoxesInv, ShapesInv, Shape, BoxInv, Taken, DigitOf
  <1> QED
    BY <1>1, <1>2, <1>3 DEF IInv, Typed

LEMMA NextKeeps ==
    ASSUME OneBase, RunsEnd, IInv, [Next]_vars
    PROVE  IInv'
  <1>1. ASSUME UNCHANGED <<op, val, box, started, intPart, rest, prefix, emitted>>,
               answer' = "running" => Len(emitted) < MaxDigits
        PROVE  IInv'
    <2>1. BoxesInv(box)'
      BY <1>1 DEF IInv, BoxesInv, ShapesInv, Shape, BoxInv, Taken, DigitOf
    <2>2. FractionInv => FractionInv'
      BY <1>1, FractionStays DEF FractionInv
    <2> QED
      BY <1>1, <2>1, <2>2 DEF IInv, Typed
  <1>2. CASE Call
    BY <1>1, <1>2 DEF Call
  <1>3. CASE Settle
    BY <1>3, SettleKeeps
  <1>4. CASE SettleRefine
    BY <1>4, PullKeeps DEF SettleRefine, Looping
  <1>5. CASE CommitDigit
    BY <1>5, CommitKeeps
  <1>6. CASE FractionRefine
    BY <1>6, PullKeeps DEF FractionRefine, Fraction, Looping
  <1>7. CASE GiveUp
    BY <1>7, GiveUpKeeps
  <1>8. CASE UNCHANGED vars
    BY <1>1, <1>8 DEF vars, IInv
  <1> QED
    BY <1>2, <1>3, <1>4, <1>5, <1>6, <1>7, <1>8 DEF Next

LEMMA ShapesKept ==
    ASSUME Typed, ShapesInv(box), [Next]_vars
    PROVE  Typed' /\ ShapesInv(box)'
  <1>1. ASSUME UNCHANGED <<op, val, box>> PROVE Typed' /\ ShapesInv(box)'
    BY <1>1 DEF Typed, ShapesInv, Shape
  <1>2. ASSUME Pull PROVE Typed' /\ ShapesInv(box)'
    BY <1>2, PullShapes DEF ShapesInv, Shape
  <1> QED
    BY <1>1, <1>2 DEF Next, Call, Settle, SettleRefine, CommitDigit,
                      FractionRefine, GiveUp, vars

-----------------------------------------------------------------------------
(* Theorems *)

LEMMA Invariance ==
    ASSUME OneBase, RunsEnd
    PROVE  Spec => []IInv
  <1>1. IInv /\ [Next]_vars => IInv'
    BY NextKeeps
  <1> QED
    BY <1>1, InitEstablishes, PTL DEF Spec

\* Integer part and digits are those of the exact sum, difference, product or
\* quotient: "we never emit a digit we cannot prove" (arith.hpp:5-17), for any
\* two operands in the base of the result that keep nothing back behind a run
\* of kTerminateRun zeros.
THEOREM DigitsAreTrue ==
    ASSUME OneBase, RunsEnd
    PROVE  Spec => []NoFalseDigit
  <1>1. IInv => NoFalseDigit
    BY DEF IInv, FractionInv, NoFalseDigit
  <1> QED
    BY <1>1, Invariance, PTL

\* Each operand lies in its box at every read, also in a box collapsed to a
\* point (arith.hpp:120-168).
THEOREM OperandsStayEnclosed ==
    ASSUME OneBase, RunsEnd
    PROVE  Spec => []OperandsEnclosed
  <1>1. IInv => OperandsEnclosed
    BY BoxEncloses DEF IInv, Typed, BoxesInv, OperandsEnclosed
  <1> QED
    BY <1>1, Invariance, PTL

\* What is left of the result lies in the interval kept between calls, after
\* every read, digit, reduction and early return (arith.hpp:365-379).
THEOREM RestStaysEnclosed ==
    ASSUME OneBase, RunsEnd
    PROVE  Spec => []RestEncloses
  <1>1. IInv => RestEncloses
    BY DEF IInv, FractionInv, RestEncloses, Left, Holds
  <1> QED
    BY <1>1, Invariance, PTL

\* The assertions of reduce_fraction never fail: the interval stays ordered,
\* its scale positive (arith.hpp:399-408).
THEOREM ArithNeverAborts ==
    ASSUME OneBase, RunsEnd
    PROVE  Spec => []NeverAborts
  <1>1. ASSUME NEW r \in Intervals, NEW n \in Int, NEW d \in Nat \ {0}, Holds(r, n, d)
        PROVE  r.lo <= r.hi /\ r.scale > 0
    <2>1. r.lo \in Int /\ r.hi \in Int /\ r.scale \in Nat \ {0}
      BY DEF Intervals
    <2>2. r.lo * d <= r.hi * d
      <3>1. r.lo * d \in Int /\ n * r.scale \in Int /\ r.hi * d \in Int
        BY <2>1
      <3> QED
        BY <1>1, <3>1 DEF Holds
    <2> QED
      BY <2>1, <2>2, ScalingBack
  <1>2. IInv => NeverAborts
    <2> SUFFICES ASSUME IInv, started PROVE rest.lo <= rest.hi /\ rest.scale > 0
      BY DEF NeverAborts
    <2>1. /\ rest \in Intervals /\ Exact[2] \in Nat \ {0}
          /\ Holds(rest, Left, Exact[2]) /\ Left \in Int
      BY DEF IInv, FractionInv
    <2> QED
      BY <1>1, <2>1
  <1> QED
    BY <1>2, Invariance, PTL

\* The first kTerminateRun - 1 digits read need no assumption about zeros: no
\* box is collapsed before.
THEOREM FirstDigitsAreTrue ==
    ASSUME OneBase, MaxPos < ZeroRun
    PROVE  Spec => []NoFalseDigit
  <1>1. ZeroRun..MaxPos = {}
    BY ArithAssumption DEF MaxPos
  <1>2. RunsEnd
    BY <1>1 DEF RunsEnd
  <1> QED
    BY <1>2, DigitsAreTrue

\* reduce_operand never strips anything, whatever the operands and the bases
\* they were made in: a box just read is one unit wide, and the denominator of
\* an operand is Base^pos after pos digits for ever, terminated or not
\* (arith.hpp:415-442).
NothingEverStripped == \A s \in Sides : box[s].den = Base^box[s].pos

THEOREM OperandsNeverShrink == Spec => []NothingEverStripped
  <1>1. Typed /\ ShapesInv(box) /\ [Next]_vars => (Typed /\ ShapesInv(box))'
    BY ShapesKept
  <1>2. ShapesInv(box) => NothingEverStripped
    BY DEF ShapesInv, Shape, NothingEverStripped
  <1>3. Init => Typed /\ ShapesInv(box)
    BY InitEstablishes DEF IInv, BoxesInv
  <1> QED
    BY <1>1, <1>2, <1>3, PTL DEF Spec
=============================================================================
