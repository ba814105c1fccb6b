-------------------------- MODULE AutomatonProofs --------------------------
(***************************************************************************)
(* The automaton tier is exact for every fraction, p-adic number and       *)
(* radicand, every sequence of bases and any number of digits, as long as  *)
(* the registers are wide enough.  Each of the three machines has an       *)
(* inductive invariant of its own (RationalInv, PAdicInv, SqrtInv), kept   *)
(* by its own steps and untouched by those of the others; what a           *)
(* reprojection wrote is described by Projected.  What the code leaves to  *)
(* its callers is stated as Narrow, Searched, PSearched, SqrtFits and      *)
(* ProjectionFits.                                                         *)
(***************************************************************************)
EXTENDS Automaton, FiniteSetTheorems, SequenceTheorems, Recursion, TLAPS

-----------------------------------------------------------------------------
(* Integer lemmas *)

\* Long division: a digit and a remainder make up the scaled remainder.
LEMMA LongDivision ==
    ASSUME NEW m \in Nat, NEW d \in Nat, d > 0
    PROVE  /\ m \div d \in Nat /\ m % d \in Nat /\ m % d < d
           /\ m = (m \div d) * d + (m % d)
  <1>1. m % d \in 0..(d - 1)
    OBVIOUS
  <1>2. m \div d \in Int /\ m = d * (m \div d) + (m % d)
    OBVIOUS
  <1>3. m \div d >= 0
    BY <1>1, <1>2
  <1> QED
    BY <1>1, <1>2, <1>3

\* A quotient is known by the remainder it leaves.
LEMMA QuotientIs ==
    ASSUME NEW d \in Nat \ {0}, NEW k \in Int, NEW left \in Nat, left < d
    PROVE  /\ (k * d + left) \div d = k /\ (k * d + left) % d = left
           /\ (d * k + left) \div d = k /\ (d * k + left) % d = left
  <1> DEFINE a == k * d + left
             t == a \div d
             m == a % d
  <1>1. a \in Int /\ a = d * k + left
    OBVIOUS
  <1>2. t \in Int /\ m \in 0..(d - 1) /\ a = d * t + m
    BY <1>1
  <1> HIDE DEF t, m
  <1>3. d * (t - k) = left - m
    BY <1>1, <1>2
  <1>4. t - k < 1
    <2> SUFFICES ASSUME 1 <= t - k PROVE FALSE
      BY <1>2
    <2>1. d * 1 <= d * (t - k)
      BY <1>2
    <2> QED
      BY <2>1, <1>2, <1>3
  <1>5. -1 < t - k
    <2> SUFFICES ASSUME t - k <= -1 PROVE FALSE
      BY <1>2
    <2>1. d * (t - k) <= d * (-1)
      BY <1>2
    <2> QED
      BY <2>1, <1>2, <1>3
  <1>6. t = k
    BY <1>2, <1>4, <1>5
  <1>7. m = left
    BY <1>1, <1>2, <1>6
  <1> QED
    BY <1>1, <1>6, <1>7 DEF t, m

\* A set of naturals that is not empty has a least element.
LEMMA LeastIs ==
    ASSUME NEW K \in SUBSET Nat, K # {}
    PROVE  Least(K) \in K /\ \A j \in K : Least(K) <= j
  <1>1. \E k \in K : \A j \in K : k <= j
    BY LeastNatural
  <1> QED
    BY <1>1 DEF Least

\* A power of a base, as far as the assumption on powers goes.
LEMMA Powers ==
    ASSUME NEW b \in Bases
    PROVE  \A n \in 0..(MaxSkip + MaxLook + 1) : b^n \in Nat \ {0}
  <1> USE RationalAssumption
  <1> DEFINE S == {n \in Nat : b^n \in Nat \ {0}}
             top == MaxSkip + MaxLook + 1
  <1>1. 0 \in S
    BY PowAssumption
  <1>2. ASSUME NEW n \in Nat, n < top, n \in S PROVE n + 1 \in S
    <2>1. n \in 0..(MaxSkip + MaxLook) /\ b \in Nat \ {0}
      BY <1>2
    <2>2. b^(n + 1) = b * b^n
      BY <2>1, PowAssumption
    <2> DEFINE w == b^n
    <2>3. w \in Nat \ {0}
      BY <1>2
    <2> HIDE DEF w
    <2>4. b * w \in Nat \ {0}
      BY <2>1, <2>3
    <2> QED
      BY <2>2, <2>4 DEF w
  <1>3. \A n \in 0..top : n \in S
    <2>1. top \in Nat
      OBVIOUS
    <2> HIDE DEF S, top
    <2> QED
      BY <1>1, <1>2, <2>1, BoundedInduction
  <1> QED
    BY <1>3

-----------------------------------------------------------------------------
(* The rational machine *)

\* The registers of a machine.
States == [r : Nat, q : Nat]

\* What the code assumes of its inputs and does not check: r * base, with r
\* below the denominator, does not wrap around (rational.hpp:34).
Narrow == \A f \in Fractions, b \in Bases : f.q * b < Word

\* A denominator's cycle shows before the safety bound (rational.hpp:74).
Searched ==
    \A f \in Fractions, b \in Bases : f.q > 0 =>
        \A r \in 0..(f.q - 1) : Stops(b, [r |-> r, q |-> f.q]) # {}

\* The states a machine can be in.
Legal == {s \in States : /\ \E f \in Fractions : s.q = f.q
                         /\ s.q > 0 => s.r < s.q
                         /\ s.q = 0 => s.r = 0}

\* A fraction in registers wide enough for base b.
Remainders(q) == [r : 0..(q - 1), q : {q}]
\* The denominator times the base fits a word.
Fitting(b, q) == b \in Nat \ {0} /\ q \in Nat \ {0} /\ q * b < Word

\* A step of such a fraction is a step of long division, in any base.
LEMMA FreeStep ==
    ASSUME NEW b, NEW q, Fitting(b, q), NEW s \in Remainders(q)
    PROVE  /\ Digit(b, s) \in Nat /\ Digit(b, s) < b
           /\ After(b, s) \in Remainders(q)
           /\ s.r * b = Digit(b, s) * q + After(b, s).r
  <1> DEFINE r == s.r
             d == (r * b) \div q
             left == (r * b) % q
  <1>1. /\ r \in Nat /\ q \in Nat /\ q > 0 /\ r < q /\ b \in Nat /\ b > 0
        /\ s = [r |-> r, q |-> q] /\ s.q = q /\ q * b < Word
    BY DEF Remainders, Fitting
  <1>2. r * b \in Nat /\ r * b <= q * b /\ r * b < Word
    BY <1>1, RationalAssumption
  <1>3. Scaled(b, s) = r * b
    BY <1>2, RationalAssumption DEF Scaled
  <1>4. d \in Nat /\ left \in Nat /\ left < q /\ r * b = d * q + left
    BY <1>1, <1>2, LongDivision
  <1>5. Digit(b, s) = d /\ After(b, s) = [r |-> left, q |-> q]
    BY <1>1, <1>3 DEF Digit, After
  <1> HIDE DEF r, d, left
  <1>6. d < b
    <2> SUFFICES ASSUME b <= d PROVE FALSE
      BY <1>1, <1>4
    <2>1. b * q <= d * q
      BY <1>1, <1>4
    <2>2. r * b <= (q - 1) * b
      BY <1>1
    <2>3. (q - 1) * b = b * q - b
      BY <1>1
    <2> QED
      BY <1>1, <1>4, <2>1, <2>2, <2>3
  <1>7. After(b, s) \in Remainders(q) /\ After(b, s).r = left
    BY <1>1, <1>4, <1>5 DEF Remainders
  <1> QED
    BY <1>4, <1>5, <1>6, <1>7 DEF r

\* A step of a legal machine is a step of long division.
LEMMA StepDivides ==
    ASSUME Narrow, NEW b \in Bases, NEW s \in Legal, s.q > 0
    PROVE  /\ Digit(b, s) \in 0..(b - 1)
           /\ After(b, s) \in Legal /\ After(b, s).q = s.q
           /\ s.r * b = Digit(b, s) * s.q + After(b, s).r
  <1> DEFINE q == s.q
  <1>1. PICK f \in Fractions : q = f.q
    BY DEF Legal
  <1>2. Fitting(b, q) /\ s \in Remainders(q)
    <2>1. q \in Nat \ {0} /\ b \in Nat \ {0} /\ q * b < Word
      BY <1>1, RationalAssumption DEF Legal, States, Narrow
    <2>2. s.r \in 0..(q - 1) /\ s = [r |-> s.r, q |-> q]
      BY DEF Legal, States
    <2> QED
      BY <2>1, <2>2 DEF Fitting, Remainders
  <1> HIDE DEF q
  <1>3. /\ Digit(b, s) \in Nat /\ Digit(b, s) < b
        /\ After(b, s) \in Remainders(q)
        /\ s.r * b = Digit(b, s) * q + After(b, s).r
    BY <1>2, FreeStep
  <1>4. /\ After(b, s).r \in Nat /\ After(b, s).q = q /\ After(b, s).r < q
        /\ q \in Nat \ {0} /\ After(b, s) \in States
    BY <1>2, <1>3 DEF Remainders, Fitting, States
  <1>5. After(b, s) \in Legal
    BY <1>1, <1>4 DEF Legal
  <1>6. Digit(b, s) \in 0..(b - 1)
    BY <1>3, RationalAssumption
  <1> QED
    BY <1>3, <1>4, <1>5, <1>6 DEF q

\* The states a machine can be in are closed under its step.
LEMMA AfterLegal ==
    ASSUME Narrow, NEW b \in Bases, NEW s \in Legal
    PROVE  After(b, s) \in Legal /\ After(b, s).q = s.q
  <1>1. CASE s.q = 0
    BY <1>1 DEF After
  <1>2. CASE s.q > 0
    BY <1>2, StepDivides
  <1> QED
    BY <1>1, <1>2 DEF Legal, States

\* The walk from a state: where it stands after any number of steps.
LEMMA Walk ==
    ASSUME Narrow, NEW b \in Bases, NEW s \in Legal
    PROVE  /\ Stepped(b, s, 0) = s
           /\ \A n \in Nat : /\ Stepped(b, s, n) \in Legal
                             /\ Stepped(b, s, n + 1) = After(b, Stepped(b, s, n))
                             /\ Stepped(b, s, n).q = s.q
  <1> DEFINE Is(f) == f = [k \in Nat |-> IF k = 0 THEN s ELSE After(b, f[k - 1])]
             F == [t \in Legal |-> After(b, t)]
             at == CHOOSE f : Is(f)
  <1>1. F \in [Legal -> Legal]
    BY AfterLegal
  <1>2. PICK g \in [Nat -> Legal] : g[0] = s /\ Orbit(g, F)
    BY <1>1, Iteration
  <1>3. \A n \in Nat : g[n + 1] = After(b, g[n])
    <2> SUFFICES ASSUME NEW n \in Nat PROVE g[n + 1] = After(b, g[n])
      OBVIOUS
    <2>1. g[n] \in Legal /\ g[n + 1] = F[g[n]]
      BY <1>2 DEF Orbit
    <2> QED
      BY <2>1
  <1>4. Is(g)
    <2>1. ASSUME NEW k \in Nat
          PROVE  g[k] = IF k = 0 THEN s ELSE After(b, g[k - 1])
      <3>1. CASE k = 0
        BY <1>2, <3>1
      <3>2. CASE k # 0
        <4>1. k - 1 \in Nat /\ (k - 1) + 1 = k
          BY <3>2
        <4>2. g[(k - 1) + 1] = After(b, g[k - 1])
          BY <1>3, <4>1
        <4> QED
          BY <3>2, <4>1, <4>2
      <3> QED
        BY <3>1, <3>2
    <2> QED
      BY <2>1, <1>2
  <1>5. Is(at)
    BY <1>4
  <1> HIDE DEF at
  <1>6. \A k \in Nat : at[k] = IF k = 0 THEN s ELSE After(b, at[k - 1])
    BY <1>5
  <1>7. at[0] = s /\ \A n \in Nat : at[n + 1] = After(b, at[n])
    <2>1. at[0] = s
      BY <1>6
    <2>2. ASSUME NEW n \in Nat PROVE at[n + 1] = After(b, at[n])
      <3>1. n + 1 \in Nat /\ n + 1 # 0 /\ (n + 1) - 1 = n
        OBVIOUS
      <3> QED
        BY <1>6, <3>1
    <2> QED
      BY <2>1, <2>2
  <1>8. \A n \in Nat : Stepped(b, s, n) = at[n]
    BY DEF Stepped, at
  <1> DEFINE S == {n \in Nat : at[n] \in Legal /\ at[n].q = s.q}
  <1>9. 0 \in S
    BY <1>7
  <1>10. ASSUME NEW n \in Nat, n \in S PROVE n + 1 \in S
    BY <1>7, <1>10, AfterLegal
  <1>11. \A n \in Nat : n \in S
    <2> HIDE DEF S
    <2> QED
      BY <1>9, <1>10, SetInduction
  <1> QED
    BY <1>7, <1>8, <1>11

\* Where the walk stands after n steps, and that it goes on from there.
LEMMA WalkAt ==
    ASSUME Narrow, NEW b \in Bases, NEW s \in Legal, NEW n \in Nat
    PROVE  /\ Stepped(b, s, n) \in Legal /\ Stepped(b, s, n).q = s.q
           /\ Stepped(b, s, n + 1) = After(b, Stepped(b, s, n))
  BY Walk

LEMMA WalkStays ==
    ASSUME Narrow, NEW b \in Bases, NEW s \in Legal, NEW n \in Nat
    PROVE  Stepped(b, s, n) \in Legal /\ Stepped(b, s, n).q = s.q
  BY WalkAt

\* The walk of a state as an orbit.
WalkOf(b, s) == [n \in Nat |-> Stepped(b, s, n)]
\* The step of the machine in base b, as a function on its states.
StepIn(b) == [t \in Legal |-> After(b, t)]

\* The walk is an orbit of the step, so that what is known of orbits applies.
LEMMA WalkOrbit ==
    ASSUME Narrow, NEW b \in Bases, NEW s \in Legal
    PROVE  Orbit(WalkOf(b, s), StepIn(b))
  <1> SUFFICES ASSUME NEW n \in Nat
               PROVE  WalkOf(b, s)[n + 1] = StepIn(b)[WalkOf(b, s)[n]]
    BY DEF Orbit
  <1>1. /\ Stepped(b, s, n) \in Legal
        /\ Stepped(b, s, n + 1) = After(b, Stepped(b, s, n))
    BY Walk
  <1>2. WalkOf(b, s)[n + 1] = Stepped(b, s, n + 1) /\ WalkOf(b, s)[n] = Stepped(b, s, n)
    BY DEF WalkOf
  <1>3. StepIn(b)[Stepped(b, s, n)] = After(b, Stepped(b, s, n))
    BY <1>1 DEF StepIn
  <1> QED
    BY <1>1, <1>2, <1>3

\* A walk goes on from where it stands.
LEMMA WalkOn ==
    ASSUME Narrow, NEW b \in Bases, NEW s \in Legal, NEW i \in Nat, NEW n \in Nat
    PROVE  Stepped(b, Stepped(b, s, i), n) = Stepped(b, s, i + n)
  <1> DEFINE t == Stepped(b, s, i)
             g == WalkOf(b, t)
             h == WalkOf(b, s)
  <1>1. t \in Legal
    BY Walk
  <1>2. Orbit(g, StepIn(b)) /\ Orbit(h, StepIn(b))
    BY <1>1, WalkOrbit
  <1>3. g[0] = h[i]
    BY <1>1, Walk DEF WalkOf
  <1> HIDE DEF t, g, h
  <1>4. g[0 + n] = h[i + n]
    BY <1>2, <1>3, OrbitsMeet DEF Meets
  <1> QED
    BY <1>4 DEF g, h, t, WalkOf

\* A skip lands where stepping would: past the lead-in only the phase in the
\* cycle counts, and a remainder of 0 stays (skip.hpp:20-32).
LEMMA SkipSteps ==
    ASSUME Narrow, Searched, NEW b \in Bases, NEW s \in Legal, s.q > 0, NEW n \in Nat
    PROVE  Skipped(b, s, n) = Stepped(b, s, n)
  <1> DEFINE k == Least(Stops(b, s))
             g == WalkOf(b, s)
  <1>1. Stops(b, s) # {}
    <2>1. PICK f \in Fractions : s.q = f.q
      BY DEF Legal
    <2>2. s.r \in 0..(f.q - 1) /\ s = [r |-> s.r, q |-> f.q]
      BY <2>1 DEF Legal, States
    <2> QED
      BY <2>1, <2>2 DEF Searched
  <1>2. k \in Stops(b, s)
    <2>1. Stops(b, s) \in SUBSET Nat
      BY RationalAssumption DEF Stops
    <2> QED
      BY <1>1, <2>1, LeastIs
  <1>3. /\ k \in Nat
        /\ Stepped(b, s, k).r = 0 \/ SeenBefore(b, s, k) # {}
    BY <1>2, RationalAssumption DEF Stops
  <1> HIDE DEF k
  <1>4. Orbit(g, StepIn(b)) /\ \A m \in Nat : g[m] = Stepped(b, s, m)
    BY WalkOrbit DEF WalkOf
  <1> HIDE DEF g
  <1>5. CASE Stepped(b, s, k).r = 0
    <2>1. Period(b, s) = <<k, 0>>
      BY <1>1, <1>5 DEF Period, k
    <2>2. Period(b, s)[1] = k /\ Period(b, s)[2] = 0
      BY <2>1
    <2>3. CASE n <= k
      BY <1>3, <2>2, <2>3 DEF Skipped
    <2>4. CASE n > k
      <3>1. Skipped(b, s, n) = Stepped(b, s, k)
        BY <1>3, <2>2, <2>4 DEF Skipped
      <3>2. k + 1 \in Nat /\ Stepped(b, s, k + 1) = Stepped(b, s, k)
        <4> DEFINE t == Stepped(b, s, k)
        <4>1. t \in Legal /\ t.q = s.q /\ Stepped(b, s, k + 1) = After(b, t)
          BY <1>3, Walk
        <4>2. t = [r |-> 0, q |-> s.q]
          BY <4>1, <1>5 DEF Legal, States
        <4>3. s.q \in Nat /\ b \in Nat
          BY RationalAssumption DEF Legal, States
        <4>4. After(b, [r |-> 0, q |-> s.q]) = [r |-> 0, q |-> s.q]
          <5>1. 0 * b = 0 /\ 0 % Word = 0 /\ 0 % s.q = 0
            BY <4>3, RationalAssumption
          <5> QED
            BY <5>1 DEF After, Scaled
        <4> QED
          BY <1>3, <4>1, <4>2, <4>4
      <3> DEFINE m == n - k
                 p == 1
      <3>3. m \in Nat /\ k + m = n /\ m % p = 0 /\ k + 0 = k
        BY <1>3, <2>4
      <3>4. Returns(g, k, p)
        BY <1>3, <1>4, <3>2 DEF Returns
      <3> HIDE DEF m, p
      <3>5. \A x \in Nat : g[k + x] = g[k + (x % p)]
        BY <1>3, <1>4, <3>4, OrbitCycles
      <3>6. g[k + m] = g[k + (m % p)]
        BY <3>3, <3>5
      <3>7. g[n] = g[k]
        BY <3>3, <3>6, <1>3
      <3> QED
        BY <3>1, <3>7, <1>3, <1>4
    <2> QED
      BY <2>3, <2>4, <1>3
  <1>6. CASE Stepped(b, s, k).r # 0
    <2> DEFINE i == Least(SeenBefore(b, s, k))
    <2>1. i \in SeenBefore(b, s, k)
      <3>1. SeenBefore(b, s, k) \in SUBSET Nat
        BY <1>3 DEF SeenBefore
      <3> QED
        BY <1>3, <1>6, <3>1, LeastIs
    <2>2. i \in Nat /\ i < k /\ Stepped(b, s, i).r = Stepped(b, s, k).r
      BY <1>3, <2>1 DEF SeenBefore
    <2> HIDE DEF i
    <2>3. Period(b, s) = <<i, k - i>>
      BY <1>1, <1>6 DEF Period, k, i
    <2> DEFINE p == k - i
    <2>4. /\ p \in Nat \ {0} /\ i + p = k
          /\ Period(b, s)[1] = i /\ Period(b, s)[2] = p
      BY <1>3, <2>2, <2>3
    <2> HIDE DEF p
    <2>5. g[k] = g[i]
      <3>1. Stepped(b, s, i) \in Legal /\ Stepped(b, s, k) \in Legal
        BY <1>3, <2>2, Walk
      <3>2. Stepped(b, s, i).q = Stepped(b, s, k).q
        BY <1>3, <2>2, Walk
      <3>3. Stepped(b, s, i) = Stepped(b, s, k)
        BY <2>2, <3>1, <3>2 DEF Legal, States
      <3> QED
        BY <1>3, <1>4, <2>2, <2>4, <3>3
    <2>6. CASE n <= i
      BY <2>2, <2>4, <2>6 DEF Skipped
    <2>7. CASE n > i
      <3> DEFINE m == n - i
      <3>1. m \in Nat /\ i + m = n /\ n - i = m
        BY <2>2, <2>7
      <3>2. Skipped(b, s, n) = Stepped(b, Stepped(b, s, i), (n - i) % p)
        BY <2>2, <2>4, <2>7 DEF Skipped
      <3> HIDE DEF m
      <3>3. m % p \in Nat
        BY <3>1, <2>4
      <3>4. Stepped(b, Stepped(b, s, i), m % p) = Stepped(b, s, i + (m % p))
        BY <2>2, <3>3, WalkOn
      <3>5. g[i + m] = g[i + (m % p)]
        <4>1. \A x \in Nat : g[i + x] = g[i + (x % p)]
          <5>1. Returns(g, i, p)
            BY <2>4, <2>5 DEF Returns
          <5> QED
            BY <1>4, <2>2, <5>1, OrbitCycles
        <4> QED
          BY <3>1, <4>1
      <3>6. i + (m % p) \in Nat
        BY <2>2, <3>3
      <3>7. g[i + (m % p)] = Stepped(b, s, i + (m % p)) /\ g[i + m] = Stepped(b, s, n)
        BY <1>4, <3>1, <3>6
      <3> QED
        BY <3>1, <3>2, <3>4, <3>5, <3>7
    <2> QED
      BY <2>2, <2>6, <2>7
  <1> QED
    BY <1>5, <1>6

\* Of a number without a denominator a skip leaves nothing to be wrong about.
LEMMA SkipParked ==
    ASSUME Narrow, NEW b \in Bases, NEW s \in Legal, s.q = 0, NEW n \in Nat
    PROVE  Skipped(b, s, n) = s
  <1> DEFINE S == {m \in Nat : Stepped(b, s, m) = s}
  <1>1. After(b, s) = s
    BY DEF After
  <1>2. 0 \in S
    BY Walk
  <1>3. ASSUME NEW m \in Nat, m \in S PROVE m + 1 \in S
    BY <1>1, <1>3, Walk
  <1>4. \A m \in Nat : m \in S
    <2> HIDE DEF S
    <2> QED
      BY <1>2, <1>3, SetInduction
  <1>5. s.r = 0
    BY DEF Legal
  <1>6. Period(b, s)[1] \in Int
    <2>1. CASE Stops(b, s) = {}
      BY <2>1, RationalAssumption DEF Period
    <2>2. CASE Stops(b, s) # {}
      <3> DEFINE k == Least(Stops(b, s))
      <3>1. k \in Nat
        <4>1. Stops(b, s) \in SUBSET Nat
          BY RationalAssumption DEF Stops
        <4> QED
          BY <2>2, <4>1, LeastIs
      <3>2. Stepped(b, s, k).r = 0
        BY <1>4, <1>5, <3>1
      <3>3. Period(b, s) = <<k, 0>>
        BY <2>2, <3>2 DEF Period
      <3> QED
        BY <3>1, <3>3
    <2> QED
      BY <2>1, <2>2
  <1>7. CASE n <= Period(b, s)[1]
    BY <1>4, <1>6, <1>7 DEF Skipped
  <1>8. CASE n > Period(b, s)[1] /\ Stops(b, s) = {}
    <2>1. Period(b, s)[1] = SafetyBound + 1 /\ Period(b, s)[2] = 0
      BY <1>8 DEF Period
    <2>2. Skipped(b, s, n) = Stepped(b, s, SafetyBound + 1)
      BY <1>8, <2>1, RationalAssumption DEF Skipped
    <2> QED
      BY <1>4, <2>2, RationalAssumption
  <1>9. CASE n > Period(b, s)[1] /\ Stops(b, s) # {}
    <2> DEFINE k == Least(Stops(b, s))
    <2>1. k \in Nat
      <3>1. Stops(b, s) \in SUBSET Nat
        BY RationalAssumption DEF Stops
      <3> QED
        BY <1>9, <3>1, LeastIs
    <2>2. Stepped(b, s, k).r = 0
      BY <1>4, <1>5, <2>1
    <2>3. Period(b, s) = <<k, 0>>
      BY <1>9, <2>2 DEF Period
    <2> HIDE DEF k
    <2>4. Skipped(b, s, n) = Stepped(b, s, k)
      BY <1>9, <2>1, <2>3 DEF Skipped
    <2> QED
      BY <1>4, <2>1, <2>4
  <1> QED
    BY <1>6, <1>7, <1>8, <1>9

\* k is the integer part of w times a / p, and c is left over.
Parts(a, p, w, k, c) == a * w = k * p + c

\* Digits gone by, one more digit and what it leaves.
LEMMA PartsStep ==
    ASSUME NEW a \in Nat, NEW p \in Nat, NEW w \in Nat, NEW k \in Nat, NEW c \in Nat,
           NEW b \in Nat, NEW d \in Nat, NEW l \in Nat,
           Parts(a, p, w, k, c), Parts(c, p, b, d, l)
    PROVE  Parts(a, p, b * w, k * b + d, l)
  <1>1. a * w = k * p + c /\ c * b = d * p + l
    BY DEF Parts
  <1>2. a * (b * w) = (a * w) * b
    OBVIOUS
  <1>3. (k * p + c) * b = (k * b) * p + c * b
    OBVIOUS
  <1>4. (k * b + d) * p = (k * b) * p + d * p
    OBVIOUS
  <1>5. (k * b) * p \in Nat /\ d * p \in Nat
    OBVIOUS
  <1> QED
    BY <1>1, <1>2, <1>3, <1>4, <1>5 DEF Parts

\* The bases two walks read, while they give the same digits, are moved from
\* their remainders by the same integer.
LEMMA SameDigits ==
    ASSUME Narrow, NEW b \in Bases, NEW x \in Legal, NEW y \in Legal,
           x.q > 0, y.q > 0
    PROVE  \A n \in 0..(MaxSkip + MaxLook + 1) :
              (\A j \in 0..(n - 1) : ~Differ(b, x, y, j)) =>
              \E Q \in Nat : /\ x.r * b^n = Q * x.q + Stepped(b, x, n).r
                             /\ y.r * b^n = Q * y.q + Stepped(b, y, n).r
  <1> USE RationalAssumption
  <1> DEFINE top == MaxSkip + MaxLook + 1
             Alike(n) == \A j \in 0..(n - 1) : ~Differ(b, x, y, j)
             Moved(n, Q) == /\ x.r * b^n = Q * x.q + Stepped(b, x, n).r
                            /\ y.r * b^n = Q * y.q + Stepped(b, y, n).r
             S == {n \in Nat : Alike(n) => \E Q \in Nat : Moved(n, Q)}
  <1>1. /\ x.r \in Nat /\ x.q \in Nat /\ y.r \in Nat /\ y.q \in Nat
        /\ b \in Nat /\ b > 0
    BY DEF Legal, States
  <1>2. 0 \in S
    <2>1. b^0 = 1 /\ Stepped(b, x, 0) = x /\ Stepped(b, y, 0) = y
      BY PowAssumption, Walk
    <2>2. Moved(0, 0)
      BY <1>1, <2>1
    <2> QED
      BY <2>2
  <1>3. ASSUME NEW n \in Nat, n < top, n \in S, Alike(n + 1)
        PROVE  \E Q \in Nat : Moved(n + 1, Q)
    <2> DEFINE xs == Stepped(b, x, n)
               ys == Stepped(b, y, n)
               d == Digit(b, xs)
               w == b^n
    <2>1. Alike(n) /\ ~Differ(b, x, y, n)
      BY <1>3
    <2>2. PICK Q \in Nat : Moved(n, Q)
      BY <1>3, <2>1
    <2>3. /\ xs \in Legal /\ ys \in Legal /\ xs.q = x.q /\ ys.q = y.q
          /\ Stepped(b, x, n + 1) = After(b, xs)
          /\ Stepped(b, y, n + 1) = After(b, ys)
      <3>1. ASSUME NEW s \in Legal
            PROVE  /\ Stepped(b, s, n) \in Legal /\ Stepped(b, s, n).q = s.q
                   /\ Stepped(b, s, n + 1) = After(b, Stepped(b, s, n))
        BY WalkAt
      <3> QED
        BY <3>1
    <2>4. Digit(b, ys) = d
      BY <2>1 DEF Differ
    <2>5. /\ d \in Nat /\ After(b, xs) \in Legal /\ After(b, ys) \in Legal
          /\ xs.r * b = d * x.q + After(b, xs).r
          /\ ys.r * b = d * y.q + After(b, ys).r
      BY <2>3, <2>4, StepDivides, <1>1
    <2>6. b^(n + 1) = b * w /\ w \in Nat
      <3>1. n \in 0..(MaxSkip + MaxLook) /\ n \in 0..(MaxSkip + MaxLook + 1)
        BY <1>3
      <3> QED
        BY <3>1, PowAssumption, Powers
    <2>7. /\ Parts(x.r, x.q, w, Q, xs.r) /\ Parts(y.r, y.q, w, Q, ys.r)
          /\ Parts(xs.r, x.q, b, d, After(b, xs).r)
          /\ Parts(ys.r, y.q, b, d, After(b, ys).r)
      BY <2>2, <2>5 DEF Parts
    <2>8. /\ xs.r \in Nat /\ ys.r \in Nat
          /\ After(b, xs).r \in Nat /\ After(b, ys).r \in Nat
      BY <2>3, <2>5 DEF Legal, States
    <2> DEFINE xl == After(b, xs).r
               yl == After(b, ys).r
    <2> HIDE DEF xs, ys, d, w, xl, yl
    <2>10. Parts(x.r, x.q, b * w, Q * b + d, xl) /\ Parts(y.r, y.q, b * w, Q * b + d, yl)
      BY <1>1, <2>5, <2>6, <2>7, <2>8, PartsStep DEF xl, yl
    <2>11. Q * b + d \in Nat
      BY <1>1, <2>5
    <2>12. Moved(n + 1, Q * b + d)
      BY <2>3, <2>6, <2>10 DEF xl, yl, Parts
    <2> HIDE DEF Moved
    <2> QED
      BY <2>11, <2>12
  <1>4. \A n \in Nat : n < top /\ n \in S => n + 1 \in S
    <2> HIDE DEF Alike, Moved
    <2> QED
      BY <1>3
  <1>5. top \in Nat
    OBVIOUS
  <1>6. \A n \in 0..top : n \in S
    <2> HIDE DEF S, top
    <2> QED
      BY <1>2, <1>4, <1>5, BoundedInduction
  <1> QED
    BY <1>6

\* Stepping n times moves an integer out of the remainder.
LEMMA WalkDivides ==
    ASSUME Narrow, NEW b \in Bases, NEW s \in Legal, s.q > 0,
           NEW n \in 0..(MaxSkip + MaxLook + 1)
    PROVE  \E Q \in Nat : s.r * b^n = Q * s.q + Stepped(b, s, n).r
  <1>1. \A j \in 0..(n - 1) : ~Differ(b, s, s, j)
    BY DEF Differ
  <1>2. \E Q \in Nat : /\ s.r * b^n = Q * s.q + Stepped(b, s, n).r
                       /\ s.r * b^n = Q * s.q + Stepped(b, s, n).r
    BY <1>1, SameDigits
  <1> QED
    BY <1>2

\* Two fractions with the same integer part differ by less than 1.
LEMMA SamePart ==
    ASSUME NEW a \in Nat, NEW b \in Nat, NEW p \in Nat, NEW q \in Nat,
           NEW W \in Nat, NEW Q \in Nat, NEW c \in Nat, NEW d \in Nat,
           Parts(a, p, W, Q, c), Parts(b, q, W, Q, d), c < p, d < q
    PROVE  /\ (a * q - b * p) * W = c * q - d * p
           /\ c * q - d * p < p * q /\ d * p - c * q < p * q
  <1>1. (a * q - b * p) * W = (a * W) * q - (b * W) * p
    OBVIOUS
  <1>0. a * W = Q * p + c /\ b * W = Q * q + d
    BY DEF Parts
  <1>2. (Q * p + c) * q - (Q * q + d) * p = c * q - d * p
    OBVIOUS
  <1>3. c * q < p * q
    <2>1. c * q <= (p - 1) * q /\ (p - 1) * q = p * q - q
      OBVIOUS
    <2> QED
      BY <2>1
  <1>4. d * p < p * q
    <2>1. d * p <= (q - 1) * p /\ (q - 1) * p = p * q - p
      OBVIOUS
    <2> QED
      BY <2>1
  <1>5. c * q >= 0 /\ d * p >= 0
    OBVIOUS
  <1>6. /\ a * q \in Int /\ b * p \in Int /\ c * q \in Int /\ d * p \in Int
        /\ p * q \in Int
    OBVIOUS
  <1> QED
    BY <1>0, <1>1, <1>2, <1>3, <1>4, <1>5, <1>6

\* The smaller integer part is that of the smaller fraction.
LEMMA SmallerPart ==
    ASSUME NEW a \in Nat, NEW b \in Nat, NEW p \in Nat, NEW q \in Nat,
           NEW W \in Nat \ {0}, NEW P1 \in Nat, NEW P2 \in Nat, NEW c \in Nat,
           NEW d \in Nat, P1 < P2, c < p, q > 0,
           Parts(a, p, W, P1, c), Parts(b, q, W, P2, d)
    PROVE  a * q - b * p < 0
  <1> DEFINE gap == a * q - b * p
  <1>1. gap \in Int /\ gap * W = (a * W) * q - (b * W) * p
    OBVIOUS
  <1>0. a * W = P1 * p + c /\ b * W = P2 * q + d
    BY DEF Parts
  <1>2. (P1 * p + c) * q = P1 * (p * q) + c * q
    OBVIOUS
  <1>3. (P2 * q + d) * p = P2 * (p * q) + d * p
    OBVIOUS
  <1>4. c * q < p * q
    <2>1. c * q <= (p - 1) * q /\ (p - 1) * q = p * q - q
      OBVIOUS
    <2> QED
      BY <2>1
  <1>5. P1 * (p * q) + p * q <= P2 * (p * q)
    <2> DEFINE m == p * q
    <2>1. m \in Nat
      OBVIOUS
    <2> HIDE DEF m
    <2>2. (P1 + 1) * m <= P2 * m /\ (P1 + 1) * m = P1 * m + m
      BY <2>1
    <2> QED
      BY <2>2 DEF m
  <1>6. d * p >= 0 /\ d * p \in Int /\ c * q \in Int
    OBVIOUS
  <1>7. P1 * (p * q) \in Int /\ P2 * (p * q) \in Int /\ p * q \in Int
    OBVIOUS
  <1>8. gap * W < 0
    BY <1>0, <1>1, <1>2, <1>3, <1>4, <1>5, <1>6, <1>7
  <1> HIDE DEF gap
  <1>9. gap < 0
    <2> SUFFICES ASSUME gap >= 0 PROVE FALSE
      BY <1>1
    <2>1. gap * W >= 0
      BY <1>1
    <2> QED
      BY <1>8, <2>1, <1>1
  <1> QED
    BY <1>9 DEF gap

\* The first digit that differs tells which of two machines holds more; if none
\* does, they hold the same to within the last place.
LEMMA ComparedTrue ==
    ASSUME Narrow, NEW b \in Bases, NEW x \in Legal, NEW y \in Legal,
           x.q > 0, y.q > 0, NEW n \in 1..MaxLook
    PROVE  LET said == Compared(b, x, y, n)
               gap == x.r * y.q - y.r * x.q
           IN /\ said \in {"less", "greater", "indistinguishable"}
              /\ said = "less" => gap < 0
              /\ said = "greater" => gap > 0
              /\ said = "indistinguishable" =>
                    gap * b^n < x.q * y.q /\ -gap * b^n < x.q * y.q
  <1> USE RationalAssumption
  <1> DEFINE gap == x.r * y.q - y.r * x.q
             Di == Differences(b, x, y, n)
             k == Least(Di)
  <1>0. /\ x.r \in Nat /\ x.q \in Nat /\ y.r \in Nat /\ y.q \in Nat
        /\ b \in Nat /\ b > 0
    BY DEF Legal, States
  <1>1. CASE Di = {}
    <2>1. Compared(b, x, y, n) = "indistinguishable"
      BY <1>1 DEF Compared
    <2>2. \A j \in 0..(n - 1) : ~Differ(b, x, y, j)
      BY <1>1 DEF Differences
    <2>3. n \in Nat /\ n \in 0..(MaxSkip + MaxLook + 1)
      OBVIOUS
    <2> DEFINE w == b^n
    <2>4. w \in Nat
      BY <2>3, Powers
    <2>5. PICK Q \in Nat : /\ x.r * w = Q * x.q + Stepped(b, x, n).r
                           /\ y.r * w = Q * y.q + Stepped(b, y, n).r
      BY <2>2, <2>3, SameDigits
    <2> DEFINE c == Stepped(b, x, n).r
               d == Stepped(b, y, n).r
    <2>6. c \in Nat /\ d \in Nat /\ c < x.q /\ d < y.q
      BY <2>3, WalkAt DEF Legal, States
    <2> HIDE DEF w, c, d
    <2>7. /\ gap * w = c * y.q - d * x.q
          /\ c * y.q - d * x.q < x.q * y.q /\ d * x.q - c * y.q < x.q * y.q
      <3>1. Parts(x.r, x.q, w, Q, c) /\ Parts(y.r, y.q, w, Q, d)
        BY <2>5 DEF Parts, c, d
      <3> QED
        BY <1>0, <2>4, <2>6, <3>1, SamePart
    <2>8. gap * w < x.q * y.q /\ -gap * w < x.q * y.q
      <3>1. c * y.q \in Int /\ d * x.q \in Int /\ x.q * y.q \in Int /\ gap \in Int
        BY <1>0, <2>6
      <3> DEFINE cq == c * y.q
                 dp == d * x.q
                 pq == x.q * y.q
      <3> HIDE DEF gap, cq, dp, pq
      <3>2. -gap * w = -(gap * w) /\ gap * w \in Int
        BY <2>4, <3>1
      <3>3. /\ gap * w = cq - dp /\ cq - dp < pq /\ dp - cq < pq
            /\ cq \in Int /\ dp \in Int /\ pq \in Int
        BY <2>7, <3>1 DEF cq, dp, pq
      <3>4. -(gap * w) = dp - cq
        BY <3>2, <3>3
      <3> QED
        BY <3>2, <3>3, <3>4 DEF pq
    <2> QED
      BY <2>1, <2>8 DEF w
  <1>2. CASE Di # {}
    <2>1. k \in Di /\ \A j \in Di : k <= j
      <3>1. Di \in SUBSET Nat
        BY DEF Differences
      <3> HIDE DEF Di
      <3> QED
        BY <1>2, <3>1, LeastIs
    <2>2. k \in 0..(n - 1) /\ Differ(b, x, y, k)
      BY <2>1 DEF Differences
    <2>3. \A j \in 0..(k - 1) : ~Differ(b, x, y, j)
      <3> SUFFICES ASSUME NEW j \in 0..(k - 1), Differ(b, x, y, j) PROVE FALSE
        OBVIOUS
      <3> HIDE DEF k
      <3>1. j \in 0..(n - 1)
        BY <2>2
      <3>2. j \in Di
        BY <3>1 DEF Differences
      <3> QED
        BY <2>1, <2>2, <3>2
    <2>4. Compared(b, x, y, n) =
            IF Digit(b, Stepped(b, x, k)) < Digit(b, Stepped(b, y, k))
            THEN "less" ELSE "greater"
      BY <1>2 DEF Compared
    <2> HIDE DEF k
    <2>5. k \in Nat /\ k \in 0..(MaxSkip + MaxLook + 1) /\ k \in 0..(MaxSkip + MaxLook)
          /\ k + 1 \in 0..(MaxSkip + MaxLook + 1)
      BY <2>2
    <2> DEFINE xs == Stepped(b, x, k)
               ys == Stepped(b, y, k)
               dx == Digit(b, xs)
               dy == Digit(b, ys)
               xl == After(b, xs).r
               yl == After(b, ys).r
               v == b^k
               w == b^(k + 1)
    <2>6. PICK Q \in Nat : x.r * v = Q * x.q + xs.r /\ y.r * v = Q * y.q + ys.r
      BY <2>3, <2>5, SameDigits
    <2>7. /\ xs \in Legal /\ ys \in Legal /\ xs.q = x.q /\ ys.q = y.q
      <3> HIDE DEF Di, xs, ys, dx, dy, xl, yl, v, w
      <3>1. k \in Nat
        BY <2>5
      <3>2. ASSUME NEW s \in Legal
            PROVE  Stepped(b, s, k) \in Legal /\ Stepped(b, s, k).q = s.q
        BY <3>1, WalkStays
      <3> QED
        BY <3>2 DEF xs, ys
    <2>8. /\ dx \in Nat /\ dy \in Nat
          /\ After(b, xs) \in Legal /\ After(b, ys) \in Legal
          /\ After(b, xs).q = x.q /\ After(b, ys).q = y.q
          /\ xs.r * b = dx * x.q + xl /\ ys.r * b = dy * y.q + yl
      BY <2>7, StepDivides, <1>0
    <2>9. /\ xs.r \in Nat /\ ys.r \in Nat /\ xl \in Nat /\ yl \in Nat
          /\ xl < x.q /\ yl < y.q
      BY <2>7, <2>8 DEF Legal, States
    <2>10. v \in Nat /\ w \in Nat \ {0} /\ w = b * v
      BY <2>5, Powers, PowAssumption
    <2>11. dx # dy
      BY <2>2 DEF Differ
    <2> HIDE DEF dx, dy, xl, yl, v, w
    <2> DEFINE Px == Q * b + dx
               Py == Q * b + dy
    <2>13. Parts(x.r, x.q, w, Px, xl) /\ Parts(y.r, y.q, w, Py, yl)
      <3>1. /\ Parts(x.r, x.q, v, Q, xs.r) /\ Parts(xs.r, x.q, b, dx, xl)
            /\ Parts(y.r, y.q, v, Q, ys.r) /\ Parts(ys.r, y.q, b, dy, yl)
        BY <2>6, <2>8 DEF Parts
      <3> HIDE DEF xs, ys
      <3>2. Parts(x.r, x.q, b * v, Px, xl) /\ Parts(y.r, y.q, b * v, Py, yl)
        BY <1>0, <2>8, <2>9, <2>10, <3>1, PartsStep
      <3> QED
        BY <2>10, <3>2
    <2>14. Px \in Nat /\ Py \in Nat /\ (dx < dy => Px < Py) /\ (dy < dx => Py < Px)
      <3>1. Q * b \in Nat
        BY <1>0
      <3> QED
        BY <2>8, <3>1
    <2> HIDE DEF Px, Py
    <2>15. CASE dx < dy
      <3>1. x.r * y.q - y.r * x.q < 0
        BY <1>0, <2>9, <2>10, <2>13, <2>14, <2>15, SmallerPart
      <3> QED
        BY <2>4, <2>15, <3>1 DEF dx, dy
    <2>16. CASE dy < dx
      <3>1. y.r * x.q - x.r * y.q < 0
        BY <1>0, <2>9, <2>10, <2>13, <2>14, <2>16, SmallerPart
      <3>2. y.r * x.q \in Int /\ x.r * y.q \in Int
        BY <1>0
      <3>3. gap > 0
        BY <3>1, <3>2
      <3> QED
        BY <2>4, <2>8, <2>16, <3>3 DEF dx, dy
    <2> QED
      BY <2>8, <2>11, <2>15, <2>16
  <1> QED
    BY <1>1, <1>2

\* The digits gone by and the remainder make up the number a machine was built
\* with; without a denominator there is nothing to make up.
Exact(n) ==
    /\ Parts(first[n], machine[n].q, scale[n], prefix[n], machine[n].r)
    /\ machine[n].q = 0 => first[n] = 0 /\ prefix[n] = 0

\* The inductive invariant: machines whose remainders are below their
\* denominators, digits and remainders that make up the numbers, a true verdict.
RationalInv ==
    /\ machine \in [Numbers -> Legal]
    /\ first \in [Numbers -> Nat] /\ prefix \in [Numbers -> Nat]
    /\ scale \in [Numbers -> Nat \ {0}]
    /\ base \in Bases
    /\ \A n \in Numbers : Exact(n)
    /\ VerdictTrue

\* A verdict nobody asked for says nothing.
LEMMA NoVerdict ==
    ASSUME verdict.said = "none"
    PROVE  VerdictTrue
  BY DEF VerdictTrue

\* The same of the state that follows.
LEMMA NoVerdictNext ==
    ASSUME verdict' = None
    PROVE  VerdictTrue'
  BY DEF VerdictTrue, None

\* make_state: nothing read yet, and the whole number held.
LEMMA RationalStarts == Init => RationalInv
  <1> SUFFICES ASSUME Init PROVE RationalInv
    OBVIOUS
  <1> USE RationalAssumption
  <1>1. PICK f \in [Numbers -> Fractions] :
            /\ machine = [n \in Numbers |-> MakeState(f[n])]
            /\ base \in Bases
            /\ verdict = None
            /\ first = [n \in Numbers |-> MakeState(f[n]).r]
            /\ prefix = [n \in Numbers |-> 0]
            /\ scale = [n \in Numbers |-> 1]
    BY DEF Init
  <1>2. ASSUME NEW n \in Numbers
        PROVE  MakeState(f[n]) \in Legal /\ MakeState(f[n]).r \in Nat
    <2>1. f[n] \in Fractions /\ f[n].p \in Nat /\ f[n].q \in Nat
      BY <1>1
    <2>2. CASE f[n].q = 0
      BY <2>1, <2>2 DEF MakeState, Legal, States
    <2>3. CASE f[n].q > 0
      <3>1. f[n].p % f[n].q \in Nat /\ f[n].p % f[n].q < f[n].q
        BY <2>1, <2>3, LongDivision
      <3> QED
        BY <2>1, <2>3, <3>1 DEF MakeState, Legal, States
    <2> QED
      BY <2>1, <2>2, <2>3
  <1>3. ASSUME NEW n \in Numbers PROVE Exact(n)
    <2>1. /\ machine[n] = MakeState(f[n]) /\ first[n] = machine[n].r
          /\ prefix[n] = 0 /\ scale[n] = 1
      BY <1>1
    <2>2. machine[n].r \in Nat /\ machine[n].q \in Nat /\ machine[n] \in Legal
      BY <1>2, <2>1 DEF Legal, States
    <2>3. first[n] * 1 = 0 * machine[n].q + machine[n].r
      BY <2>1, <2>2
    <2> QED
      BY <2>1, <2>2, <2>3 DEF Exact, Legal, Parts
  <1>4. VerdictTrue
    BY <1>1, NoVerdict DEF None
  <1> QED
    BY <1>1, <1>2, <1>3, <1>4 DEF RationalInv

\* What moves one machine and is exact about it keeps the invariant.
LEMMA OneMoves ==
    ASSUME RationalInv, NEW n \in Numbers, NEW s \in Legal, NEW p \in Nat,
           NEW c \in Nat \ {0},
           s.q = machine[n].q, Parts(first[n], s.q, c, p, s.r), s.q = 0 => p = 0,
           machine' = [machine EXCEPT ![n] = s],
           prefix' = [prefix EXCEPT ![n] = p], scale' = [scale EXCEPT ![n] = c],
           verdict' = None, UNCHANGED <<base, first>>
    PROVE  RationalInv'
  <1>1. /\ machine' \in [Numbers -> Legal] /\ prefix' \in [Numbers -> Nat]
        /\ scale' \in [Numbers -> Nat \ {0}] /\ first' \in [Numbers -> Nat]
        /\ base' \in Bases
    BY DEF RationalInv
  <1>2. Exact(n)'
    <2>1. machine'[n] = s /\ prefix'[n] = p /\ scale'[n] = c /\ first'[n] = first[n]
      BY DEF RationalInv
    <2> QED
      BY <2>1 DEF Exact, RationalInv
  <1>3. ASSUME NEW m \in Numbers \ {n} PROVE Exact(m)'
    <2>1. /\ machine'[m] = machine[m] /\ prefix'[m] = prefix[m]
          /\ scale'[m] = scale[m] /\ first'[m] = first[m]
      BY DEF RationalInv
    <2> QED
      BY <2>1 DEF Exact, RationalInv
  <1>4. VerdictTrue'
    BY NoVerdictNext
  <1> QED
    BY <1>1, <1>2, <1>3, <1>4 DEF RationalInv

\* A step moves one digit from the remainder to the digits gone by.
LEMMA StepKeeps ==
    ASSUME Narrow, RationalInv, NEW n \in Numbers, Step(n)
    PROVE  RationalInv'
  <1> USE RationalAssumption
  <1> DEFINE s == machine[n]
             d == Digit(base, s)
             c == scale[n] * base
             p == prefix[n] * base + d
  <1>1. /\ s \in Legal /\ base \in Bases /\ base \in Nat \ {0}
        /\ first[n] \in Nat /\ prefix[n] \in Nat /\ scale[n] \in Nat \ {0}
        /\ s.r \in Nat /\ s.q \in Nat
    BY DEF RationalInv, Legal, States
  <1>2. c \in Nat \ {0}
    BY <1>1
  <1>3. /\ machine' = [machine EXCEPT ![n] = After(base, s)]
        /\ prefix' = [prefix EXCEPT ![n] = p]
        /\ scale' = [scale EXCEPT ![n] = c]
        /\ verdict' = None /\ UNCHANGED <<base, first>>
    BY DEF Step
  <1>4. After(base, s) \in Legal /\ After(base, s).q = s.q
    BY <1>1, AfterLegal
  <1>5. Exact(n)
    BY DEF RationalInv
  <1>6. CASE s.q = 0
    <2>1. After(base, s) = s /\ d = 0 /\ s.r = 0
      BY <1>1, <1>6 DEF After, Digit, Legal
    <2>2. p = 0 /\ first[n] = 0
      BY <1>1, <1>5, <1>6, <2>1 DEF Exact
    <2>3. Parts(first[n], s.q, c, p, s.r)
      BY <1>2, <1>6, <2>1, <2>2 DEF Parts
    <2> HIDE DEF s, p, c, d
    <2> QED
      BY <1>1, <1>2, <1>3, <1>4, <2>1, <2>2, <2>3, OneMoves DEF s
  <1>7. CASE s.q > 0
    <2>1. d \in Nat /\ s.r * base = d * s.q + After(base, s).r
      BY <1>1, <1>7, StepDivides
    <2>2. After(base, s).r \in Nat
      BY <1>4 DEF Legal, States
    <2>3. Parts(first[n], s.q, scale[n], prefix[n], s.r)
      BY <1>5 DEF Exact
    <2>4. Parts(s.r, s.q, base, d, After(base, s).r)
      BY <2>1 DEF Parts
    <2> HIDE DEF d, s
    <2>5. Parts(first[n], s.q, base * scale[n], prefix[n] * base + d, After(base, s).r)
      BY <1>1, <2>1, <2>2, <2>3, <2>4, PartsStep
    <2>6. base * scale[n] = c /\ p \in Nat
      BY <1>1, <2>1
    <2> DEFINE a == After(base, s)
    <2> HIDE DEF p, c
    <2>7. /\ a \in Legal /\ a.q = s.q /\ machine' = [machine EXCEPT ![n] = a]
          /\ Parts(first[n], a.q, c, p, a.r) /\ ~(a.q = 0)
      BY <1>1, <1>3, <1>4, <1>7, <2>5, <2>6 DEF p
    <2> HIDE DEF a
    <2> QED
      BY <1>1, <1>2, <1>3, <2>6, <2>7, OneMoves DEF s
  <1> QED
    BY <1>1, <1>6, <1>7

\* A walk from one machine and the skip that replaces it.
LEMMA SkipKeeps ==
    ASSUME Narrow, Searched, RationalInv, NEW n \in Numbers, NEW k \in 1..MaxSkip,
           Skip(n, k)
    PROVE  RationalInv'
  <1> USE RationalAssumption
  <1> DEFINE s == machine[n]
             t == Skipped(base, s, k)
             w == base^k
             c == scale[n] * w
             p == IF s.q = 0 THEN 0 ELSE (first[n] * c) \div s.q
  <1>1. /\ s \in Legal /\ base \in Bases /\ base \in Nat \ {0}
        /\ first[n] \in Nat /\ prefix[n] \in Nat /\ scale[n] \in Nat \ {0}
        /\ s.r \in Nat /\ s.q \in Nat /\ k \in Nat
        /\ k \in 0..(MaxSkip + MaxLook + 1)
    BY DEF RationalInv, Legal, States
  <1>2. w \in Nat \ {0}
    BY <1>1, Powers
  <1> HIDE DEF w
  <1>3. c \in Nat \ {0}
    BY <1>1, <1>2
  <1>4. /\ machine' = [machine EXCEPT ![n] = t]
        /\ prefix' = [prefix EXCEPT ![n] = p]
        /\ scale' = [scale EXCEPT ![n] = c]
        /\ verdict' = None /\ UNCHANGED <<base, first>>
    <2>1. scale' = [scale EXCEPT ![n] = c]
      BY DEF Skip, w
    <2>2. scale'[n] = c
      BY <2>1 DEF RationalInv
    <2> QED
      BY <2>1, <2>2 DEF Skip
  <1>5. Exact(n)
    BY DEF RationalInv
  <1>6. CASE s.q = 0
    <2>1. t = s /\ s.r = 0 /\ p = 0 /\ first[n] = 0
      BY <1>1, <1>5, <1>6, SkipParked DEF Legal, Exact
    <2>2. Parts(first[n], t.q, c, p, t.r)
      BY <1>3, <1>6, <2>1 DEF Parts
    <2> HIDE DEF s, p, c, t
    <2> QED
      BY <1>1, <1>3, <1>4, <1>6, <2>1, <2>2, OneMoves DEF s
  <1>7. CASE s.q > 0
    <2>1. t = Stepped(base, s, k)
      BY <1>1, <1>7, SkipSteps
    <2>2. t \in Legal /\ t.q = s.q
      <3>1. k \in Nat
        BY <1>1
      <3>2. ASSUME NEW b \in Bases, NEW x \in Legal
            PROVE  Stepped(b, x, k) \in Legal /\ Stepped(b, x, k).q = x.q
        BY <3>1, WalkAt
      <3>3. Stepped(base, s, k) \in Legal /\ Stepped(base, s, k).q = s.q
        BY <1>1, <3>2
      <3> HIDE DEF s, t
      <3> QED
        BY <2>1, <3>3
    <2>3. t.r \in Nat /\ t.r < s.q
      BY <1>7, <2>2 DEF Legal, States
    <2>4. PICK Q \in Nat : s.r * w = Q * s.q + t.r
      BY <1>1, <1>7, <2>1, WalkDivides DEF w
    <2>5. Parts(first[n], s.q, scale[n], prefix[n], s.r) /\ Parts(s.r, s.q, w, Q, t.r)
      BY <1>5, <2>4 DEF Exact, Parts
    <2> DEFINE g == prefix[n] * w + Q
    <2>6. g \in Nat
      BY <1>1, <1>2
    <2> HIDE DEF s, t
    <2>7. Parts(first[n], s.q, w * scale[n], prefix[n] * w + Q, t.r)
      BY <1>1, <1>2, <2>3, <2>5, PartsStep
    <2>8. w * scale[n] = c
      BY <1>1, <1>2
    <2>9. Parts(first[n], s.q, c, g, t.r)
      BY <2>7, <2>8
    <2> HIDE DEF g, c
    <2>10. p = g
      <3>1. (g * s.q + t.r) \div s.q = g
        <4> DEFINE q == s.q
                   left == t.r
        <4>1. q \in Nat \ {0} /\ g \in Int /\ left \in Nat /\ left < q
          BY <1>1, <1>7, <2>3, <2>6
        <4> HIDE DEF q, left
        <4>2. (g * q + left) \div q = g
          BY <4>1, QuotientIs
        <4> QED
          BY <4>2 DEF q, left
      <3>2. (first[n] * c) \div s.q = g
        BY <2>9, <3>1 DEF Parts
      <3> QED
        BY <1>7, <3>2
    <2> HIDE DEF p
    <2>11. Parts(first[n], t.q, c, p, t.r) /\ p \in Nat /\ ~(t.q = 0)
      BY <1>1, <1>7, <2>2, <2>6, <2>9, <2>10
    <2> QED
      BY <1>3, <1>4, <2>2, <2>11, OneMoves DEF s
  <1> QED
    BY <1>1, <1>6, <1>7

\* A change of base touches no register.
LEMMA InBaseKeeps ==
    ASSUME RationalInv, NEW b \in Bases, InBase(b)
    PROVE  RationalInv'
  <1>1. /\ UNCHANGED <<machine, first, prefix, scale>> /\ base' \in Bases
        /\ VerdictTrue'
    BY NoVerdictNext DEF InBase
  <1> QED
    BY <1>1 DEF RationalInv, Exact

\* The first digit that differs decides, and decides truly.
LEMMA CompareKeeps ==
    ASSUME Narrow, RationalInv, NEW n \in 1..MaxLook, Compare(n)
    PROVE  RationalInv'
  <1> DEFINE x == machine["x"]
             y == machine["y"]
             said == Compared(base, x, y, n)
  <1>1. /\ UNCHANGED <<machine, base, first, prefix, scale>>
        /\ verdict' = [said |-> said, look |-> n]
    BY DEF Compare
  <1>2. x \in Legal /\ y \in Legal /\ base \in Bases
    BY DEF RationalInv, Numbers
  <1>3. ASSUME x.q * y.q # 0 PROVE x.q > 0 /\ y.q > 0
    <2>1. x.q \in Nat /\ y.q \in Nat
      BY <1>2 DEF Legal, States
    <2>2. x.q = 0 => x.q * y.q = 0
      BY <2>1
    <2>3. y.q = 0 => x.q * y.q = 0
      BY <2>1
    <2> QED
      BY <1>3, <2>1, <2>2, <2>3
  <1>4. ASSUME NEW m \in Numbers PROVE Left(m)' = machine[m].r
    <2>1. Exact(m) /\ machine[m] \in Legal /\ prefix[m] \in Nat
      BY DEF RationalInv
    <2>2. machine[m].r \in Nat /\ machine[m].q \in Nat
      BY <2>1 DEF Legal, States
    <2>3. prefix[m] * machine[m].q \in Nat
      BY <2>1, <2>2
    <2>4. Left(m)' = first[m] * scale[m] - prefix[m] * machine[m].q
      BY <1>1 DEF Left
    <2> QED
      BY <2>1, <2>2, <2>3, <2>4 DEF Exact, Parts
  <1>5. VerdictTrue'
    <2> DEFINE gap == x.r * y.q - y.r * x.q
    <2>1. CASE x.q * y.q = 0
      BY <1>1, <2>1 DEF VerdictTrue
    <2>2. CASE x.q * y.q # 0
      <3>1. /\ said \in {"less", "greater", "indistinguishable"}
            /\ said = "less" => gap < 0
            /\ said = "greater" => gap > 0
            /\ said = "indistinguishable" =>
                    gap * base^n < x.q * y.q /\ -gap * base^n < x.q * y.q
        BY <1>2, <1>3, <2>2, ComparedTrue
      <3>2. /\ Left("x")' = x.r /\ Left("y")' = y.r
            /\ machine'["x"] = x /\ machine'["y"] = y /\ base' = base
            /\ verdict'.said = said /\ verdict'.look = n
        BY <1>1, <1>4 DEF Numbers
      <3> HIDE DEF x, y, said
      <3> QED
        BY <3>1, <3>2 DEF VerdictTrue
    <2> QED
      BY <2>1, <2>2
  <1> QED
    BY <1>1, <1>5 DEF RationalInv, Exact

\* Whatever a caller does with the two machines.
LEMMA RationalKept ==
    ASSUME Narrow, Searched, RationalInv, [Next]_vars
    PROVE  RationalInv'
  <1>1. CASE \E n \in Numbers : Step(n)
    BY <1>1, StepKeeps
  <1>2. CASE \E n \in Numbers, k \in 1..MaxSkip : Skip(n, k)
    BY <1>2, SkipKeeps
  <1>3. CASE \E b \in Bases : InBase(b)
    BY <1>3, InBaseKeeps
  <1>4. CASE \E n \in 1..MaxLook : Compare(n)
    BY <1>4, CompareKeeps
  <1>5. CASE UNCHANGED vars
    BY <1>5 DEF vars, RationalInv, Exact, VerdictTrue, Left
  <1> QED
    BY <1>1, <1>2, <1>3, <1>4, <1>5 DEF Next

\* The search always ends for denominators within the safety bound: a walk has
\* no more remainders than its denominator.
THEOREM SmallDenominatorsSearched ==
    ASSUME Narrow, \A f \in Fractions : f.q <= SafetyBound
    PROVE  Searched
  <1> SUFFICES ASSUME NEW f \in Fractions, NEW b \in Bases, f.q > 0,
                      NEW r \in 0..(f.q - 1)
               PROVE  Stops(b, [r |-> r, q |-> f.q]) # {}
    BY DEF Searched
  <1> DEFINE q == f.q
             s == [r |-> r, q |-> q]
             A == 0..SafetyBound
             B == 0..(q - 1)
             g == [k \in A |-> Stepped(b, s, k).r]
  <1>1. q \in Nat /\ q > 0 /\ q <= SafetyBound /\ SafetyBound \in Nat
    BY RationalAssumption
  <1>2. s \in Legal /\ s.q = q
    BY <1>1 DEF Legal, States
  <1>3. g \in [A -> B]
    <2> SUFFICES ASSUME NEW k \in A PROVE Stepped(b, s, k).r \in B
      OBVIOUS
    <2> DEFINE t == Stepped(b, s, k)
    <2>1. k \in Nat
      BY <1>1
    <2>2. t \in Legal /\ t.q = q
      <3> HIDE DEF s
      <3> QED
        BY <1>2, <2>1, WalkAt
    <2> HIDE DEF t, s
    <2>3. t.r \in Nat /\ t.r < q
      BY <1>1, <2>2 DEF Legal, States
    <2> QED
      BY <1>1, <2>3 DEF t
  <1>4. /\ IsFiniteSet(A) /\ IsFiniteSet(B)
        /\ Cardinality(A) = SafetyBound + 1 /\ Cardinality(B) = q
    <2>1. IsFiniteSet(A) /\ Cardinality(A) = SafetyBound - 0 + 1
      BY <1>1, FS_Interval
    <2> DEFINE top == q - 1
    <2>2. top \in Int /\ ~(0 > top) /\ top - 0 + 1 = q
      BY <1>1
    <2> HIDE DEF top
    <2>3. IsFiniteSet(0..top) /\ Cardinality(0..top) = top - 0 + 1
      BY <2>2, FS_Interval
    <2> QED
      BY <1>1, <2>1, <2>2, <2>3 DEF top
  <1> HIDE DEF g
  <1>5. PICK i, j \in A : i # j /\ g[i] = g[j]
    <2> HIDE DEF A, B
    <2>1. Cardinality(B) < Cardinality(A)
      BY <1>1, <1>4
    <2> QED
      BY <1>3, <1>4, <2>1, FS_PigeonHole
  <1>6. ASSUME NEW m \in A, NEW k \in A, m < k, g[m] = g[k]
        PROVE  Stops(b, s) # {}
    <2>1. m \in SeenBefore(b, s, k)
      BY <1>1, <1>6 DEF SeenBefore, g
    <2>2. k \in Stops(b, s)
      BY <2>1 DEF Stops
    <2> QED
      BY <2>2
  <1>7. i < j \/ j < i
    BY <1>1, <1>5
  <1> HIDE DEF s
  <1> QED
    BY <1>5, <1>6, <1>7 DEF s

-----------------------------------------------------------------------------
(* The p-adic machine *)

\* What is assumed of the constants of the p-adic machine.
LEMMA PAdicConstants ==
    /\ Residues \subseteq [a : Int, b : Int \ {0}]
    /\ Primes \subseteq Nat \ {0, 1}
    /\ SafetyCap \in Nat /\ MaxMetric \in Nat /\ PAdicScale \in Nat
    /\ \A p \in Primes : p^0 = 1 /\ \A n \in 0..MaxMetric : p^(n + 1) = p * p^n
  BY MachineAssumptions DEF PA!PAdicAssumption

\* x and y leave the same residue of p.
Congruent(p, x, y) == \E m \in Int : x = y + p * m

\* Congruence is kept by factors ...
LEMMA CongruentTimes ==
    ASSUME NEW p \in Int, NEW x \in Int, NEW y \in Int, NEW k \in Int,
           Congruent(p, x, y)
    PROVE  Congruent(p, k * x, k * y) /\ Congruent(p, x * k, y * k)
  <1>1. PICK m \in Int : x = y + p * m
    BY DEF Congruent
  <1>2. k * m \in Int /\ k * (y + p * m) = k * y + p * (k * m) /\ x * k = k * x
        /\ y * k = k * y
    OBVIOUS
  <1> QED
    BY <1>1, <1>2 DEF Congruent

\* ... is transitive ...
LEMMA CongruentChain ==
    ASSUME NEW p \in Int, NEW x \in Int, NEW y \in Int, NEW z \in Int,
           Congruent(p, x, y), Congruent(p, y, z)
    PROVE  Congruent(p, x, z)
  <1>1. PICK m \in Int : x = y + p * m
    BY DEF Congruent
  <1>2. PICK k \in Int : y = z + p * k
    BY DEF Congruent
  <1>3. p * m + p * k = p * (m + k) /\ m + k \in Int
    OBVIOUS
  <1>4. x = z + p * (m + k)
    BY <1>1, <1>2, <1>3
  <1> QED
    BY <1>3, <1>4 DEF Congruent

\* ... and symmetric ...
LEMMA CongruentBack ==
    ASSUME NEW p \in Int, NEW x \in Int, NEW y \in Int, Congruent(p, x, y)
    PROVE  Congruent(p, y, x)
  <1>1. PICK m \in Int : x = y + p * m
    BY DEF Congruent
  <1>2. -m \in Int /\ p * (-m) = -(p * m)
    OBVIOUS
  <1> QED
    BY <1>1, <1>2 DEF Congruent

\* ... and is kept by differences.
LEMMA CongruentMinus ==
    ASSUME NEW p \in Int, NEW x \in Int, NEW y \in Int, NEW z \in Int, NEW w \in Int,
           Congruent(p, x, y), Congruent(p, z, w)
    PROVE  Congruent(p, x - z, y - w)
  <1>1. PICK m \in Int : x = y + p * m
    BY DEF Congruent
  <1>2. PICK k \in Int : z = w + p * k
    BY DEF Congruent
  <1>3. p * m - p * k = p * (m - k) /\ m - k \in Int
    OBVIOUS
  <1>4. x - z = (y - w) + p * (m - k)
    BY <1>1, <1>2, <1>3
  <1> QED
    BY <1>3, <1>4 DEF Congruent

\* A remainder is congruent to its dividend.
LEMMA CongruentMod ==
    ASSUME NEW p \in Nat \ {0}, NEW x \in Int
    PROVE  /\ x % p \in Nat /\ x % p \in 0..(p - 1)
           /\ Congruent(p, x, x % p) /\ Congruent(p, x % p, x)
  <1> DEFINE m == x \div p
             l == x % p
  <1>1. m \in Int /\ l \in 0..(p - 1) /\ x = p * m + l
    OBVIOUS
  <1> HIDE DEF m, l
  <1>2. Congruent(p, x, l)
    BY <1>1 DEF Congruent
  <1>3. l \in Nat /\ Congruent(p, l, x)
    BY <1>1, <1>2, CongruentBack
  <1> QED
    BY <1>1, <1>2, <1>3 DEF l

\* Residues that are congruent are equal.
LEMMA ResiduesEqual ==
    ASSUME NEW p \in Nat \ {0}, NEW x \in 0..(p - 1), NEW y \in 0..(p - 1),
           Congruent(p, x, y)
    PROVE  x = y
  <1>1. PICK m \in Int : x = y + p * m
    BY DEF Congruent
  <1>2. x = (p * m + y) /\ x = p * 0 + x /\ x < p /\ y < p /\ x \in Nat /\ y \in Nat
    BY <1>1
  <1>3. (p * m + y) \div p = m /\ (p * 0 + x) \div p = 0
    <2>0. y \in Nat /\ y < p
      BY <1>2
    <2>1. (p * m + y) \div p = m
      BY <2>0, QuotientIs
    <2>2. 0 \in Int /\ x \in Nat /\ x < p
      BY <1>2
    <2>3. (p * 0 + x) \div p = 0
      BY <2>2, QuotientIs
    <2> QED
      BY <2>1, <2>3
  <1>4. m = 0
    BY <1>2, <1>3
  <1> QED
    BY <1>1, <1>4

\* One pass of the loop of mod_inverse.
NextLoop(s) == [t |-> s.newt, newt |-> s.t - (s.r \div s.newr) * s.newt,
                r |-> s.newr, newr |-> s.r % s.newr]

\* The loop of mod_inverse lowers its remainder, so that it ends.
LEMMA NextLoopLower ==
    ASSUME NEW s \in PA!Loops, s.newr # 0
    PROVE  NextLoop(s) \in PA!Loops /\ NextLoop(s).newr < s.newr
  <1>1. s.t \in Int /\ s.newt \in Int /\ s.r \in Nat /\ s.newr \in Nat /\ s.newr > 0
    BY DEF PA!Loops
  <1> DEFINE q == s.r \div s.newr
             l == s.r % s.newr
  <1>2. q \in Nat /\ l \in Nat /\ l < s.newr
    BY <1>1, LongDivision
  <1> HIDE DEF q, l
  <1>3. s.t - q * s.newt \in Int
    BY <1>1, <1>2
  <1> QED
    BY <1>1, <1>2, <1>3 DEF NextLoop, PA!Loops, q, l

\* A function that follows the loop to its end exists.
LEMMA EuclidDefined ==
    \E g \in [PA!Loops -> PA!Loops] :
        g = [s \in PA!Loops |-> IF s.newr = 0 THEN s ELSE g[NextLoop(s)]]
  <1> DEFINE S == PA!Loops
             Stop == {s \in S : s.newr = 0}
             measure == [s \in S |-> s.newr]
             value == [s \in S |-> s]
             next == [s \in S |-> IF s.newr = 0 THEN s ELSE NextLoop(s)]
             F == [s \in S |-> [t \in S |-> t]]
  <1>1. next \in [S -> S]
    BY NextLoopLower
  <1>2. \A s \in S \ Stop : measure[next[s]] < measure[s]
    BY NextLoopLower
  <1>3. /\ Stop \in SUBSET S /\ value \in [S -> S] /\ F \in [S -> [S -> S]]
        /\ measure \in [S -> Nat]
    BY DEF PA!Loops
  <1>4. PICK g \in [S -> S] : Descends(g, S, Stop, value, next, F)
    <2> HIDE DEF S, Stop, measure, value, next, F
    <2> QED
      BY <1>1, <1>2, <1>3, MeasuredRecursion
  <1>5. ASSUME NEW s \in S
        PROVE  g[s] = IF s.newr = 0 THEN s ELSE g[NextLoop(s)]
    <2>1. g[s] = IF s \in Stop THEN value[s] ELSE F[s][g[next[s]]]
      BY <1>4 DEF Descends
    <2>2. g[next[s]] \in S
      BY <1>1
    <2> QED
      BY <2>1, <2>2
  <1> QED
    BY <1>5

\* The recursive definition of the loop defines it.
LEMMA EuclidStep ==
    \A s \in PA!Loops :
        PA!Euclid[s] = IF s.newr = 0 THEN s ELSE PA!Euclid[NextLoop(s)]
  <1>1. PA!Euclid = [s \in PA!Loops |->
                       IF s.newr = 0 THEN s ELSE PA!Euclid[NextLoop(s)]]
    BY EuclidDefined DEF PA!Euclid, NextLoop
  <1> QED
    BY <1>1

\* The coefficients of a loop times b are its remainders.
Bezout(p, b, s) == Congruent(p, s.t * b, s.r) /\ Congruent(p, s.newt * b, s.newr)

\* One turn of the loop keeps both Bezout relations.
LEMMA BezoutKept ==
    ASSUME NEW p \in Nat \ {0}, NEW b \in Int, NEW s \in PA!Loops, s.newr # 0,
           Bezout(p, b, s)
    PROVE  Bezout(p, b, NextLoop(s))
  <1> DEFINE q == s.r \div s.newr
             l == s.r % s.newr
             n == s.newr
             u == s.newt
  <1>1. s.t \in Int /\ u \in Int /\ s.r \in Nat /\ n \in Nat /\ n > 0
    BY DEF PA!Loops
  <1>2. q \in Nat /\ l \in Nat /\ s.r = q * n + l
    BY <1>1, LongDivision
  <1>3. /\ NextLoop(s).t = u /\ NextLoop(s).newt = s.t - q * u
        /\ NextLoop(s).r = n /\ NextLoop(s).newr = l
    BY DEF NextLoop
  <1> HIDE DEF q, l, n, u
  <1>4. Congruent(p, s.t * b, s.r) /\ Congruent(p, u * b, n)
    BY DEF Bezout, n, u
  <1>5. Congruent(p, q * (u * b), q * n)
    <2> DEFINE x == u * b
    <2>1. x \in Int /\ n \in Int /\ q \in Int /\ p \in Int /\ Congruent(p, x, n)
      BY <1>1, <1>2, <1>4
    <2> HIDE DEF x
    <2>2. Congruent(p, q * x, q * n)
      BY <2>1, CongruentTimes
    <2> QED
      BY <2>2 DEF x
  <1>6. Congruent(p, s.t * b - q * (u * b), s.r - q * n)
    <2> DEFINE x == s.t * b
               z == q * (u * b)
               w == q * n
    <2>1. x \in Int /\ z \in Int /\ w \in Int /\ s.r \in Int
      BY <1>1, <1>2
    <2> HIDE DEF x, z, w
    <2> QED
      BY <1>4, <1>5, <2>1, CongruentMinus DEF x, z, w
  <1>7. s.t * b - q * (u * b) = (s.t - q * u) * b /\ s.r - q * n = l
    BY <1>1, <1>2
  <1> QED
    BY <1>3, <1>4, <1>6, <1>7 DEF Bezout

\* At the end of the loop the last Bezout relation holds.
LEMMA BezoutEnds ==
    ASSUME NEW p \in Nat \ {0}, NEW b \in Int, NEW s0 \in PA!Loops, Bezout(p, b, s0)
    PROVE  PA!Euclid[s0] \in PA!Loops /\ Congruent(p, PA!Euclid[s0].t * b, PA!Euclid[s0].r)
  <1> DEFINE Ends(s) == /\ PA!Euclid[s] \in PA!Loops
                        /\ Congruent(p, PA!Euclid[s].t * b, PA!Euclid[s].r)
             S == {n \in Nat : \A s \in PA!Loops : s.newr <= n /\ Bezout(p, b, s) => Ends(s)}
  <1>1. ASSUME NEW s \in PA!Loops, s.newr = 0, Bezout(p, b, s) PROVE Ends(s)
    BY <1>1, EuclidStep DEF Bezout
  <1>2. 0 \in S
    <2> SUFFICES ASSUME NEW s \in PA!Loops, s.newr <= 0, Bezout(p, b, s) PROVE Ends(s)
      OBVIOUS
    <2>1. s.newr = 0
      BY DEF PA!Loops
    <2> QED
      BY <1>1, <2>1
  <1>3. ASSUME NEW n \in Nat, n \in S PROVE n + 1 \in S
    <2> SUFFICES ASSUME NEW s \in PA!Loops, s.newr <= n + 1, Bezout(p, b, s)
                 PROVE  Ends(s)
      OBVIOUS
    <2>1. CASE s.newr = 0
      BY <1>1, <2>1
    <2>2. CASE s.newr # 0
      <3>1. NextLoop(s) \in PA!Loops /\ NextLoop(s).newr < s.newr
        BY <2>2, NextLoopLower
      <3>2. NextLoop(s).newr <= n
        <4>1. NextLoop(s).newr \in Nat /\ s.newr \in Nat
          BY <3>1 DEF PA!Loops
        <4> QED
          BY <3>1, <4>1
      <3>3. Bezout(p, b, NextLoop(s))
        BY <2>2, BezoutKept
      <3>4. Ends(NextLoop(s))
        BY <1>3, <3>1, <3>2, <3>3
      <3> QED
        BY <2>2, <3>4, EuclidStep
    <2> QED
      BY <2>1, <2>2
  <1>4. \A n \in Nat : n \in S
    <2> HIDE DEF S
    <2> QED
      BY <1>2, <1>3, SetInduction
  <1>5. s0.newr \in Nat /\ s0.newr \in S /\ s0.newr <= s0.newr
    BY <1>4 DEF PA!Loops
  <1> QED
    BY <1>5

\* mod_inverse inverts (padic.hpp:24-41).
THEOREM ModInverseInverts ==
    ASSUME NEW p \in Nat \ {0, 1}, NEW b \in Int, PA!Coprime(b, p)
    PROVE  /\ PA!ModInverse(b, p) \in Nat
           /\ Congruent(p, PA!ModInverse(b, p) * b, 1)
  <1> DEFINE s0 == [t |-> 0, newt |-> 1, r |-> p, newr |-> b % p]
             found == PA!Looped(b, p)
  <1>1. b % p \in Nat /\ Congruent(p, b, b % p)
    BY CongruentMod
  <1>2. s0 \in PA!Loops
    BY <1>1 DEF PA!Loops
  <1>3. Bezout(p, b, s0)
    <2>1. 0 * b = 0 /\ 1 * b = b /\ 0 = p + p * (-1) /\ -1 \in Int
      OBVIOUS
    <2>2. Congruent(p, 0, p)
      BY <2>1 DEF Congruent
    <2> QED
      BY <1>1, <2>1, <2>2 DEF Bezout
  <1>4. found = PA!Euclid[s0]
    BY DEF PA!Looped
  <1>5. found \in PA!Loops /\ Congruent(p, found.t * b, found.r) /\ found.r = 1
    <2> HIDE DEF s0, found
    <2>1. found \in PA!Loops /\ Congruent(p, found.t * b, found.r)
      BY <1>2, <1>3, <1>4, BezoutEnds
    <2> QED
      BY <2>1 DEF PA!Coprime, found
  <1>6. PA!ModInverse(b, p) = found.t % p
    BY <1>5 DEF PA!ModInverse
  <1> HIDE DEF found
  <1>7. found.t \in Int
    BY <1>5 DEF PA!Loops
  <1> DEFINE t == found.t
             l == t % p
  <1>8. l \in Nat /\ Congruent(p, l, t)
    BY <1>7, CongruentMod
  <1>9. t \in Int /\ Congruent(p, t * b, 1)
    BY <1>5, <1>7
  <1> HIDE DEF t, l
  <1>10. Congruent(p, l * b, t * b)
    <2>1. p \in Int /\ l \in Int /\ t \in Int /\ b \in Int /\ Congruent(p, l, t)
      BY <1>8, <1>9
    <2> QED
      BY <2>1, CongruentTimes
  <1>11. l * b \in Int /\ t * b \in Int
    BY <1>8, <1>9
  <1>12. Congruent(p, l * b, 1)
    <2>1. p \in Int /\ 1 \in Int
      OBVIOUS
    <2> DEFINE x == l * b
               y == t * b
    <2>2. x \in Int /\ y \in Int /\ Congruent(p, x, y) /\ Congruent(p, y, 1)
      BY <1>9, <1>10, <1>11
    <2> HIDE DEF x, y
    <2>3. Congruent(p, x, 1)
      BY <2>1, <2>2, CongruentChain
    <2> QED
      BY <2>3 DEF x
  <1> QED
    BY <1>6, <1>8, <1>12 DEF t, l

\* The absolute value of an integer.
Size(x) == IF x < 0 THEN -x ELSE x
\* The larger of numerator and denominator, signs left out.
Largest(f) == IF Size(f.a) < Size(f.b) THEN Size(f.b) ELSE Size(f.a)

\* The registers of a p-adic machine.
PStates == [a : Int, b : Int \ {0}]

\* The states a machine can be in while its denominator has an inverse: the
\* numerator never outgrows what it was built from.
PLegal(p) ==
    {s \in PStates :
        /\ PA!Coprime(s.b, p)
        /\ \E f \in Residues : s.b = f.b /\ s.a \in (-Largest(f))..Largest(f)}

\* A number's cycle shows before the cap of padic_period (padic.hpp:132).
PSearched ==
    \A p \in Primes : \A s \in PLegal(p) :
        \E k \in 0..SafetyCap : PA!Seen(p, s, k) # {}

\* A step emits the residue of a/b (padic.hpp:62-66).
LEMMA PDigitIs ==
    ASSUME NEW p \in Nat \ {0, 1}, NEW a \in Int, NEW b \in Int, PA!Coprime(b, p)
    PROVE  LET d == PA!Digit(p, [a |-> a, b |-> b])
           IN d \in Nat /\ d \in 0..(p - 1) /\ Congruent(p, a, d * b)
  <1> DEFINE inv == PA!ModInverse(b, p)
             l == a % p
             e == l * inv
             d == PA!Digit(p, [a |-> a, b |-> b])
  <1>1. inv \in Nat /\ Congruent(p, inv * b, 1)
    BY ModInverseInverts
  <1>2. l \in Nat /\ Congruent(p, l, a)
    BY CongruentMod
  <1>3. d = e % p
    BY DEF PA!Digit
  <1> HIDE DEF inv, l, d
  <1>4. e \in Int
    BY <1>1, <1>2
  <1>5. d \in Nat /\ d \in 0..(p - 1) /\ Congruent(p, d, e)
    <2> HIDE DEF e
    <2> QED
      BY <1>3, <1>4, CongruentMod
  <1>6. Congruent(p, d * b, a)
    <2> DEFINE x == d * b
               y == e * b
               z == inv * b
    <2>1. /\ p \in Int /\ d \in Int /\ l \in Int /\ inv \in Int /\ x \in Int /\ y \in Int
          /\ z \in Int /\ e \in Int /\ 1 \in Int /\ l * z = y /\ l * 1 = l
      BY <1>1, <1>2, <1>4, <1>5
    <2>2. Congruent(p, x, y)
      <3> HIDE DEF e
      <3> QED
        BY <1>5, <2>1, CongruentTimes
    <2> HIDE DEF x, y, z, e
    <2>3. Congruent(p, l * z, l * 1)
      BY <1>1, <2>1, CongruentTimes DEF z
    <2>4. Congruent(p, y, l)
      BY <2>1, <2>3
    <2>5. Congruent(p, x, l)
      BY <2>1, <2>2, <2>4, CongruentChain
    <2>6. Congruent(p, x, a)
      BY <1>2, <2>1, <2>5, CongruentChain
    <2> QED
      BY <2>6 DEF x
  <1>7. Congruent(p, a, d * b)
    <2> DEFINE x == d * b
    <2>1. x \in Int /\ p \in Int /\ Congruent(p, x, a)
      BY <1>5, <1>6
    <2> HIDE DEF x
    <2>2. Congruent(p, a, x)
      BY <2>1, CongruentBack
    <2> QED
      BY <2>2 DEF x
  <1> QED
    BY <1>5, <1>7 DEF d

\* C++ division is exact on a multiple.
LEMMA QuotientExact ==
    ASSUME NEW p \in Nat \ {0}, NEW m \in Int
    PROVE  PA!Quotient(p * m, p) = m
  <1>1. CASE m >= 0
    <2>1. p * m >= 0 /\ (p * m + 0) \div p = m
      BY <1>1, QuotientIs
    <2>2. p * m + 0 = p * m
      OBVIOUS
    <2> QED
      BY <2>1, <2>2 DEF PA!Quotient
  <1>2. CASE m < 0
    <2>1. -m \in Int /\ p * m < 0 /\ -(p * m) = p * (-m) + 0
      <3>1. p * m <= p * (-1)
        BY <1>2
      <3> QED
        BY <3>1
    <2>2. (p * (-m) + 0) \div p = -m
      BY <2>1, QuotientIs
    <2>3. (-(p * m)) \div p = -m
      BY <2>1, <2>2
    <2>4. ~(p * m >= 0) /\ -(-m) = m /\ p * m \in Int
      BY <2>1
    <2> QED
      BY <2>3, <2>4 DEF PA!Quotient
  <1> QED
    BY <1>1, <1>2

\* What a step takes out of the numerator is a multiple of the base.
LEMMA PStepDivides ==
    ASSUME NEW p \in Nat \ {0, 1}, NEW s \in PStates, PA!Coprime(s.b, p)
    PROVE  /\ PA!Digit(p, s) \in Nat /\ PA!Digit(p, s) \in 0..(p - 1)
           /\ PA!After(p, s) \in PStates /\ PA!After(p, s).b = s.b
           /\ s.a = PA!Digit(p, s) * s.b + p * PA!After(p, s).a
  <1> DEFINE a == s.a
             b == s.b
             d == PA!Digit(p, s)
  <1>1. a \in Int /\ b \in Int /\ b # 0 /\ s = [a |-> a, b |-> b]
    BY DEF PStates
  <1>2. d \in Nat /\ d \in 0..(p - 1) /\ Congruent(p, a, d * b)
    <2> HIDE DEF a, b
    <2>1. PA!Coprime(b, p)
      BY DEF b
    <2> QED
      BY <1>1, <2>1, PDigitIs
  <1> HIDE DEF a, b, d
  <1>3. PICK m \in Int : a = d * b + p * m
    BY <1>2 DEF Congruent
  <1>4. a - d * b = p * m
    BY <1>1, <1>2, <1>3
  <1>5. PA!Quotient(a - d * b, p) = m
    BY <1>4, QuotientExact
  <1>6. PA!After(p, s) = [a |-> m, b |-> b]
    BY <1>1, <1>5 DEF PA!After, a, b, d
  <1>7. PA!After(p, s) \in PStates /\ PA!After(p, s).b = b /\ PA!After(p, s).a = m
    BY <1>1, <1>3, <1>6 DEF PStates
  <1> QED
    BY <1>2, <1>3, <1>7 DEF a, b, d

\* The numerator stays within what it started from.
LEMMA PStepShrinks ==
    ASSUME NEW p \in Nat \ {0, 1}, NEW a \in Int, NEW b \in Int, NEW d \in 0..(p - 1),
           NEW m \in Int, a = d * b + p * m, NEW M \in Nat,
           a \in (-M)..M, b \in (-M)..M
    PROVE  m \in (-M)..M
  <1>1. d * b <= (p - 1) * M /\ -((p - 1) * M) <= d * b
    <2>1. d * b <= d * M /\ d * (-M) <= d * b /\ d * (-M) = -(d * M)
      OBVIOUS
    <2>2. d * M <= (p - 1) * M
      OBVIOUS
    <2>3. d * b \in Int /\ d * M \in Int /\ (p - 1) * M \in Int
      OBVIOUS
    <2> QED
      BY <2>1, <2>2, <2>3
  <1>2. (p - 1) * M = p * M - M /\ p * M \in Int /\ p * m \in Int /\ d * b \in Int
    OBVIOUS
  <1>3. p * m <= p * M /\ -(p * M) <= p * m
    BY <1>1, <1>2
  <1>4. m <= M
    <2> SUFFICES ASSUME M + 1 <= m PROVE FALSE
      OBVIOUS
    <2>1. p * (M + 1) <= p * m /\ p * (M + 1) = p * M + p
      OBVIOUS
    <2> QED
      BY <1>2, <1>3, <2>1
  <1>5. -M <= m
    <2> SUFFICES ASSUME m <= -M - 1 PROVE FALSE
      OBVIOUS
    <2>1. p * m <= p * (-M - 1) /\ p * (-M - 1) = -(p * M) - p
      OBVIOUS
    <2> QED
      BY <1>2, <1>3, <2>1
  <1> QED
    BY <1>4, <1>5

\* A number is within the larger of what it is built from.
LEMMA LargestIs ==
    ASSUME NEW f \in Residues
    PROVE  /\ f.a \in Int /\ f.b \in Int /\ f.b # 0
           /\ Largest(f) \in Nat
           /\ f.a \in (-Largest(f))..Largest(f) /\ f.b \in (-Largest(f))..Largest(f)
  <1>1. f.a \in Int /\ f.b \in Int /\ f.b # 0
    BY PAdicConstants
  <1> QED
    BY <1>1 DEF Largest, Size

\* The states a p-adic machine can be in are closed under its step.
LEMMA PAfterLegal ==
    ASSUME NEW p \in Primes, NEW s \in PLegal(p)
    PROVE  PA!After(p, s) \in PLegal(p) /\ PA!After(p, s).b = s.b
  <1> DEFINE t == PA!After(p, s)
             d == PA!Digit(p, s)
  <1>1. p \in Nat \ {0, 1} /\ s \in PStates /\ PA!Coprime(s.b, p)
    BY PAdicConstants DEF PLegal
  <1>2. PICK f \in Residues : s.b = f.b /\ s.a \in (-Largest(f))..Largest(f)
    BY DEF PLegal
  <1>3. t \in PStates /\ t.b = s.b /\ s.a = d * s.b + p * t.a /\ d \in 0..(p - 1)
    BY <1>1, PStepDivides
  <1>4. s.a \in Int /\ s.b \in Int /\ t.a \in Int
    BY <1>1, <1>3 DEF PStates
  <1> HIDE DEF t, d
  <1>5. t.a \in (-Largest(f))..Largest(f)
    <2> DEFINE M == Largest(f)
               a == s.a
               b == s.b
               m == t.a
    <2>1. /\ M \in Nat /\ b \in (-M)..M /\ a \in (-M)..M /\ a \in Int /\ b \in Int
          /\ m \in Int /\ a = d * b + p * m
      BY <1>2, <1>3, <1>4, LargestIs
    <2> HIDE DEF M, a, b, m
    <2>2. m \in (-M)..M
      BY <1>1, <1>3, <2>1, PStepShrinks
    <2> QED
      BY <2>2 DEF M, m
  <1> QED
    BY <1>1, <1>2, <1>3, <1>5 DEF PLegal, t

\* The walk from a state: where it stands after any number of steps.
LEMMA PWalk ==
    ASSUME NEW p \in Primes, NEW s \in PLegal(p)
    PROVE  /\ PA!Stepped(p, s, 0) = s
           /\ \A n \in Nat :
                 /\ PA!Stepped(p, s, n) \in PLegal(p)
                 /\ PA!Stepped(p, s, n + 1) = PA!After(p, PA!Stepped(p, s, n))
                 /\ PA!Stepped(p, s, n).b = s.b
  <1> DEFINE A == PLegal(p)
             Is(f) == f = [k \in Nat |-> IF k = 0 THEN s ELSE PA!After(p, f[k - 1])]
             F == [t \in A |-> PA!After(p, t)]
             at == CHOOSE f : Is(f)
  <1>1. F \in [A -> A]
    BY PAfterLegal
  <1>2. PICK g \in [Nat -> A] : g[0] = s /\ Orbit(g, F)
    <2> HIDE DEF A, F
    <2>1. s \in A
      BY DEF A
    <2> QED
      BY <1>1, <2>1, Iteration
  <1>3. \A n \in Nat : g[n + 1] = PA!After(p, g[n])
    <2> SUFFICES ASSUME NEW n \in Nat PROVE g[n + 1] = PA!After(p, g[n])
      OBVIOUS
    <2>1. g[n] \in A /\ g[n + 1] = F[g[n]]
      BY <1>2 DEF Orbit
    <2> QED
      BY <2>1
  <1>4. Is(g)
    <2>1. ASSUME NEW k \in Nat
          PROVE  g[k] = IF k = 0 THEN s ELSE PA!After(p, g[k - 1])
      <3>1. CASE k = 0
        BY <1>2, <3>1
      <3>2. CASE k # 0
        <4>1. k - 1 \in Nat /\ (k - 1) + 1 = k
          BY <3>2
        <4>2. g[(k - 1) + 1] = PA!After(p, g[k - 1])
          BY <1>3, <4>1
        <4> QED
          BY <3>2, <4>1, <4>2
      <3> QED
        BY <3>1, <3>2
    <2> QED
      BY <2>1, <1>2
  <1>5. Is(at)
    BY <1>4
  <1> HIDE DEF at
  <1>6. \A k \in Nat : at[k] = IF k = 0 THEN s ELSE PA!After(p, at[k - 1])
    BY <1>5
  <1>7. at[0] = s /\ \A n \in Nat : at[n + 1] = PA!After(p, at[n])
    <2>1. at[0] = s
      BY <1>6
    <2>2. ASSUME NEW n \in Nat PROVE at[n + 1] = PA!After(p, at[n])
      <3>1. n + 1 \in Nat /\ n + 1 # 0 /\ (n + 1) - 1 = n
        OBVIOUS
      <3> QED
        BY <1>6, <3>1
    <2> QED
      BY <2>1, <2>2
  <1>8. \A n \in Nat : PA!Stepped(p, s, n) = at[n]
    BY DEF PA!Stepped, at
  <1> DEFINE S == {n \in Nat : at[n] \in A /\ at[n].b = s.b}
  <1>9. 0 \in S
    BY <1>7
  <1>10. ASSUME NEW n \in Nat, n \in S PROVE n + 1 \in S
    BY <1>7, <1>10, PAfterLegal
  <1>11. \A n \in Nat : n \in S
    <2> HIDE DEF S
    <2> QED
      BY <1>9, <1>10, SetInduction
  <1> QED
    BY <1>7, <1>8, <1>11

\* Where the walk stands after n steps, and that it goes on from there.
LEMMA PWalkAt ==
    ASSUME NEW p \in Primes, NEW s \in PLegal(p), NEW n \in Nat
    PROVE  /\ PA!Stepped(p, s, n) \in PLegal(p) /\ PA!Stepped(p, s, n).b = s.b
           /\ PA!Stepped(p, s, n + 1) = PA!After(p, PA!Stepped(p, s, n))
  BY PWalk

\* A set of naturals that is not empty has a least element.
LEMMA PLeastIs ==
    ASSUME NEW K \in SUBSET Nat, K # {}
    PROVE  PA!Least(K) \in K /\ \A j \in K : PA!Least(K) <= j
  <1>1. \E k \in K : \A j \in K : k <= j
    BY LeastNatural
  <1> QED
    BY <1>1 DEF PA!Least

\* A state seen before closes a cycle of the length padic_period returns.
LEMMA PeriodIsCycle ==
    ASSUME PSearched, NEW p \in Primes, NEW s \in PLegal(p)
    PROVE  LET found == PA!Period(p, s)
           IN /\ found[2] > 0
              /\ PA!Stepped(p, s, found[1] + found[2]) = PA!Stepped(p, s, found[1])
  <1> DEFINE K == {k \in 0..SafetyCap : PA!Seen(p, s, k) # {}}
             k == PA!Least(K)
             i == PA!Least(PA!Seen(p, s, k))
  <1>1. K # {} /\ K \in SUBSET Nat
    BY PAdicConstants DEF PSearched
  <1>2. k \in K
    <2> HIDE DEF K
    <2> QED
      BY <1>1, PLeastIs
  <1>3. k \in Nat /\ PA!Seen(p, s, k) # {}
    <2>1. \A j \in K : j \in Nat /\ PA!Seen(p, s, j) # {}
      BY PAdicConstants
    <2> HIDE DEF K, k
    <2> QED
      BY <1>2, <2>1
  <1>4. PA!Period(p, s) = <<i, k - i>>
    BY <1>1 DEF PA!Period
  <1> HIDE DEF K, k
  <1>5. i \in PA!Seen(p, s, k)
    <2>1. PA!Seen(p, s, k) \in SUBSET Nat
      BY <1>3 DEF PA!Seen
    <2> QED
      BY <1>3, <2>1, PLeastIs
  <1>6. i \in Nat /\ i < k /\ PA!Stepped(p, s, i) = PA!Stepped(p, s, k)
    BY <1>3, <1>5 DEF PA!Seen
  <1> HIDE DEF i
  <1>7. i + (k - i) = k /\ k - i > 0
    BY <1>3, <1>6
  <1> QED
    BY <1>4, <1>6, <1>7

\* The difference of two fractions over the product of their denominators.
CrossOf(x, y) == x.a * y.b - y.a * x.b

\* Residues that agree up to a unit are equal.
LEMMA CancelUnit ==
    ASSUME NEW p \in Nat \ {0}, NEW x \in 0..(p - 1), NEW y \in 0..(p - 1),
           NEW z \in Int, NEW u \in Int,
           Congruent(p, u * z, 1), Congruent(p, x * z, y * z)
    PROVE  x = y
  <1> DEFINE uz == u * z
             xz == x * z
             yz == y * z
  <1>1. /\ p \in Int /\ x \in Int /\ y \in Int /\ uz \in Int /\ xz \in Int /\ yz \in Int
        /\ 1 \in Int /\ x * 1 = x /\ y * 1 = y
        /\ u * xz = x * uz /\ u * yz = y * uz
    OBVIOUS
  <1>2. Congruent(p, uz, 1) /\ Congruent(p, xz, yz)
    OBVIOUS
  <1> HIDE DEF uz, xz, yz
  <1>3. Congruent(p, u * xz, u * yz)
    BY <1>1, <1>2, CongruentTimes
  <1>4. Congruent(p, x * uz, x * 1) /\ Congruent(p, y * uz, y * 1)
    BY <1>1, <1>2, CongruentTimes
  <1> DEFINE xu == x * uz
             yu == y * uz
  <1>5. Congruent(p, xu, yu) /\ Congruent(p, xu, x) /\ Congruent(p, yu, y)
        /\ xu \in Int /\ yu \in Int
    BY <1>1, <1>3, <1>4
  <1> HIDE DEF xu, yu
  <1>6. Congruent(p, x, xu)
    BY <1>1, <1>5, CongruentBack
  <1>7. Congruent(p, x, yu)
    BY <1>1, <1>5, <1>6, CongruentChain
  <1>8. Congruent(p, x, y)
    BY <1>1, <1>5, <1>7, CongruentChain
  <1> QED
    BY <1>8, ResiduesEqual

\* While two machines give the same digit, a step divides their difference by the
\* base; where they do not, the base does not divide it.
LEMMA CrossSteps ==
    ASSUME NEW p \in Nat \ {0, 1}, NEW x \in PStates, NEW y \in PStates,
           PA!Coprime(x.b, p), PA!Coprime(y.b, p)
    PROVE  /\ CrossOf(x, y) \in Int
           /\ PA!Digit(p, x) = PA!Digit(p, y) =>
                CrossOf(x, y) = p * CrossOf(PA!After(p, x), PA!After(p, y))
           /\ PA!Digit(p, x) # PA!Digit(p, y) => CrossOf(x, y) % p # 0
  <1> DEFINE xa == x.a
             xb == x.b
             ya == y.a
             yb == y.b
             dx == PA!Digit(p, x)
             dy == PA!Digit(p, y)
             xm == PA!After(p, x).a
             ym == PA!After(p, y).a
  <1>1. xa \in Int /\ xb \in Int /\ ya \in Int /\ yb \in Int
    BY DEF PStates
  <1>2. /\ dx \in Nat /\ dx \in 0..(p - 1) /\ xm \in Int /\ xa = dx * xb + p * xm
        /\ PA!After(p, x).b = xb
    BY PStepDivides DEF PStates
  <1>3. /\ dy \in Nat /\ dy \in 0..(p - 1) /\ ym \in Int /\ ya = dy * yb + p * ym
        /\ PA!After(p, y).b = yb
    BY PStepDivides DEF PStates
  <1>4. /\ CrossOf(x, y) = xa * yb - ya * xb
        /\ CrossOf(PA!After(p, x), PA!After(p, y)) = xm * yb - ym * xb
    BY <1>2, <1>3 DEF CrossOf
  <1>5. PICK iv \in Int : Congruent(p, iv * xb, 1)
    BY <1>1, ModInverseInverts
  <1>6. PICK jv \in Int : Congruent(p, jv * yb, 1)
    BY <1>1, ModInverseInverts
  <1> HIDE DEF xa, xb, ya, yb, dx, dy, xm, ym
  <1>7. ASSUME dx = dy PROVE xa * yb - ya * xb = p * (xm * yb - ym * xb)
    <2>1. xa * yb = (dx * xb) * yb + p * (xm * yb)
      BY <1>1, <1>2
    <2>2. ya * xb = (dx * yb) * xb + p * (ym * xb)
      BY <1>1, <1>3, <1>7
    <2>3. (dx * xb) * yb = (dx * yb) * xb
      BY <1>1, <1>2
    <2>4. p * (xm * yb - ym * xb) = p * (xm * yb) - p * (ym * xb)
      BY <1>1, <1>2, <1>3
    <2> QED
      BY <1>1, <1>2, <1>3, <2>1, <2>2, <2>3, <2>4
  <1>8. ASSUME (xa * yb - ya * xb) % p = 0 PROVE dx = dy
    <2> DEFINE c == xa * yb - ya * xb
               z == xb * yb
               u == iv * jv
    <2>1. c \in Int
      BY <1>1
    <2>2. PICK m \in Int : c = p * m
      <3>1. c % p = 0
        BY <1>8
      <3> HIDE DEF c
      <3>2. c \div p \in Int /\ c = p * (c \div p) + (c % p)
        BY <2>1
      <3>3. c = p * (c \div p)
        BY <2>1, <3>1, <3>2
      <3> QED
        BY <3>2, <3>3
    <2>3. xa * yb = dx * z + p * (xm * yb) /\ ya * xb = dy * z + p * (ym * xb)
      BY <1>1, <1>2, <1>3
    <2>4. dx * z = dy * z + p * (m + ym * xb - xm * yb)
      <3>1. /\ xm * yb \in Int /\ ym * xb \in Int /\ dx * z \in Int /\ dy * z \in Int
            /\ xa * yb \in Int /\ ya * xb \in Int
        BY <1>1, <1>2, <1>3
      <3> DEFINE e == ym * xb
                 g == xm * yb
      <3>2. p * (m + e - g) = p * m + p * e - p * g /\ p * m \in Int /\ p * e \in Int
            /\ p * g \in Int
        BY <3>1
      <3> QED
        BY <2>2, <2>3, <3>1, <3>2
    <2>5. Congruent(p, dx * z, dy * z)
      <3>1. m + ym * xb - xm * yb \in Int
        BY <1>1, <1>2, <1>3
      <3> QED
        BY <2>4, <3>1 DEF Congruent
    <2>6. Congruent(p, u * z, 1)
      <3> DEFINE v == iv * xb
                 w == jv * yb
      <3>1. v \in Int /\ w \in Int /\ p \in Int /\ 1 \in Int /\ v * 1 = v
        BY <1>1
      <3>2. Congruent(p, v, 1) /\ Congruent(p, w, 1)
        BY <1>5, <1>6
      <3>3. v * w = u * z
        BY <1>1
      <3> HIDE DEF v, w, u, z
      <3>4. Congruent(p, v * w, v * 1)
        BY <3>1, <3>2, CongruentTimes
      <3> DEFINE vw == v * w
      <3>5. vw \in Int /\ Congruent(p, vw, v)
        BY <3>1, <3>4
      <3> HIDE DEF vw
      <3>6. Congruent(p, vw, 1)
        BY <3>1, <3>2, <3>5, CongruentChain
      <3> QED
        BY <3>3, <3>6 DEF vw
    <2>7. z \in Int /\ u \in Int
      BY <1>1
    <2> HIDE DEF z, u
    <2> QED
      BY <1>2, <1>3, <2>5, <2>6, <2>7, CancelUnit
  <1>9. xa * yb - ya * xb \in Int
    BY <1>1
  <1> QED
    BY <1>4, <1>7, <1>8, <1>9 DEF dx, dy

\* Powers of a prime, as far as the metric looks.
LEMMA PPowers ==
    ASSUME NEW p \in Primes
    PROVE  \A n \in 0..(MaxMetric + 1) : p^n \in Nat \ {0}
  <1> DEFINE S == {n \in Nat : p^n \in Nat \ {0}}
             top == MaxMetric + 1
  <1>1. 0 \in S
    BY PAdicConstants
  <1>2. ASSUME NEW n \in Nat, n < top, n \in S PROVE n + 1 \in S
    <2>1. n \in 0..MaxMetric /\ p \in Nat \ {0}
      BY <1>2, PAdicConstants
    <2>2. p^(n + 1) = p * p^n
      BY <2>1, PAdicConstants
    <2> DEFINE w == p^n
    <2>3. w \in Nat \ {0}
      BY <1>2
    <2> HIDE DEF w
    <2>4. p * w \in Nat \ {0}
      BY <2>1, <2>3
    <2> QED
      BY <2>2, <2>4 DEF w
  <1>3. \A n \in 0..top : n \in S
    <2>1. top \in Nat
      BY PAdicConstants
    <2> HIDE DEF S, top
    <2> QED
      BY <1>1, <1>2, <2>1, BoundedInduction
  <1> QED
    BY <1>3

\* Digits in common are powers of the base in the difference.
LEMMA CrossWalks ==
    ASSUME NEW p \in Primes, NEW x \in PLegal(p), NEW y \in PLegal(p)
    PROVE  \A n \in 0..(MaxMetric + 1) :
              (\A j \in 0..(n - 1) :
                  PA!Digit(p, PA!Stepped(p, x, j)) = PA!Digit(p, PA!Stepped(p, y, j))) =>
              CrossOf(x, y) = p^n * CrossOf(PA!Stepped(p, x, n), PA!Stepped(p, y, n))
  <1> DEFINE top == MaxMetric + 1
             Same(j) == PA!Digit(p, PA!Stepped(p, x, j)) = PA!Digit(p, PA!Stepped(p, y, j))
             Alike(n) == \A j \in 0..(n - 1) : Same(j)
             C(n) == CrossOf(PA!Stepped(p, x, n), PA!Stepped(p, y, n))
             S == {n \in Nat : Alike(n) => CrossOf(x, y) = p^n * C(n)}
  <1>1. p \in Nat \ {0, 1} /\ MaxMetric \in Nat
    BY PAdicConstants
  <1>2. ASSUME NEW n \in Nat
        PROVE  C(n) \in Int /\ (Same(n) => C(n) = p * C(n + 1))
    <2> DEFINE xs == PA!Stepped(p, x, n)
               ys == PA!Stepped(p, y, n)
    <2>1. ASSUME NEW s \in PLegal(p)
          PROVE  /\ PA!Stepped(p, s, n) \in PLegal(p)
                 /\ PA!Stepped(p, s, n + 1) = PA!After(p, PA!Stepped(p, s, n))
      BY PWalkAt
    <2>2. xs \in PLegal(p) /\ ys \in PLegal(p)
      BY <2>1
    <2>3. xs \in PStates /\ ys \in PStates /\ PA!Coprime(xs.b, p) /\ PA!Coprime(ys.b, p)
      BY <2>2 DEF PLegal
    <2>4. /\ PA!Stepped(p, x, n + 1) = PA!After(p, xs)
          /\ PA!Stepped(p, y, n + 1) = PA!After(p, ys)
      BY <2>1
    <2> HIDE DEF xs, ys
    <2>5. /\ CrossOf(xs, ys) \in Int
          /\ PA!Digit(p, xs) = PA!Digit(p, ys) =>
               CrossOf(xs, ys) = p * CrossOf(PA!After(p, xs), PA!After(p, ys))
      BY <1>1, <2>3, CrossSteps
    <2> QED
      BY <2>4, <2>5 DEF xs, ys
  <1>3. 0 \in S
    <2>1. C(0) = CrossOf(x, y) /\ p^0 = 1
      BY PWalk, PAdicConstants
    <2>2. C(0) \in Int
      BY <1>2
    <2> HIDE DEF C
    <2>3. CrossOf(x, y) = 1 * C(0)
      BY <2>1, <2>2
    <2> QED
      BY <2>1, <2>3
  <1>4. ASSUME NEW n \in Nat, n < top, n \in S PROVE n + 1 \in S
    <2> SUFFICES ASSUME Alike(n + 1) PROVE CrossOf(x, y) = p^(n + 1) * C(n + 1)
      OBVIOUS
    <2>1. Alike(n) /\ Same(n)
      OBVIOUS
    <2>2. n \in 0..MaxMetric /\ n \in 0..(MaxMetric + 1)
      BY <1>1, <1>4
    <2> DEFINE w == p^n
    <2>3. p^(n + 1) = p * w /\ w \in Nat
      BY <2>2, PAdicConstants, PPowers
    <2>4. CrossOf(x, y) = w * C(n)
      BY <1>4, <2>1
    <2>5. C(n) = p * C(n + 1) /\ C(n + 1) \in Int
      BY <1>2, <2>1
    <2> HIDE DEF w, C
    <2>6. w * (p * C(n + 1)) = (p * w) * C(n + 1)
      BY <1>1, <2>3, <2>5
    <2> QED
      BY <2>3, <2>4, <2>5, <2>6
  <1>5. top \in Nat
    BY <1>1
  <1>6. \A n \in 0..top : n \in S
    <2> HIDE DEF S, top
    <2> QED
      BY <1>3, <1>4, <1>5, BoundedInduction
  <1> HIDE DEF Alike
  <1>7. \A n \in 0..top : Alike(n) => CrossOf(x, y) = p^n * C(n)
    BY <1>6
  <1> QED
    BY <1>7 DEF Alike

\* What a valuation is taken of: an integer other than 0 and a base.
Nonzero == (Int \ {0}) \X (Nat \ {0, 1})

\* Dividing out the base lowers the size, so that p_valuation ends.
LEMMA DivisionLowers ==
    ASSUME NEW x \in Int \ {0}, NEW p \in Nat \ {0, 1}, x % p = 0
    PROVE  x \div p \in Int \ {0} /\ Size(x \div p) < Size(x)
  <1> DEFINE m == x \div p
  <1>1. m \in Int /\ x = p * m + (x % p)
    OBVIOUS
  <1> HIDE DEF m
  <1>2. x = p * m
    BY <1>1
  <1>3. m # 0
    <2>1. p * 0 = 0
      OBVIOUS
    <2> QED
      BY <1>2, <2>1
  <1>4. CASE m > 0
    <2>1. 2 * m <= p * m
      BY <1>1, <1>4
    <2> QED
      BY <1>1, <1>2, <1>3, <1>4, <2>1 DEF Size, m
  <1>5. CASE m < 0
    <2>1. p * m <= 2 * m
      BY <1>1, <1>5
    <2> QED
      BY <1>1, <1>2, <1>3, <1>5, <2>1 DEF Size, m
  <1> QED
    BY <1>1, <1>3, <1>4, <1>5

\* The recursive definition of the valuation defines it.
LEMMA ValuationStep ==
    \A s \in Nonzero :
        PA!Valuation[s] =
            IF s[1] % s[2] # 0 THEN 0 ELSE 1 + PA!Valuation[<<s[1] \div s[2], s[2]>>]
  <1> DEFINE S == Nonzero
             Stop == {s \in S : s[1] % s[2] # 0}
             measure == [s \in S |-> Size(s[1])]
             value == [s \in S |-> 0]
             next == [s \in S |-> IF s[1] % s[2] # 0 THEN s ELSE <<s[1] \div s[2], s[2]>>]
             F == [s \in S |-> [n \in Nat |-> 1 + n]]
             Is(v) == v = [s \in S |-> IF s[1] % s[2] # 0 THEN 0
                                       ELSE 1 + v[<<s[1] \div s[2], s[2]>>]]
  <1>1. ASSUME NEW s \in S, s[1] % s[2] = 0
        PROVE  <<s[1] \div s[2], s[2]>> \in S /\ Size(s[1] \div s[2]) < Size(s[1])
    <2>1. s[1] \in Int \ {0} /\ s[2] \in Nat \ {0, 1}
      BY DEF Nonzero
    <2>2. s[1] \div s[2] \in Int \ {0} /\ Size(s[1] \div s[2]) < Size(s[1])
      BY <1>1, <2>1, DivisionLowers
    <2> QED
      BY <2>1, <2>2 DEF Nonzero
  <1>2. next \in [S -> S]
    BY <1>1
  <1>3. \A s \in S \ Stop : measure[next[s]] < measure[s]
    <2> SUFFICES ASSUME NEW s \in S \ Stop PROVE measure[next[s]] < measure[s]
      OBVIOUS
    <2>1. s \in S /\ s[1] % s[2] = 0
      OBVIOUS
    <2>2. next[s] = <<s[1] \div s[2], s[2]>> /\ next[s] \in S
      BY <1>1, <2>1
    <2>3. measure[next[s]] = Size(s[1] \div s[2]) /\ measure[s] = Size(s[1])
      BY <2>1, <2>2
    <2> QED
      BY <1>1, <2>1, <2>3
  <1>4. measure \in [S -> Nat]
    BY DEF Nonzero, Size
  <1>5. Stop \in SUBSET S /\ value \in [S -> Nat] /\ F \in [S -> [Nat -> Nat]]
    OBVIOUS
  <1>6. PICK g \in [S -> Nat] : Descends(g, S, Stop, value, next, F)
    <2> HIDE DEF S, Stop, measure, value, next, F
    <2> QED
      BY <1>2, <1>3, <1>4, <1>5, MeasuredRecursion
  <1>7. Is(g)
    <2>1. ASSUME NEW s \in S
          PROVE  g[s] = IF s[1] % s[2] # 0 THEN 0
                        ELSE 1 + g[<<s[1] \div s[2], s[2]>>]
      <3>1. g[s] = IF s \in Stop THEN value[s] ELSE F[s][g[next[s]]]
        BY <1>6 DEF Descends
      <3>2. CASE s[1] % s[2] # 0
        BY <3>1, <3>2
      <3>3. CASE s[1] % s[2] = 0
        <4>1. next[s] = <<s[1] \div s[2], s[2]>> /\ next[s] \in S /\ s \notin Stop
          BY <1>1, <3>3
        <4>2. g[next[s]] \in Nat
          BY <4>1
        <4>3. F[s][g[next[s]]] = 1 + g[next[s]]
          BY <4>2
        <4> QED
          BY <3>1, <3>3, <4>1, <4>3
      <3> QED
        BY <3>2, <3>3
    <2> QED
      BY <2>1
  <1>8. Is(PA!Valuation)
    BY <1>7 DEF PA!Valuation, Nonzero
  <1> QED
    BY <1>8

\* The valuation counts the powers of the base taken out (padic.hpp:43-48).
LEMMA ValuationCounts ==
    ASSUME NEW p \in Primes, NEW m \in Int, m % p # 0
    PROVE  \A n \in 0..(MaxMetric + 1) :
              p^n * m # 0 /\ PA!Valuation[<<p^n * m, p>>] = n
  <1> DEFINE top == MaxMetric + 1
             S == {n \in Nat : p^n * m # 0 /\ PA!Valuation[<<p^n * m, p>>] = n}
  <1>1. p \in Nat \ {0, 1} /\ MaxMetric \in Nat
    BY PAdicConstants
  <1>2. m # 0
    <2>1. 0 % p = 0
      BY <1>1
    <2> QED
      BY <2>1
  <1>3. 0 \in S
    <2>1. p^0 * m = m
      BY PAdicConstants
    <2>2. <<m, p>> \in Nonzero
      BY <1>1, <1>2 DEF Nonzero
    <2>3. PA!Valuation[<<m, p>>] = 0
      BY <2>2, ValuationStep
    <2> QED
      BY <1>2, <2>1, <2>3
  <1>4. ASSUME NEW n \in Nat, n < top, n \in S PROVE n + 1 \in S
    <2> DEFINE w == p^n
               x == w * m
               y == p^(n + 1) * m
    <2>1. n \in 0..MaxMetric /\ n \in 0..(MaxMetric + 1)
      BY <1>1, <1>4
    <2>2. p^(n + 1) = p * w /\ w \in Nat
      BY <2>1, PAdicConstants, PPowers
    <2>3. x # 0 /\ PA!Valuation[<<x, p>>] = n
      BY <1>4
    <2>4. y = p * x /\ x \in Int
      <3> HIDE DEF w
      <3>1. (p * w) * m = p * (w * m) /\ w * m \in Int
        BY <1>1, <2>2
      <3> QED
        BY <2>2, <3>1
    <2> HIDE DEF w, x, y
    <2>5. y % p = 0 /\ y \div p = x
      <3>1. p * x + 0 = y
        BY <1>1, <2>4
      <3>2. (p * x + 0) \div p = x /\ (p * x + 0) % p = 0
        BY <1>1, <2>4, QuotientIs
      <3> QED
        BY <3>1, <3>2
    <2>6. y # 0 /\ y \in Int
      <3>1. y \in Int
        BY <1>1, <2>4
      <3>2. y # 0
        <4> SUFFICES ASSUME y = 0 PROVE FALSE
          OBVIOUS
        <4>1. (p * 0 + 0) \div p = 0 /\ p * 0 + 0 = 0
          BY <1>1, QuotientIs
        <4> QED
          BY <2>3, <2>5, <4>1
      <3> QED
        BY <3>1, <3>2
    <2>7. <<y, p>> \in Nonzero
      BY <1>1, <2>6 DEF Nonzero
    <2>8. PA!Valuation[<<y, p>>] = 1 + PA!Valuation[<<y \div p, p>>]
      <3> DEFINE s == <<y, p>>
      <3>1. s \in Nonzero /\ s[1] = y /\ s[2] = p
        BY <2>7
      <3> HIDE DEF s
      <3>2. PA!Valuation[s] = 1 + PA!Valuation[<<s[1] \div s[2], s[2]>>]
        BY <2>5, <3>1, ValuationStep
      <3> QED
        BY <3>1, <3>2 DEF s
    <2>9. PA!Valuation[<<y, p>>] = n + 1
      BY <2>3, <2>5, <2>8
    <2> QED
      BY <2>6, <2>9 DEF y
  <1>5. \A n \in 0..top : n \in S
    <2>1. top \in Nat
      BY <1>1
    <2> HIDE DEF S, top
    <2> QED
      BY <1>3, <1>4, <2>1, BoundedInduction
  <1> QED
    BY <1>5

\* The first digit that differs is the valuation of the difference; if none
\* does, the difference is a multiple of that power of the base.
LEMMA MeasuredTrue ==
    ASSUME NEW p \in Primes, NEW x \in PLegal(p), NEW y \in PLegal(p),
           NEW k \in 1..MaxMetric
    PROVE  LET place == PA!DifferencePlace(p, x, y, k)
               cross == CrossOf(x, y)
           IN IF place = PA!Pending THEN cross % (p^k) = 0
              ELSE cross # 0 /\ place = PA!Valuation[<<cross, p>>]
  <1> DEFINE Same(j) == PA!Digit(p, PA!Stepped(p, x, j)) = PA!Digit(p, PA!Stepped(p, y, j))
             Di == {j \in 0..(k - 1) : ~Same(j)}
             n == PA!Least(Di)
             C(j) == CrossOf(PA!Stepped(p, x, j), PA!Stepped(p, y, j))
             cross == CrossOf(x, y)
             place == PA!DifferencePlace(p, x, y, k)
  <1>1. p \in Nat \ {0, 1} /\ MaxMetric \in Nat /\ k \in Nat /\ k \in 0..(MaxMetric + 1)
    BY PAdicConstants
  <1>2. ASSUME NEW j \in Nat
        PROVE  C(j) \in Int /\ (~Same(j) => C(j) % p # 0)
    <2> DEFINE xs == PA!Stepped(p, x, j)
               ys == PA!Stepped(p, y, j)
    <2>1. ASSUME NEW s \in PLegal(p) PROVE PA!Stepped(p, s, j) \in PLegal(p)
      BY PWalkAt
    <2>2. xs \in PLegal(p) /\ ys \in PLegal(p)
      BY <2>1
    <2>3. xs \in PStates /\ ys \in PStates /\ PA!Coprime(xs.b, p) /\ PA!Coprime(ys.b, p)
      BY <2>2 DEF PLegal
    <2> HIDE DEF xs, ys
    <2>4. /\ CrossOf(xs, ys) \in Int
          /\ PA!Digit(p, xs) # PA!Digit(p, ys) => CrossOf(xs, ys) % p # 0
      BY <1>1, <2>3, CrossSteps
    <2> QED
      BY <2>4 DEF xs, ys
  <1>3. ASSUME NEW j \in 0..(MaxMetric + 1), \A i \in 0..(j - 1) : Same(i)
        PROVE  cross = p^j * C(j)
    BY <1>3, CrossWalks
  <1>4. CASE Di = {}
    <2>1. place = PA!Pending
      BY <1>4 DEF PA!DifferencePlace
    <2>2. cross = p^k * C(k)
      BY <1>1, <1>3, <1>4
    <2> DEFINE w == p^k
               c == C(k)
    <2>3. w \in Nat \ {0} /\ c \in Int
      BY <1>1, <1>2, PPowers
    <2>4. cross = w * c + 0
      <3> HIDE DEF w, c, cross
      <3> QED
        BY <2>2, <2>3 DEF w, c
    <2> HIDE DEF w, c
    <2>5. (w * c + 0) % w = 0
      BY <2>3, QuotientIs
    <2>6. cross % w = 0
      BY <2>4, <2>5
    <2> QED
      BY <2>1, <2>6 DEF w
  <1>5. CASE Di # {}
    <2>1. n \in Di /\ \A j \in Di : n <= j
      <3>1. Di \in SUBSET Nat
        OBVIOUS
      <3> HIDE DEF Di
      <3> QED
        BY <1>5, <3>1, PLeastIs
    <2>2. place = n
      BY <1>5 DEF PA!DifferencePlace
    <2>3. n \in 0..(k - 1) /\ ~Same(n)
      <3>1. \A j \in Di : j \in 0..(k - 1) /\ ~Same(j)
        OBVIOUS
      <3> HIDE DEF Di, n, Same
      <3> QED
        BY <2>1, <3>1
    <2>4. \A i \in 0..(n - 1) : Same(i)
      <3> SUFFICES ASSUME NEW i \in 0..(n - 1), ~Same(i) PROVE FALSE
        OBVIOUS
      <3> HIDE DEF n, Same
      <3>1. i \in 0..(k - 1) /\ i < n
        BY <1>1, <2>3
      <3>2. i \in Di
        BY <3>1
      <3> HIDE DEF Di
      <3> QED
        BY <1>1, <2>1, <2>3, <3>1, <3>2
    <2> HIDE DEF n
    <2>5. n \in Nat /\ n \in 0..(MaxMetric + 1)
      BY <1>1, <2>3
    <2>6. cross = p^n * C(n) /\ C(n) \in Int /\ C(n) % p # 0
      BY <1>2, <1>3, <2>3, <2>4, <2>5
    <2> DEFINE c == C(n)
    <2>7. c \in Int /\ c % p # 0 /\ cross = p^n * c
      BY <2>6
    <2> HIDE DEF c, cross
    <2>8. cross # 0 /\ PA!Valuation[<<cross, p>>] = n
      BY <2>5, <2>7, ValuationCounts
    <2>9. place # PA!Pending
      BY <2>2, <2>5 DEF PA!Pending
    <2> QED
      BY <2>2, <2>8, <2>9 DEF cross
  <1> QED
    BY <1>4, <1>5

\* The digits gone by and the numerator make up the number.
PExact(n) == pfirst[n] = sum[n] * pmachine[n].b + pmachine[n].a * pscale[n]

\* The inductive invariant: denominators that have an inverse, numbers that are
\* made up exactly, a true answer of the metric.
PAdicInv ==
    /\ pbase \in Primes
    /\ pmachine \in [Numbers -> PLegal(pbase)]
    /\ pfirst \in [Numbers -> Int] /\ sum \in [Numbers -> Int]
    /\ pscale \in [Numbers -> Int]
    /\ \A n \in Numbers : PExact(n)
    /\ PA!MetricTrue

\* Both modules name the two numbers alike.
LEMMA PNumbers == PA!Numbers = Numbers
  BY DEF PA!Numbers, Numbers

\* A metric nobody asked for says nothing.
LEMMA UnaskedTrue ==
    ASSUME pbase \in Primes, pmachine \in [Numbers -> PLegal(pbase)],
           answer = PA!Unasked
    PROVE  PA!MetricTrue
  <1> DEFINE x == pmachine["x"]
             y == pmachine["y"]
  <1>1. x \in PLegal(pbase) /\ y \in PLegal(pbase)
    BY DEF Numbers
  <1>2. x.a \in Int /\ x.b \in Int /\ y.a \in Int /\ y.b \in Int
    BY <1>1 DEF PLegal, PStates
  <1>3. answer.place = PA!Pending /\ answer.look = 0
    BY DEF PA!Unasked
  <1>4. pbase^0 = 1
    BY PAdicConstants
  <1>5. PA!Cross \in Int
    BY <1>2 DEF PA!Cross
  <1>6. PA!Cross % (pbase^answer.look) = 0
    BY <1>3, <1>4, <1>5
  <1> QED
    BY <1>3, <1>6 DEF PA!MetricTrue

\* make_padic_state: nothing read yet, and an inverse in the base.
LEMMA PAdicStarts == PA!Init => PAdicInv
  <1> SUFFICES ASSUME PA!Init PROVE PAdicInv
    OBVIOUS
  <1>1. /\ pbase \in Primes
        /\ pmachine \in [Numbers -> {f \in Residues : PA!Coprime(f.b, pbase)}]
        /\ answer = PA!Unasked
        /\ pfirst = [n \in Numbers |-> pmachine[n].a]
        /\ sum = [n \in Numbers |-> 0]
        /\ pscale = [n \in Numbers |-> 1]
    BY PNumbers DEF PA!Init
  <1>2. ASSUME NEW f \in Residues, PA!Coprime(f.b, pbase) PROVE f \in PLegal(pbase)
    <2>1. f \in PStates
      BY PAdicConstants DEF PStates
    <2> QED
      BY <1>2, <2>1, LargestIs DEF PLegal
  <1>3. pmachine \in [Numbers -> PLegal(pbase)]
    BY <1>1, <1>2
  <1>4. ASSUME NEW n \in Numbers PROVE pmachine[n].a \in Int /\ pmachine[n].b \in Int
    BY <1>3 DEF PLegal, PStates
  <1>5. \A n \in Numbers : PExact(n)
    <2> SUFFICES ASSUME NEW n \in Numbers PROVE PExact(n)
      OBVIOUS
    <2>1. pfirst[n] = pmachine[n].a /\ sum[n] = 0 /\ pscale[n] = 1
      BY <1>1
    <2> DEFINE a == pmachine[n].a
               b == pmachine[n].b
    <2>2. a \in Int /\ b \in Int
      BY <1>4
    <2> HIDE DEF a, b
    <2>3. a = 0 * b + a * 1
      BY <2>2
    <2> QED
      BY <2>1, <2>3 DEF PExact, a, b
  <1>6. PA!MetricTrue
    BY <1>1, <1>3, UnaskedTrue
  <1> QED
    BY <1>1, <1>3, <1>4, <1>5, <1>6 DEF PAdicInv

\* An unasked metric says nothing, in the state that follows too.
LEMMA UnaskedTrueNext ==
    ASSUME pbase' \in Primes, pmachine' \in [Numbers -> PLegal(pbase')],
           answer' = PA!Unasked
    PROVE  PA!MetricTrue'
  <1> DEFINE x == pmachine'["x"]
             y == pmachine'["y"]
  <1>1. x \in PLegal(pbase') /\ y \in PLegal(pbase')
    BY DEF Numbers
  <1>2. x.a \in Int /\ x.b \in Int /\ y.a \in Int /\ y.b \in Int
    BY <1>1 DEF PLegal, PStates
  <1>3. answer'.place = PA!Pending /\ answer'.look = 0
    BY DEF PA!Unasked
  <1>4. (pbase')^0 = 1
    BY PAdicConstants
  <1>5. PA!Cross' \in Int
    BY <1>2 DEF PA!Cross
  <1>6. PA!Cross' % ((pbase')^(answer'.look)) = 0
    BY <1>3, <1>4, <1>5
  <1> QED
    BY <1>3, <1>6 DEF PA!MetricTrue

\* A step takes out its digit and divides exactly.
LEMMA PStepKeeps ==
    ASSUME PAdicInv, NEW n \in Numbers, PA!Step(n)
    PROVE  PAdicInv'
  <1> DEFINE p == pbase
             s == pmachine[n]
             t == PA!After(p, s)
             d == PA!Digit(p, s)
             c == pscale[n] * p
             u == sum[n] + d * pscale[n]
  <1>1. /\ p \in Primes /\ p \in Nat \ {0, 1} /\ s \in PLegal(p) /\ s \in PStates
        /\ PA!Coprime(s.b, p)
        /\ pfirst[n] \in Int /\ sum[n] \in Int /\ pscale[n] \in Int
    BY PAdicConstants DEF PAdicInv, PLegal
  <1>2. /\ pmachine' = [pmachine EXCEPT ![n] = t]
        /\ sum' = [sum EXCEPT ![n] = u]
        /\ pscale' = [pscale EXCEPT ![n] = c]
        /\ answer' = PA!Unasked
        /\ pbase' = pbase /\ pfirst' = pfirst
    BY DEF PA!Step
  <1>3. t \in PLegal(p) /\ t.b = s.b
    BY <1>1, PAfterLegal
  <1>4. d \in Nat /\ s.a = d * s.b + p * t.a
    BY <1>1, PStepDivides
  <1>5. s.a \in Int /\ s.b \in Int /\ t.a \in Int /\ t.b \in Int
    BY <1>1, <1>3 DEF PLegal, PStates
  <1> HIDE DEF d, t
  <1>6. u \in Int /\ c \in Int
    BY <1>1, <1>4
  <1>7. /\ pmachine' \in [Numbers -> PLegal(pbase)] /\ sum' \in [Numbers -> Int]
        /\ pscale' \in [Numbers -> Int]
    BY <1>2, <1>3, <1>6 DEF PAdicInv
  <1>8. PExact(n)'
    <2>1. /\ pmachine'[n] = t /\ sum'[n] = u /\ pscale'[n] = c /\ pfirst'[n] = pfirst[n]
      BY <1>2 DEF PAdicInv
    <2> DEFINE v == sum[n]
               w == pscale[n]
               a == s.a
               b == s.b
               m == t.a
    <2>2. pfirst[n] = v * b + a * w
      BY DEF PAdicInv, PExact
    <2>3. /\ v \in Int /\ w \in Int /\ a \in Int /\ b \in Int /\ m \in Int
          /\ a = d * b + p * m /\ d \in Int /\ p \in Int
      BY <1>1, <1>4, <1>5
    <2>4. u = v + d * w /\ c = w * p /\ t.b = b
      BY <1>3
    <2> HIDE DEF v, w, a, b, m, u, c, s, p
    <2>5. (v + d * w) * b + m * (w * p) = v * b + (d * b + p * m) * w
      BY <2>3
    <2>6. pfirst[n] = u * b + m * c
      BY <2>2, <2>3, <2>4, <2>5
    <2> QED
      BY <2>1, <2>4, <2>6 DEF PExact, m
  <1>9. ASSUME NEW k \in Numbers \ {n} PROVE PExact(k)'
    <2>1. /\ pmachine'[k] = pmachine[k] /\ sum'[k] = sum[k] /\ pscale'[k] = pscale[k]
          /\ pfirst'[k] = pfirst[k]
      BY <1>2 DEF PAdicInv
    <2> QED
      BY <2>1 DEF PExact, PAdicInv
  <1>10. PA!MetricTrue'
    BY <1>1, <1>2, <1>7, UnaskedTrueNext
  <1> QED
    BY <1>1, <1>2, <1>7, <1>8, <1>9, <1>10 DEF PAdicInv

\* A base in which both denominators have an inverse changes no number.
LEMMA PInBaseKeeps ==
    ASSUME Checked, PAdicInv, NEW p \in Primes, PA!InBase(p)
    PROVE  PAdicInv'
  <1>1. /\ \A n \in Numbers : PA!Coprime(pmachine[n].b, p)
        /\ pbase' = p /\ answer' = PA!Unasked
        /\ UNCHANGED <<pmachine, pfirst, sum, pscale>>
    BY PNumbers DEF PA!InBase, PA!Invertible
  <1>2. pmachine' \in [Numbers -> PLegal(p)]
    BY <1>1 DEF PAdicInv, PLegal
  <1>3. PA!MetricTrue'
    BY <1>1, <1>2, UnaskedTrueNext
  <1> QED
    BY <1>1, <1>2, <1>3 DEF PAdicInv, PExact

\* The first digit that differs is the valuation of the difference.
LEMMA PMeasureKeeps ==
    ASSUME PAdicInv, NEW k \in 1..MaxMetric, PA!Measure(k)
    PROVE  PAdicInv'
  <1> DEFINE x == pmachine["x"]
             y == pmachine["y"]
             place == PA!DifferencePlace(pbase, x, y, k)
  <1>1. /\ answer' = [place |-> place, look |-> k]
        /\ UNCHANGED <<pmachine, pbase, pfirst, sum, pscale>>
    BY DEF PA!Measure
  <1>2. pbase \in Primes /\ x \in PLegal(pbase) /\ y \in PLegal(pbase)
    BY DEF PAdicInv, Numbers
  <1>3. IF place = PA!Pending THEN CrossOf(x, y) % (pbase^k) = 0
        ELSE CrossOf(x, y) # 0 /\ place = PA!Valuation[<<CrossOf(x, y), pbase>>]
    <2> HIDE DEF x, y
    <2> QED
      BY <1>2, MeasuredTrue
  <1>4. PA!MetricTrue'
    <2>1. PA!Cross' = CrossOf(x, y)
      BY <1>1 DEF PA!Cross, CrossOf
    <2>2. answer'.place = place /\ answer'.look = k /\ pbase' = pbase
      BY <1>1
    <2> HIDE DEF x, y, place
    <2> QED
      BY <1>3, <2>1, <2>2 DEF PA!MetricTrue
  <1> QED
    BY <1>1, <1>4 DEF PAdicInv, PExact

\* Whatever a caller does with the two machines.
LEMMA PAdicKept ==
    ASSUME Checked, PAdicInv, PA!Next \/ UNCHANGED padic
    PROVE  PAdicInv'
  <1>1. CASE PA!Next
    <2>1. CASE \E n \in Numbers : PA!Step(n)
      BY <2>1, PStepKeeps
    <2>2. CASE \E p \in Primes : PA!InBase(p)
      BY <2>2, PInBaseKeeps
    <2>3. CASE \E k \in 1..MaxMetric : PA!Measure(k)
      BY <2>3, PMeasureKeeps
    <2> QED
      BY <1>1, <2>1, <2>2, <2>3, PNumbers DEF PA!Next
  <1>2. CASE UNCHANGED padic
    BY <1>2 DEF padic, PAdicInv, PExact, PA!MetricTrue, PA!Cross
  <1> QED
    BY <1>1, <1>2

\* What the invariant says of the numbers, the metric and the period.
LEMMA PAdicPromises ==
    ASSUME PAdicInv
    PROVE  /\ PA!NumeratorExact /\ PA!MetricTrue
           /\ PSearched => PA!PeriodFound
  <1>1. PA!NumeratorExact
    BY PNumbers DEF PAdicInv, PExact, PA!NumeratorExact
  <1>2. ASSUME PSearched PROVE PA!PeriodFound
    <2> SUFFICES ASSUME NEW n \in Numbers
                 PROVE  LET found == PA!Period(pbase, pmachine[n])
                        IN /\ found[2] > 0
                           /\ PA!Stepped(pbase, pmachine[n], found[1] + found[2])
                                = PA!Stepped(pbase, pmachine[n], found[1])
      BY PNumbers DEF PA!PeriodFound
    <2>1. pbase \in Primes /\ pmachine[n] \in PLegal(pbase)
      BY DEF PAdicInv
    <2> QED
      BY <1>2, <2>1, PeriodIsCycle
  <1> QED
    BY <1>1, <1>2 DEF PAdicInv

\* The search always ends when twice the largest integer a number is built from
\* is below the cap: the numerators ahead are no more than that.
THEOREM SmallResiduesSearched ==
    ASSUME \A f \in Residues : 2 * Largest(f) + 1 <= SafetyCap
    PROVE  PSearched
  <1> SUFFICES ASSUME NEW p \in Primes, NEW s \in PLegal(p)
               PROVE  \E k \in 0..SafetyCap : PA!Seen(p, s, k) # {}
    BY DEF PSearched
  <1>1. PICK f \in Residues : s.b = f.b /\ s.a \in (-Largest(f))..Largest(f)
    BY DEF PLegal
  <1> DEFINE M == Largest(f)
             A == 0..SafetyCap
             B == (-M)..M
             walk == [k \in Nat |-> PA!Stepped(p, s, k)]
             g == [k \in A |-> PA!Stepped(p, s, k).a]
             S == {k \in Nat : walk[k].a \in B}
  <1>2. M \in Nat /\ SafetyCap \in Nat /\ 2 * M + 1 <= SafetyCap
    BY LargestIs, PAdicConstants
  <1>3. ASSUME NEW k \in Nat
        PROVE  /\ walk[k] \in PStates /\ walk[k].b = s.b /\ PA!Coprime(walk[k].b, p)
               /\ walk[k + 1] = PA!After(p, walk[k]) /\ walk[k] = PA!Stepped(p, s, k)
    <2>1. PA!Stepped(p, s, k) \in PLegal(p) /\ PA!Stepped(p, s, k).b = s.b
      BY PWalkAt
    <2>2. PA!Stepped(p, s, k + 1) = PA!After(p, PA!Stepped(p, s, k))
      BY PWalkAt
    <2> QED
      BY <2>1, <2>2 DEF PLegal
  <1>4. 0 \in S
    <2>1. PA!Stepped(p, s, 0) = s
      BY PWalk
    <2> QED
      BY <1>1, <2>1
  <1> HIDE DEF walk, M
  <1>5. ASSUME NEW k \in Nat, k \in S PROVE k + 1 \in S
    <2> DEFINE t == walk[k]
               a == t.a
               b == s.b
               d == PA!Digit(p, t)
               m == walk[k + 1].a
    <2>1. p \in Nat \ {0, 1} /\ t \in PStates /\ t.b = b /\ PA!Coprime(t.b, p)
      BY <1>3, PAdicConstants
    <2>2. /\ d \in 0..(p - 1) /\ PA!After(p, t) \in PStates
          /\ t.a = d * t.b + p * PA!After(p, t).a
      <3> HIDE DEF t, d
      <3> QED
        BY <2>1, PStepDivides DEF d
    <2>3. a \in Int /\ b \in Int /\ m \in Int /\ a = d * b + p * m
      BY <1>3, <2>1, <2>2 DEF PStates
    <2>4. a \in (-M)..M /\ b \in (-M)..M /\ M \in Nat
      BY <1>1, <1>2, <1>5, LargestIs DEF M
    <2>5. p \in Nat \ {0, 1} /\ d \in 0..(p - 1)
      BY <2>1, <2>2
    <2> HIDE DEF a, b, d, m
    <2>6. m \in (-M)..M
      BY <2>3, <2>4, <2>5, PStepShrinks
    <2> QED
      BY <2>6 DEF m
  <1>6. \A k \in Nat : k \in S
    <2> HIDE DEF S
    <2> QED
      BY <1>4, <1>5, SetInduction
  <1>7. g \in [A -> B]
    <2> SUFFICES ASSUME NEW k \in A PROVE PA!Stepped(p, s, k).a \in B
      OBVIOUS
    <2>1. k \in Nat
      BY <1>2
    <2> QED
      BY <1>3, <1>6, <2>1
  <1>8. /\ IsFiniteSet(A) /\ IsFiniteSet(B)
        /\ Cardinality(A) = SafetyCap + 1 /\ Cardinality(B) = 2 * M + 1
    <2>1. IsFiniteSet(A) /\ Cardinality(A) = SafetyCap - 0 + 1
      BY <1>2, FS_Interval
    <2> DEFINE low == -M
    <2>2. low \in Int /\ M \in Int /\ ~(low > M) /\ M - low + 1 = 2 * M + 1
      BY <1>2
    <2> HIDE DEF low
    <2>3. IsFiniteSet(low..M) /\ Cardinality(low..M) = M - low + 1
      BY <2>2, FS_Interval
    <2> QED
      BY <1>2, <2>1, <2>2, <2>3 DEF low
  <1> HIDE DEF g
  <1>9. PICK i, j \in A : i # j /\ g[i] = g[j]
    <2> HIDE DEF A, B
    <2>1. Cardinality(B) < Cardinality(A)
      BY <1>2, <1>8
    <2> QED
      BY <1>7, <1>8, <2>1, FS_PigeonHole
  <1>10. ASSUME NEW m \in A, NEW k \in A, m < k, g[m] = g[k]
         PROVE  PA!Seen(p, s, k) # {}
    <2>1. m \in Nat /\ k \in Nat /\ m \in 0..(k - 1)
      BY <1>2, <1>10
    <2>2. walk[m] \in PStates /\ walk[k] \in PStates /\ walk[m].b = walk[k].b
      BY <1>3, <2>1
    <2>3. walk[m].a = walk[k].a
      BY <1>3, <1>10, <2>1 DEF g
    <2>4. walk[m] = walk[k]
      BY <2>2, <2>3 DEF PStates
    <2>5. PA!Stepped(p, s, m) = PA!Stepped(p, s, k)
      BY <1>3, <2>1, <2>4
    <2> QED
      BY <2>1, <2>5 DEF PA!Seen
  <1>11. i < j \/ j < i
    BY <1>2, <1>9
  <1> QED
    BY <1>9, <1>10, <1>11

-----------------------------------------------------------------------------
(* The square-root machine *)

\* A column sum below twice a word carries exactly when it wraps around.
Column(S, p, v, u) == (p + v + u * S) % S
\* The carry of a column sum, told by the sum having wrapped around.
Carry(p, low) == IF low < p THEN 1 ELSE 0

\* Low word and carry make up the sum.
LEMMA SumWraps ==
    ASSUME NEW S \in Nat, NEW p \in Nat, NEW v \in Nat, NEW u \in Nat, p < S, v < S
    PROVE  /\ Column(S, p, v, u) \in Nat /\ Carry(p, Column(S, p, v, u)) \in Nat
           /\ p + v = Carry(p, Column(S, p, v, u)) * S + Column(S, p, v, u)
  <1> DEFINE total == p + v + u * S
             low == total % S
  <1>1. CASE p + v < S
    <2> DEFINE left == p + v
    <2>1. left \in Nat /\ left < S /\ u \in Int /\ S \in Nat \ {0} /\ total = u * S + left
      BY <1>1
    <2>2. (u * S + left) % S = left
      <3> HIDE DEF left
      <3> QED
        BY <2>1, QuotientIs
    <2>3. low = p + v
      BY <2>1, <2>2
    <2> HIDE DEF low
    <2> QED
      BY <2>3 DEF low, Column, Carry
  <1>2. CASE ~(p + v < S)
    <2> DEFINE left == p + v - S
    <2>1. left \in Nat /\ left < S /\ left < p /\ S \in Nat \ {0}
      BY <1>2
    <2>2. u + 1 \in Int /\ (u + 1) * S + left = total
      OBVIOUS
    <2>3. ((u + 1) * S + left) % S = left
      <3> DEFINE k == u + 1
      <3>1. k \in Int
        OBVIOUS
      <3> HIDE DEF left, k
      <3>2. (k * S + left) % S = left
        BY <2>1, <3>1, QuotientIs
      <3> QED
        BY <3>2 DEF k
    <2>4. low = left
      BY <2>2, <2>3
    <2> HIDE DEF low
    <2> QED
      BY <2>1, <2>4 DEF low, Column, Carry
  <1> QED
    BY <1>1, <1>2

\* A number no bigger than a product has a quotient no bigger than the factor.
LEMMA QuotientBelow ==
    ASSUME NEW m \in Nat, NEW d \in Nat \ {0}, NEW k \in Nat, m < k * d
    PROVE  m \div d \in Nat /\ m \div d < k
  <1> DEFINE t == m \div d
  <1>1. t \in Nat /\ m % d \in Nat /\ m = t * d + (m % d)
    BY LongDivision
  <1> HIDE DEF t
  <1>2. t < k
    <2> SUFFICES ASSUME k <= t PROVE FALSE
      BY <1>1
    <2>1. k * d <= t * d
      BY <1>1
    <2>2. k * d \in Nat /\ t * d \in Nat
      BY <1>1
    <2> QED
      BY <1>1, <2>1, <2>2
  <1> QED
    BY <1>1, <1>2 DEF t

\* A number below the modulus is its own residue.
LEMMA ModSmall ==
    ASSUME NEW S \in Nat \ {0}, NEW k \in Nat, k < S
    PROVE  k % S = k
  <1>1. (0 * S + k) % S = k
    BY QuotientIs
  <1>2. 0 * S + k = k
    OBVIOUS
  <1> QED
    BY <1>1, <1>2

\* mul_small is the product while the factor fits half a word and the product
\* two words (bounded_int.hpp).
THEOREM MulSmallIs ==
    ASSUME NEW n \in Nat, NEW f \in Nat, f <= SqrtHalf, n * f < SQ!Double
    PROVE  SQ!MulSmall(n, f) = n * f
  <1> DEFINE H == SqrtHalf
             S == SQ!Single
             lo == n % S
             hi == n \div S
             a == lo % H
             c == lo \div H
             u == (c * f) \div H
             v == (c * f) % H
             low == (a * f + c * f * H) % S
             carry == IF low < a * f THEN 1 ELSE 0
  <1>1. H \in Nat \ {0} /\ S = H * H /\ S \in Nat \ {0} /\ SQ!Double = S * S
    <2>1. SqrtHalf \in Nat \ {0}
      BY MachineAssumptions DEF SQ!SqrtAssumption
    <2> DEFINE h == SqrtHalf
    <2>2. h * h \in Nat \ {0}
      <3> HIDE DEF h
      <3>1. h \in Nat \ {0}
        BY <2>1 DEF h
      <3> QED
        BY <3>1
    <2> QED
      BY <2>1, <2>2 DEF SQ!Single, SQ!Double
  <1> HIDE DEF H, S
  <1>2. hi \in Nat /\ lo \in Nat /\ lo < S /\ n = hi * S + lo
    BY <1>1, LongDivision
  <1> HIDE DEF hi, lo
  <1>3. a \in Nat /\ c \in Nat /\ a < H /\ lo = c * H + a
    BY <1>1, <1>2, LongDivision
  <1>4. c < H
    BY <1>1, <1>2, QuotientBelow
  <1> HIDE DEF a, c
  <1>5. f \in Nat /\ f <= H
    BY DEF H
  <1>6. a * f \in Nat /\ c * f \in Nat /\ a * f < S /\ c * f < S
    <2>1. ASSUME NEW x \in Nat, x < H PROVE x * f \in Nat /\ x * f < H * H
      <3>1. x * f <= x * H
        BY <1>1, <1>5, <2>1
      <3>2. x * H < H * H
        BY <1>1, <2>1
      <3>3. x * f \in Nat /\ x * H \in Nat /\ H * H \in Nat
        BY <1>1, <1>5
      <3> QED
        BY <3>1, <3>2, <3>3
    <2> QED
      BY <1>1, <1>3, <1>4, <2>1
  <1> DEFINE g == c * f
             p == a * f
  <1>7. u \in Nat /\ v \in Nat /\ v < H /\ c * f = u * H + v
    <2>1. g \in Nat /\ H \in Nat /\ H > 0
      BY <1>1, <1>6
    <2> HIDE DEF g
    <2>2. g \div H \in Nat /\ g % H \in Nat /\ g % H < H /\ g = (g \div H) * H + (g % H)
      BY <2>1, LongDivision
    <2> QED
      BY <2>2 DEF g
  <1> HIDE DEF u, v
  <1>8. v * H \in Nat /\ v * H < S
    <2>1. v * H < H * H
      BY <1>1, <1>7
    <2> QED
      BY <1>1, <1>7, <2>1
  <1>9. a * f + c * f * H = a * f + v * H + u * S
    <2>1. (u * H + v) * H = v * H + u * (H * H)
      BY <1>1, <1>7
    <2>2. c * f * H = (u * H + v) * H
      BY <1>7
    <2>3. c * f * H = v * H + u * S
      BY <1>1, <2>1, <2>2
    <2>4. v * H \in Nat /\ u * S \in Nat /\ a * f \in Nat
      BY <1>1, <1>6, <1>7, <1>8
    <2> QED
      BY <2>3, <2>4
  <1>10. low \in Nat /\ carry \in Nat /\ a * f + v * H = carry * S + low
    <2> DEFINE w == v * H
    <2>1. /\ S \in Nat /\ p \in Nat /\ w \in Nat /\ u \in Nat /\ p < S /\ w < S
      BY <1>1, <1>6, <1>7, <1>8
    <2> HIDE DEF p, w
    <2>2. /\ Column(S, p, w, u) \in Nat /\ Carry(p, Column(S, p, w, u)) \in Nat
          /\ p + w = Carry(p, Column(S, p, w, u)) * S + Column(S, p, w, u)
      BY <2>1, SumWraps
    <2>3. low = Column(S, p, w, u)
      BY <1>9 DEF p, w, Column
    <2>4. carry = Carry(p, low)
      BY DEF Carry, p
    <2> HIDE DEF low, carry
    <2> QED
      BY <2>2, <2>3, <2>4 DEF p, w
  <1> HIDE DEF low, carry
  <1> DEFINE top == u + carry + hi * f
  <1>11. hi * f \in Nat /\ top \in Nat
    BY <1>2, <1>5, <1>7, <1>10
  <1>12. n * f = top * S + low
    <2>1. n * f = (hi * S + lo) * f
      BY <1>2
    <2>2. (hi * S + lo) * f = (hi * f) * S + lo * f
      BY <1>1, <1>2, <1>5
    <2>3. lo * f = (c * H + a) * f
      BY <1>3
    <2>4. (c * H + a) * f = c * f * H + a * f
      BY <1>1, <1>3, <1>5
    <2>5. a * f + c * f * H = u * S + (carry * S + low)
      <3>1. u * S \in Nat /\ v * H \in Nat /\ carry * S \in Nat
        BY <1>1, <1>7, <1>8, <1>10
      <3> QED
        BY <1>6, <1>9, <1>10, <3>1
    <2>6. u * S + (carry * S + low) + (hi * f) * S = top * S + low
      <3> DEFINE k == hi * f
      <3>1. k \in Nat
        BY <1>11
      <3> HIDE DEF k
      <3>2. u * S + (carry * S + low) + k * S = (u + carry + k) * S + low
        BY <1>1, <1>7, <1>10, <3>1
      <3> QED
        BY <3>2 DEF k
    <2>7. (hi * f) * S \in Nat /\ c * f * H \in Nat /\ a * f \in Nat
      BY <1>1, <1>6, <1>11
    <2> QED
      BY <2>1, <2>2, <2>3, <2>4, <2>5, <2>6, <2>7
  <1> HIDE DEF top
  <1>13. top < S
    <2> SUFFICES ASSUME S <= top PROVE FALSE
      BY <1>1, <1>11
    <2>1. S * S <= top * S
      BY <1>1, <1>11
    <2>2. top * S \in Nat /\ n * f < S * S
      BY <1>1, <1>11
    <2> QED
      BY <1>1, <1>10, <1>12, <2>1, <2>2
  <1>14. top % S = top
    BY <1>1, <1>11, <1>13, ModSmall
  <1>15. SQ!MulSmall(n, f) = (top % S) * S + low
    <2>1. (a * f) % S = a * f /\ (c * f) % S = c * f
      <3> HIDE DEF g, p
      <3>1. g % S = g /\ p % S = p
        BY <1>1, <1>6, ModSmall DEF g, p
      <3> QED
        BY <3>1 DEF g, p
    <2> QED
      BY <2>1 DEF SQ!MulSmall, top, carry, low, u, a, c, hi, lo, S, H
  <1> QED
    BY <1>12, <1>14, <1>15

\* The words are wide enough for digits up to a scale of M: the code lets P and
\* R wrap around without a word (algebraic.hpp:27-47), so that its exactness ends
\* where these bounds do.
WideEnough(M) ==
    \A d \in Radicands, b \in SqrtBases :
        /\ b * b <= SqrtHalf
        /\ 4 * (d * (M * M)) < (SQ!Single - b) * (SQ!Single - b)
\* The words are wide enough up to the last digit asked for.
SqrtFits == WideEnough(SqrtScale)

\* What is assumed of the constants of the square-root machine.
SqrtConstants ==
    /\ Radicands \subseteq Nat /\ SqrtBases \subseteq Nat \ {0, 1}
    /\ SqrtHalf \in Nat \ {0} /\ SqrtScale \in Nat
\* It follows from the assumptions of the modules.
LEMMA SqrtKnown == SqrtConstants
  BY MachineAssumptions DEF SQ!SqrtAssumption, SqrtConstants

\* The root below T, and what is left of T.
RootOf(p, r, T) == p * p <= T /\ T < (p + 1) * (p + 1) /\ r = T - p * p

\* The inductive invariant: P is the root of the scaled radicand, R the rest.
SqrtInv ==
    /\ D \in Radicands /\ sbase \in SqrtBases
    /\ P \in Nat /\ R \in Nat /\ sscale \in Nat \ {0}
    /\ RootOf(P, R, D * sscale * sscale)

\* Comparing squares compares naturals.
LEMMA SquaresOrder ==
    ASSUME NEW x \in Nat, NEW y \in Nat, x * x < y * y
    PROVE  x < y
  <1> SUFFICES ASSUME y <= x PROVE FALSE
    OBVIOUS
  <1>1. y * y <= x * y /\ x * y <= x * x
    OBVIOUS
  <1>2. x * x \in Nat /\ x * y \in Nat /\ y * y \in Nat
    OBVIOUS
  <1> QED
    BY <1>1, <1>2

\* make_sqrt_state: its search ends, and at the integer part of the root.
LEMMA RootIs ==
    ASSUME NEW d \in Nat
    PROVE  SQ!Root(d) \in Nat /\ RootOf(SQ!Root(d), d - SQ!Root(d) * SQ!Root(d), d)
  <1> DEFINE T == {n \in Nat : d < (n + 1) * (n + 1)}
  <1>1. d \in T
    <2>1. d < d * d + d + d + 1 /\ (d + 1) * (d + 1) = d * d + d + d + 1
      <3>1. d * d \in Nat
        OBVIOUS
      <3> QED
        BY <3>1
    <2> QED
      BY <2>1
  <1>2. PICK n \in T : \A m \in T : ~(m < n)
    BY <1>1, LeastNatural
  <1>3. n \in Nat /\ n <= d /\ d < (n + 1) * (n + 1)
    BY <1>1, <1>2
  <1>4. n * n <= d
    <2>1. CASE n = 0
      BY <2>1
    <2>2. CASE n # 0
      <3>1. n - 1 \in Nat /\ n - 1 \notin T /\ (n - 1) + 1 = n
        BY <1>2, <1>3, <2>2
      <3>2. ~(d < n * n)
        BY <3>1
      <3> QED
        BY <1>3, <3>2
    <2> QED
      BY <2>1, <2>2
  <1>5. \E m \in 0..d : m * m <= d /\ d < (m + 1) * (m + 1)
    BY <1>3, <1>4
  <1>6. /\ SQ!Root(d) \in 0..d /\ SQ!Root(d) * SQ!Root(d) <= d
        /\ d < (SQ!Root(d) + 1) * (SQ!Root(d) + 1)
    BY <1>5 DEF SQ!Root
  <1> QED
    BY <1>6 DEF RootOf

\* The registers of a state are far below the words they are kept in.
LEMMA PrefixBelow ==
    ASSUME NEW M \in Nat, WideEnough(M),
           NEW d \in Radicands, NEW b \in SqrtBases, NEW p \in Nat,
           NEW s \in Nat, s * b <= M, p * p <= d * s * s
    PROVE  /\ b < SQ!Single /\ b <= SqrtHalf /\ b * b <= SqrtHalf
           /\ 2 * p * b < SQ!Single - b
           /\ (d * s * s) * (b * b) < SQ!Double
  <1> USE SqrtKnown DEF SqrtConstants
  <1> DEFINE S == SQ!Single
             H == SqrtHalf
             c == s * b
             left == S - b
             x == 2 * p * b
             T == d * s * s
  <1>1. b \in Nat \ {0, 1} /\ d \in Nat /\ H \in Nat \ {0} /\ M \in Nat
    OBVIOUS
  <1>2. b <= H /\ b * b <= H /\ H <= S /\ b < S /\ S \in Nat \ {0}
    <2>1. b * b <= H
      BY DEF WideEnough
    <2> HIDE DEF H
    <2>2. 2 * b <= b * b /\ H <= H * H /\ H * H \in Nat \ {0} /\ b * b \in Nat
      BY <1>1
    <2> QED
      BY <1>1, <2>1, <2>2 DEF SQ!Single, H
  <1>3. 4 * (d * (M * M)) < left * left
    BY DEF WideEnough
  <1>4. c \in Nat /\ c <= M /\ c * c <= M * M
    <2>1. c \in Nat /\ c <= M
      BY <1>1
    <2> HIDE DEF c
    <2>2. c * c <= c * M /\ c * M <= M * M
      BY <1>1, <2>1
    <2>3. c * c \in Nat /\ c * M \in Nat /\ M * M \in Nat
      BY <1>1, <2>1
    <2> QED
      BY <2>1, <2>2, <2>3
  <1> HIDE DEF S
  <1>5. left \in Nat
    BY <1>1, <1>2
  <1>6. T \in Nat /\ T * (b * b) = d * (c * c) /\ d * (c * c) <= d * (M * M)
    <2>1. (d * s * s) * (b * b) = d * ((s * b) * (s * b))
      BY <1>1
    <2>2. T \in Nat
      BY <1>1
    <2> DEFINE cc == c * c
               mm == M * M
    <2>3. cc \in Nat /\ mm \in Nat /\ cc <= mm
      BY <1>1, <1>4
    <2> HIDE DEF cc, mm
    <2>4. d * cc <= d * mm
      BY <1>1, <2>3
    <2> QED
      BY <2>1, <2>2, <2>4 DEF cc, mm
  <1>7. x * x <= 4 * (T * (b * b))
    <2>1. x * x = 4 * ((p * p) * (b * b))
      BY <1>1
    <2> DEFINE pp == p * p
               bb == b * b
    <2>2. pp \in Nat /\ bb \in Nat /\ pp <= T /\ T \in Nat
      BY <1>1, <1>6
    <2> HIDE DEF pp, bb, T, x
    <2>3. pp * bb <= T * bb
      BY <2>2
    <2>4. pp * bb \in Nat /\ T * bb \in Nat
      BY <2>2
    <2>5. 4 * (pp * bb) <= 4 * (T * bb)
      BY <2>3, <2>4
    <2>6. x * x = 4 * (pp * bb)
      BY <2>1 DEF pp, bb
    <2> QED
      BY <2>5, <2>6 DEF bb
  <1> DEFINE U == T * (b * b)
             V == d * (M * M)
             W == left * left
  <1>8. U \in Nat /\ V \in Nat /\ W \in Nat /\ U <= V /\ 4 * V < W /\ x * x <= 4 * U
    <2>1. U \in Nat
      <3> HIDE DEF T
      <3> QED
        BY <1>1, <1>6
    <2>2. V \in Nat /\ W \in Nat
      <3> HIDE DEF left
      <3> QED
        BY <1>1, <1>5
    <2> QED
      BY <2>1, <2>2, <1>3, <1>6, <1>7
  <1>9. x \in Nat
    BY <1>1
  <1>10. x < left
    <2>1. x * x < left * left
      <3> HIDE DEF U, V, x
      <3>1. x * x \in Nat
        BY <1>9
      <3> QED
        BY <1>8, <3>1 DEF W
    <2> HIDE DEF x, left
    <2> QED
      BY <1>5, <1>9, <2>1, SquaresOrder
  <1>11. U < S * S
    <2>1. left <= S
      BY <1>1, <1>2
    <2> HIDE DEF left, U, V
    <2>2. left * left <= left * S /\ left * S <= S * S
      BY <1>2, <1>5, <2>1
    <2>3. left * left \in Nat /\ left * S \in Nat /\ S * S \in Nat
      BY <1>2, <1>5
    <2> QED
      BY <1>8, <2>2, <2>3 DEF W
  <1> QED
    BY <1>2, <1>10, <1>11 DEF S, SQ!Double

\* The machine's registers at scale s of the root of d.
Rooted(d, s, p, r) == p \in Nat /\ r \in Nat /\ RootOf(p, r, d * s * s)

\* The digit's loop stops: at the first digit that is too big, or the last.
LEMMA SqrtDigitIs ==
    ASSUME NEW b \in SqrtBases, NEW s
    PROVE  LET x == SQ!Digit(b, s)
           IN /\ x \in Nat /\ x < b
              /\ x + 1 = b \/ ~SQ!Fits(b, s, x + 1)
              /\ x = 0 \/ SQ!Fits(b, s, x)
  <1> USE SqrtKnown DEF SqrtConstants
  <1> DEFINE X == {x \in 0..(b - 1) : x + 1 = b \/ ~SQ!Fits(b, s, x + 1)}
  <1>1. b \in Nat \ {0, 1} /\ b - 1 \in X
    OBVIOUS
  <1>2. PICK x \in X : \A y \in X : ~(y < x)
    <2>1. X \in SUBSET Nat /\ X # {}
      BY <1>1
    <2> HIDE DEF X
    <2> QED
      BY <2>1, LeastNatural
  <1>3. \A y \in 1..x : SQ!Fits(b, s, y)
    <2> SUFFICES ASSUME NEW y \in 1..x PROVE SQ!Fits(b, s, y)
      OBVIOUS
    <2>1. y - 1 \in 0..(b - 1) /\ y - 1 < x /\ (y - 1) + 1 = y
      BY <1>1
    <2>2. y - 1 \notin X
      BY <1>2, <2>1
    <2> QED
      BY <2>1, <2>2
  <1> DEFINE Is(x1) == /\ x1 + 1 = b \/ ~SQ!Fits(b, s, x1 + 1)
                       /\ \A y \in 1..x1 : SQ!Fits(b, s, y)
             d == CHOOSE x1 \in 0..(b - 1) : Is(x1)
  <1>4. d \in 0..(b - 1) /\ Is(d)
    <2>1. x \in 0..(b - 1) /\ Is(x)
      BY <1>3
    <2> HIDE DEF Is
    <2> QED
      BY <2>1
  <1>5. SQ!Digit(b, s) = d
    BY DEF SQ!Digit
  <1> HIDE DEF d
  <1> QED
    BY <1>1, <1>4, <1>5

\* A digit fits when the prefix it makes is no bigger than the root.
LEMMA FitsIs ==
    ASSUME NEW M \in Nat, WideEnough(M), NEW d \in Radicands, NEW b \in SqrtBases, NEW s \in Nat \ {0},
           NEW p, NEW r, Rooted(d, s, p, r), s * b <= M,
           NEW x \in Nat, x < b
    PROVE  LET v == [P |-> p, R |-> r]
           IN /\ SQ!Taken(b, v, x) = (2 * p * b + x) * x
              /\ SQ!BroughtDown(b, v) = r * (b * b)
              /\ (2 * p * b + x) * x \in Nat /\ r * (b * b) \in Nat
              /\ r * (b * b) < SQ!Double /\ (p * b + x) % SQ!Single = p * b + x
  <1> USE SqrtKnown DEF SqrtConstants
  <1> DEFINE v == [P |-> p, R |-> r]
             S == SQ!Single
             H == SqrtHalf
             T == d * s * s
             y == 2 * p * b
             z == y + x
             w == p * b + x
  <1>1. /\ b \in Nat \ {0, 1} /\ d \in Nat /\ p \in Nat /\ r \in Nat /\ H \in Nat \ {0}
        /\ p * p <= T /\ r = T - p * p /\ p * p \in Nat
    BY DEF Rooted, RootOf
  <1>2. b < S /\ b <= H /\ b * b <= H /\ y < S - b /\ T * (b * b) < SQ!Double
    BY <1>1, PrefixBelow
  <1>3. S \in Nat \ {0} /\ SQ!Double = S * S /\ H <= S
    <2> HIDE DEF H
    <2>1. H * H \in Nat \ {0} /\ H <= H * H
      BY <1>1
    <2> QED
      BY <2>1 DEF SQ!Single, SQ!Double, H
  <1>4. y \in Nat /\ z \in Nat /\ z < S /\ y % S = y /\ z % S = z
    <2>1. y \in Nat
      BY <1>1
    <2> HIDE DEF S, y
    <2>2. z < S /\ y < S
      BY <1>1, <1>2, <1>3, <2>1
    <2>3. z \in Nat
      BY <2>1
    <2> HIDE DEF z
    <2>4. y % S = y /\ z % S = z
      BY <1>3, <2>1, <2>2, <2>3, ModSmall
    <2> QED
      BY <2>1, <2>2, <2>3, <2>4
  <1>5. w \in Nat /\ w % S = w
    <2>1. p * b <= y /\ p * b \in Nat /\ y \in Nat
      <3> DEFINE k == p * b
      <3>1. k \in Nat /\ y = 2 * k
        BY <1>1
      <3> HIDE DEF k, y
      <3> QED
        BY <3>1 DEF k
    <2> HIDE DEF y
    <2>2. w \in Nat /\ w <= z
      BY <2>1
    <2> HIDE DEF w, z
    <2>3. w < S
      BY <1>3, <1>4, <2>2
    <2>4. w % S = w
      BY <1>3, <2>2, <2>3, ModSmall
    <2> QED
      BY <2>2, <2>4
  <1>6. z * x \in Nat /\ z * x < SQ!Double
    <2> HIDE DEF z, S, H
    <2>1. z * x <= z * S /\ z * S < S * S
      <3>1. x <= S
        BY <1>1, <1>2, <1>3
      <3> QED
        BY <1>3, <1>4, <3>1
    <2>2. z * x \in Nat /\ z * S \in Nat /\ S * S \in Nat
      BY <1>3, <1>4
    <2> QED
      BY <1>3, <2>1, <2>2
  <1>7. r * (b * b) \in Nat /\ r * (b * b) < SQ!Double
    <2> DEFINE bb == b * b
    <2>1. bb \in Nat /\ T \in Nat
      BY <1>1
    <2> HIDE DEF bb, T
    <2>2. r <= T
      BY <1>1, <2>1
    <2>3. r * bb <= T * bb /\ r * bb \in Nat /\ T * bb \in Nat
      BY <1>1, <2>1, <2>2
    <2>4. S * S \in Nat
      BY <1>3
    <2> QED
      BY <1>2, <1>3, <2>3, <2>4 DEF bb
  <1>8. SQ!MulSmall(z, x) = z * x
    <2>1. x <= SqrtHalf
      BY <1>1, <1>2
    <2> HIDE DEF z
    <2> QED
      BY <1>4, <1>6, <2>1, MulSmallIs
  <1>9. SQ!MulSmall(r, b * b) = r * (b * b)
    <2> DEFINE bb == b * b
    <2>1. bb \in Nat /\ bb <= SqrtHalf /\ r * bb < SQ!Double
      BY <1>1, <1>2, <1>7
    <2> HIDE DEF bb
    <2>2. SQ!MulSmall(r, bb) = r * bb
      BY <1>1, <2>1, MulSmallIs
    <2> QED
      BY <2>2 DEF bb
  <1>10. SQ!Taken(b, v, x) = z * x
    BY <1>4, <1>8 DEF SQ!Taken
  <1>11. SQ!BroughtDown(b, v) = r * (b * b)
    BY <1>9 DEF SQ!BroughtDown
  <1> HIDE DEF v
  <1> QED
    BY <1>5, <1>6, <1>7, <1>10, <1>11 DEF v

\* The square of the longer prefix.
LEMMA PrefixSquare ==
    ASSUME NEW p \in Nat, NEW b \in Nat, NEW x \in Nat
    PROVE  /\ (p * b + x) * (p * b + x) = (p * p) * (b * b) + (2 * p * b + x) * x
           /\ (p * p) * (b * b) \in Nat /\ p * b + x \in Nat
  OBVIOUS

\* A step of the machine keeps the root.
LEMMA SqrtStepRoots ==
    ASSUME NEW M \in Nat, WideEnough(M), NEW d \in Radicands, NEW b \in SqrtBases, NEW s \in Nat \ {0},
           NEW p, NEW r, Rooted(d, s, p, r), s * b <= M
    PROVE  LET t == SQ!After(b, [P |-> p, R |-> r])
           IN /\ Rooted(d, s * b, t.P, t.R)
              /\ t.P = p * b + SQ!Digit(b, [P |-> p, R |-> r])
  <1> USE SqrtKnown DEF SqrtConstants
  <1> DEFINE v == [P |-> p, R |-> r]
             x == SQ!Digit(b, v)
             T == d * s * s
             bb == b * b
             taken == (2 * p * b + x) * x
             w == p * b + x
  <1>1. /\ b \in Nat \ {0, 1} /\ d \in Nat /\ p \in Nat /\ r \in Nat /\ T \in Nat
        /\ p * p \in Nat /\ p * p <= T /\ T < (p + 1) * (p + 1) /\ r = T - p * p
    BY DEF Rooted, RootOf
  <1>2. /\ x \in Nat /\ x < b
        /\ x + 1 = b \/ ~SQ!Fits(b, v, x + 1)
        /\ x = 0 \/ SQ!Fits(b, v, x)
    BY SqrtDigitIs
  <1> HIDE DEF x
  <1>3. ASSUME NEW y \in Nat, y < b
        PROVE  /\ SQ!Taken(b, v, y) = (2 * p * b + y) * y
               /\ SQ!BroughtDown(b, v) = r * bb
               /\ (2 * p * b + y) * y \in Nat /\ r * bb \in Nat
               /\ r * bb < SQ!Double /\ (p * b + y) % SQ!Single = p * b + y
    BY <1>3, FitsIs
  <1> HIDE DEF v
  <1>4. T * bb = r * bb + (p * p) * bb /\ T * bb \in Nat
    <2> DEFINE pp == p * p
    <2>1. bb \in Nat /\ pp \in Nat
      BY <1>1
    <2> HIDE DEF bb, T, pp
    <2>2. r = T - pp
      BY <1>1 DEF pp
    <2>3. T * bb = r * bb + pp * bb /\ T * bb \in Nat
      BY <1>1, <2>1, <2>2
    <2> QED
      BY <2>3 DEF pp
  <1>5. ASSUME NEW y \in Nat, y < b
        PROVE  SQ!Fits(b, v, y) <=> (p * b + y) * (p * b + y) <= T * bb
    <2> DEFINE q == (p * b + y) * (p * b + y)
               k == (2 * p * b + y) * y
               m == (p * p) * bb
               l == r * bb
    <2>1. q = m + k /\ m \in Nat
      BY <1>1, PrefixSquare
    <2>2. k \in Nat /\ l \in Nat /\ SQ!Taken(b, v, y) = k /\ SQ!BroughtDown(b, v) = l
      BY <1>3, <1>5
    <2>3. T * bb = l + m
      BY <1>4
    <2> HIDE DEF q, k, m, l
    <2>4. SQ!Fits(b, v, y) <=> q <= T * bb
      BY <2>1, <2>2, <2>3 DEF SQ!Fits
    <2> QED
      BY <2>4 DEF q
  <1>6. w \in Nat /\ w * w = (p * p) * bb + taken /\ (p * p) * bb \in Nat
    BY <1>1, <1>2, PrefixSquare
  <1>7. /\ taken \in Nat /\ r * bb \in Nat /\ r * bb < SQ!Double
        /\ SQ!Taken(b, v, x) = taken /\ SQ!BroughtDown(b, v) = r * bb
        /\ w % SQ!Single = w
    BY <1>2, <1>3
  <1>8. w * w <= T * bb
    <2>1. CASE x = 0
      <3>1. taken = 0
        BY <1>1, <2>1
      <3> DEFINE m == (p * p) * bb
                 l == r * bb
      <3>2. T * bb = l + m /\ w * w = m + taken /\ m \in Nat /\ l \in Nat
        BY <1>4, <1>6, <1>7
      <3> HIDE DEF m, l, taken, w, T, bb
      <3> QED
        BY <3>1, <3>2
    <2>2. CASE x # 0
      BY <1>2, <1>5, <2>2
    <2> QED
      BY <2>1, <2>2
  <1>9. T * bb < (w + 1) * (w + 1)
    <2>1. CASE x + 1 = b
      <3> DEFINE e == p + 1
                 ee == e * e
      <3>1. e \in Nat /\ w + 1 = e * b /\ (e * b) * (e * b) = ee * bb
        <4>1. e \in Nat /\ b \in Nat /\ p \in Nat /\ x \in Nat /\ x = b - 1
          BY <1>1, <1>2, <2>1
        <4>2. w + 1 = e * b
          <5>1. p * b \in Nat /\ (p + 1) * b = p * b + b
            BY <4>1
          <5> QED
            BY <4>1, <5>1
        <4>3. (e * b) * (e * b) = ee * bb
          <5> HIDE DEF e
          <5> QED
            BY <4>1
        <4> QED
          BY <4>1, <4>2, <4>3
      <3>2. ee \in Nat /\ bb \in Nat \ {0} /\ T < ee
        BY <1>1
      <3> HIDE DEF ee, bb, e, T, w
      <3>3. T * bb < ee * bb
        BY <1>1, <3>2
      <3> QED
        BY <3>1, <3>3
    <2>2. CASE x + 1 # b
      <3>1. x + 1 \in Nat /\ x + 1 < b /\ ~SQ!Fits(b, v, x + 1)
        BY <1>1, <1>2, <2>2
      <3> DEFINE y == x + 1
      <3>2. p * b + y = w + 1
        BY <1>1, <1>2
      <3>3. ~((p * b + y) * (p * b + y) <= T * bb)
        <4> HIDE DEF y
        <4> QED
          BY <1>5, <3>1 DEF y
      <3> DEFINE W == (w + 1) * (w + 1)
      <3>4. ~(W <= T * bb) /\ W \in Nat
        <4>1. ~(W <= T * bb)
          BY <3>2, <3>3
        <4>2. W \in Nat
          <5> HIDE DEF w
          <5> QED
            BY <1>6
        <4> QED
          BY <4>1, <4>2
      <3> HIDE DEF W, y, T, bb, w
      <3>5. T * bb < W
        BY <1>4, <3>4
      <3> QED
        BY <3>5 DEF W
    <2> QED
      BY <2>1, <2>2
  <1>10. SQ!Minus(r * bb, taken) = T * bb - w * w /\ T * bb - w * w \in Nat
    <2> DEFINE m == (p * p) * bb
               l == r * bb
               left == T * bb - w * w
               Q == SQ!Double
    <2>1. /\ T * bb = l + m /\ w * w = m + taken /\ m \in Nat /\ l \in Nat
          /\ taken \in Nat /\ w * w <= T * bb /\ l < Q
      BY <1>4, <1>6, <1>7, <1>8
    <2>2. Q \in Nat \ {0}
      <3> DEFINE h == SqrtHalf
      <3>1. h \in Nat \ {0}
        OBVIOUS
      <3> HIDE DEF h
      <3>2. h * h \in Nat \ {0}
        BY <3>1
      <3> DEFINE hh == h * h
      <3>3. hh \in Nat \ {0}
        BY <3>2
      <3> HIDE DEF hh
      <3>4. hh * hh \in Nat \ {0}
        BY <3>3
      <3> QED
        BY <3>4 DEF SQ!Double, SQ!Single, hh, h
    <2> HIDE DEF m, l, taken, w, T, bb, Q
    <2>3. left = l - taken /\ left \in Nat /\ left < Q
      BY <2>1, <2>2
    <2> HIDE DEF left
    <2>5. left % Q = left
      BY <2>2, <2>3, ModSmall
    <2> QED
      BY <2>3, <2>5 DEF SQ!Minus, Q, l, left
  <1>11. SQ!After(b, v) = [P |-> w, R |-> T * bb - w * w]
    BY <1>7, <1>10 DEF SQ!After, x, v
  <1>12. d * (s * b) * (s * b) = T * bb
    BY <1>1
  <1> DEFINE t == SQ!After(b, v)
  <1>13. t.P = w /\ t.R = T * bb - w * w
    BY <1>11
  <1>14. t.P = p * b + x
    BY <1>13
  <1> HIDE DEF t, w, T, bb
  <1>15. Rooted(d, s * b, t.P, t.R)
    BY <1>6, <1>8, <1>9, <1>10, <1>12, <1>13 DEF Rooted, RootOf
  <1> QED
    BY <1>14, <1>15 DEF t, v, x

\* make_sqrt_state: the integer part of the root and what it leaves.
LEMMA SqrtStarts == SQ!Init => SqrtInv
  <1> SUFFICES ASSUME SQ!Init PROVE SqrtInv
    OBVIOUS
  <1>1. /\ D \in Radicands /\ D \in Nat /\ P = SQ!Root(D) /\ R = D - SQ!Root(D) * SQ!Root(D)
        /\ sbase \in SqrtBases /\ sscale = 1
    BY SqrtKnown DEF SQ!Init, SqrtConstants
  <1>2. P \in Nat /\ RootOf(P, R, D)
    BY <1>1, RootIs
  <1>3. R \in Nat /\ D * sscale * sscale = D
    <2>1. P * P \in Nat /\ P * P <= D /\ R = D - P * P
      BY <1>2 DEF RootOf
    <2> QED
      BY <1>1, <2>1
  <1> QED
    BY <1>1, <1>2, <1>3 DEF SqrtInv

\* A step appends the digit of the root; a change of base touches no register.
LEMMA SqrtKept ==
    ASSUME SqrtFits, SqrtInv, SQ!Next \/ UNCHANGED sqrt
    PROVE  SqrtInv'
  <1>1. CASE SQ!Step
    <2>1. /\ sscale * sbase <= SqrtScale /\ UNCHANGED <<D, sbase>>
          /\ sscale' = sscale * sbase
          /\ P' = SQ!After(sbase, SQ!Live).P /\ R' = SQ!After(sbase, SQ!Live).R
      BY <1>1 DEF SQ!Step
    <2>2. SQ!Live = [P |-> P, R |-> R]
      BY DEF SQ!Live
    <2>3. Rooted(D, sscale, P, R)
      BY DEF SqrtInv, Rooted
    <2>4. Rooted(D, sscale * sbase, P', R')
      BY <2>1, <2>2, <2>3, SqrtKnown, SqrtStepRoots DEF SqrtInv, SqrtFits, SqrtConstants
    <2>5. sscale * sbase \in Nat \ {0}
      BY SqrtKnown DEF SqrtInv, SqrtConstants
    <2> QED
      BY <2>1, <2>4, <2>5 DEF SqrtInv, Rooted
  <1>2. CASE \E b \in SqrtBases : SQ!InBase(b)
    BY <1>2 DEF SQ!InBase, SqrtInv
  <1>3. CASE UNCHANGED sqrt
    BY <1>3 DEF sqrt, SqrtInv
  <1> QED
    BY <1>1, <1>2, <1>3 DEF SQ!Next

\* What the invariant says of P and R.
LEMMA SqrtPromises == SqrtInv => SQ!RootExact /\ SQ!RemainderExact
  BY DEF SqrtInv, RootOf, SQ!RootExact, SQ!RemainderExact

-----------------------------------------------------------------------------
(* Reprojection *)

\* A sequence of n digits below b.
Spelling(n, b, digits) == digits \in Seq(Nat) /\ Len(digits) = n
                          /\ \A k \in 1..n : digits[k] < b

\* value[k] is the integer that the first k digits spell.
Spells(value, n, b, digits) ==
    /\ value \in [0..n -> Nat] /\ value[0] = 0
    /\ \A k \in 0..(n - 1) : value[k + 1] = value[k] * b + digits[k + 1]

\* A function on the first n places is a sequence of n digits.
LEMMA ASpelling ==
    ASSUME NEW n \in Nat, NEW b, NEW f \in [1..n -> Nat], \A k \in 1..n : f[k] < b
    PROVE  Spelling(n, b, f)
  <1>1. f \in Seq(Nat)
    OBVIOUS
  <1>2. Len(f) \in Nat /\ DOMAIN f = 1..Len(f)
    BY <1>1, LenProperties
  <1>3. 1..Len(f) = 1..n
    BY <1>2
  <1>4. Len(f) = n
    BY <1>2, <1>3
  <1> QED
    BY <1>1, <1>4 DEF Spelling

\* The recursive definition of Spelled defines it, place after place.
LEMMA SpelledIs ==
    ASSUME NEW n \in Nat, NEW b \in Nat, NEW digits, Spelling(n, b, digits)
    PROVE  \E value : Spells(value, n, b, digits) /\ Spelled(digits, b) = value[n]
  <1> DEFINE A == Nat
             F == [k \in Nat |-> [a \in A |-> IF k < n THEN a * b + digits[k + 1] ELSE a]]
             Is(f) == f = [k \in 0..Len(digits) |->
                              IF k = 0 THEN 0 ELSE f[k - 1] * b + digits[k]]
             at == CHOOSE f : Is(f)
  <1>1. Len(digits) = n /\ \A k \in 1..n : digits[k] \in Nat
    BY DEF Spelling
  <1>2. F \in [Nat -> [A -> A]]
    <2>1. ASSUME NEW k \in Nat, NEW a \in Nat, k < n PROVE a * b + digits[k + 1] \in Nat
      <3>1. k + 1 \in 1..n
        BY <2>1
      <3>2. digits[k + 1] \in Nat
        BY <1>1, <3>1
      <3>3. a * b \in Nat
        OBVIOUS
      <3> QED
        BY <3>2, <3>3
    <2> QED
      BY <2>1
  <1>3. PICK g \in [Nat -> A] : Runs(g, 0, F)
    <2> HIDE DEF F
    <2> QED
      BY <1>2, PrimitiveRecursion
  <1> DEFINE h == [k \in 0..n |-> g[k]]
  <1>4. g[0] = 0 /\ \A k \in Nat : k < n => g[k + 1] = g[k] * b + digits[k + 1]
    BY <1>3 DEF Runs
  <1>5. Is(h)
    <2>1. ASSUME NEW k \in 0..n, k # 0 PROVE g[k] = g[k - 1] * b + digits[k]
      <3>1. k - 1 \in Nat /\ k - 1 < n /\ (k - 1) + 1 = k
        BY <2>1
      <3> QED
        BY <1>4, <3>1
    <2>2. ASSUME NEW k \in 0..n
          PROVE  g[k] = IF k = 0 THEN 0 ELSE h[k - 1] * b + digits[k]
      <3>1. k # 0 => k - 1 \in 0..n
        BY <2>2
      <3> QED
        BY <1>4, <2>1, <3>1
    <2> QED
      BY <1>1, <2>2
  <1>6. Is(at)
    <2> HIDE DEF Is, h
    <2> QED
      BY <1>5
  <1> HIDE DEF at, h
  <1>7. \A k \in 0..n : at[k] = IF k = 0 THEN 0 ELSE at[k - 1] * b + digits[k]
    BY <1>1, <1>6
  <1>8. at[0] = 0
    <2>1. 0 \in 0..n
      OBVIOUS
    <2> QED
      BY <1>7, <2>1
  <1>9. ASSUME NEW k \in 0..(n - 1) PROVE at[k + 1] = at[k] * b + digits[k + 1]
    <2>1. k + 1 \in 0..n /\ k + 1 # 0 /\ (k + 1) - 1 = k
      BY <1>9
    <2> QED
      BY <1>7, <2>1
  <1> DEFINE S == {k \in Nat : at[k] \in Nat}
  <1>10. 0 \in S
    BY <1>8
  <1>11. ASSUME NEW k \in Nat, k < n, k \in S PROVE k + 1 \in S
    <2> DEFINE j == k + 1
    <2>0. j \in 1..n
      BY <1>11
    <2>1. k \in 0..(n - 1) /\ digits[j] \in Nat /\ at[k] \in Nat
      <3> HIDE DEF j
      <3>1. digits[j] \in Nat
        BY <1>1, <2>0
      <3>2. at[k] \in Nat
        BY <1>11
      <3>3. k \in 0..(n - 1)
        BY <1>11
      <3> QED
        BY <3>1, <3>2, <3>3
    <2>2. at[k] * b + digits[k + 1] \in Nat
      BY <2>1
    <2> QED
      BY <1>9, <2>1, <2>2
  <1>12. \A k \in 0..n : k \in S
    <2> HIDE DEF S
    <2> QED
      BY <1>10, <1>11, BoundedInduction
  <1>13. Spells(at, n, b, digits)
    <2>1. at \in [0..n -> Nat]
      <3>1. DOMAIN at = 0..n /\ at = [k \in DOMAIN at |-> at[k]]
        BY <1>1, <1>6
      <3> QED
        BY <1>12, <3>1
    <2> QED
      BY <1>8, <1>9, <2>1 DEF Spells
  <1>14. Spelled(digits, b) = at[n]
    BY <1>1 DEF Spelled, at
  <1> QED
    BY <1>13, <1>14

\* The powers a reprojection needs.
PowersOf(b, n) == b^0 = 1 /\ \A k \in 0..(n - 1) : b^(k + 1) = b^k * b

\* Powers are positive, and the last is the largest.
LEMMA PowersAre ==
    ASSUME NEW b \in Nat \ {0}, NEW n \in Nat, PowersOf(b, n)
    PROVE  /\ \A k \in 0..n : b^k \in Nat \ {0}
           /\ \A k \in 0..n : b^k <= b^n
  <1> DEFINE S == {k \in Nat : b^k \in Nat \ {0}}
  <1>1. 0 \in S
    BY DEF PowersOf
  <1>2. ASSUME NEW k \in Nat, k < n, k \in S PROVE k + 1 \in S
    <2> DEFINE w == b^k
    <2>1. b^(k + 1) = w * b /\ w \in Nat \ {0}
      BY <1>2 DEF PowersOf
    <2> HIDE DEF w
    <2>2. w * b \in Nat \ {0}
      BY <2>1
    <2> QED
      BY <2>1, <2>2
  <1>3. \A k \in 0..n : k \in S
    <2> HIDE DEF S
    <2> QED
      BY <1>1, <1>2, BoundedInduction
  <1> DEFINE U == {j \in Nat : j <= n => b^(n - j) <= b^n}
  <1>4. 0 \in U
    <2>1. b^n \in Nat
      BY <1>3
    <2> QED
      BY <2>1
  <1>5. ASSUME NEW j \in Nat, j \in U PROVE j + 1 \in U
    <2> SUFFICES ASSUME j + 1 <= n PROVE b^(n - (j + 1)) <= b^n
      OBVIOUS
    <2> DEFINE k == n - (j + 1)
               v == b^k
               w == b^(k + 1)
    <2>1. k \in 0..(n - 1) /\ k + 1 = n - j
      BY <1>5
    <2> HIDE DEF k
    <2>2. k \in 0..n /\ k + 1 \in 0..n /\ n \in 0..n
      BY <2>1
    <2>3. v \in Nat /\ w \in Nat /\ b^n \in Nat
      BY <1>3, <2>2
    <2>4. w = v * b
      BY <2>1 DEF PowersOf
    <2>5. w <= b^n
      BY <1>5, <2>1
    <2> HIDE DEF v, w
    <2>6. v <= v * b
      BY <2>3
    <2>7. v <= b^n
      <3> DEFINE top == b^n
      <3> HIDE DEF top
      <3> QED
        BY <2>3, <2>4, <2>5, <2>6 DEF top
    <2> QED
      BY <2>7 DEF v, k
  <1>6. \A j \in Nat : j \in U
    <2> HIDE DEF U
    <2> QED
      BY <1>4, <1>5, SetInduction
  <1>7. ASSUME NEW k \in 0..n PROVE b^k <= b^n
    <2>1. n - k \in Nat /\ n - k <= n /\ n - (n - k) = k
      BY <1>7
    <2> QED
      BY <1>6, <2>1
  <1> QED
    BY <1>3, <1>7

\* Digits spell less than the weight of the place above them.
LEMMA SpelledBelow ==
    ASSUME NEW n \in Nat, NEW b \in Nat \ {0}, PowersOf(b, n),
           NEW digits, Spelling(n, b, digits), NEW value, Spells(value, n, b, digits)
    PROVE  \A k \in 0..n : value[k] \in Nat /\ value[k] < b^k
  <1> DEFINE S == {k \in Nat : value[k] \in Nat /\ value[k] < b^k}
  <1>1. 0 \in S
    BY DEF Spells, PowersOf
  <1>2. ASSUME NEW k \in Nat, k < n, k \in S PROVE k + 1 \in S
    <2> DEFINE v == value[k]
               w == b^k
               d == digits[k + 1]
    <2>1. k \in 0..(n - 1) /\ k \in 0..n /\ k + 1 \in 1..n
      BY <1>2
    <2>2. w \in Nat
      BY <2>1, PowersAre
    <2>3. d \in Nat /\ d < b
      BY <2>1 DEF Spelling
    <2>4. v \in Nat /\ v < w /\ value[k + 1] = v * b + d /\ b^(k + 1) = w * b
      BY <1>2, <2>1 DEF Spells, PowersOf
    <2> HIDE DEF v, w, d
    <2>5. v + 1 <= w
      BY <2>2, <2>4
    <2>6. (v + 1) * b <= w * b /\ (v + 1) * b = v * b + b
      BY <2>2, <2>4, <2>5
    <2>7. v * b + d \in Nat /\ v * b + d < w * b
      <3>1. v * b \in Nat /\ w * b \in Nat
        BY <2>2, <2>4
      <3> QED
        BY <2>3, <2>6, <3>1
    <2> QED
      BY <2>4, <2>7
  <1>3. \A k \in 0..n : k \in S
    <2> HIDE DEF S
    <2> QED
      BY <1>1, <1>2, BoundedInduction
  <1> QED
    BY <1>3

\* Its walk stays among its remainders.
LEMMA FreeWalk ==
    ASSUME NEW b, NEW q, Fitting(b, q), NEW s \in Remainders(q)
    PROVE  /\ Stepped(b, s, 0) = s
           /\ \A n \in Nat : /\ Stepped(b, s, n) \in Remainders(q)
                             /\ Stepped(b, s, n + 1) = After(b, Stepped(b, s, n))
  <1> DEFINE A == Remainders(q)
             Is(f) == f = [k \in Nat |-> IF k = 0 THEN s ELSE After(b, f[k - 1])]
             F == [t \in A |-> After(b, t)]
             at == CHOOSE f : Is(f)
  <1>1. F \in [A -> A]
    BY FreeStep
  <1>2. PICK g \in [Nat -> A] : g[0] = s /\ Orbit(g, F)
    <2> HIDE DEF A, F
    <2>1. s \in A
      BY DEF A
    <2> QED
      BY <1>1, <2>1, Iteration
  <1>3. \A n \in Nat : g[n + 1] = After(b, g[n])
    <2> SUFFICES ASSUME NEW n \in Nat PROVE g[n + 1] = After(b, g[n])
      OBVIOUS
    <2>1. g[n] \in A /\ g[n + 1] = F[g[n]]
      BY <1>2 DEF Orbit
    <2> QED
      BY <2>1
  <1>4. Is(g)
    <2>1. ASSUME NEW k \in Nat
          PROVE  g[k] = IF k = 0 THEN s ELSE After(b, g[k - 1])
      <3>1. CASE k = 0
        BY <1>2, <3>1
      <3>2. CASE k # 0
        <4>1. k - 1 \in Nat /\ (k - 1) + 1 = k
          BY <3>2
        <4>2. g[(k - 1) + 1] = After(b, g[k - 1])
          BY <1>3, <4>1
        <4> QED
          BY <3>2, <4>1, <4>2
      <3> QED
        BY <3>1, <3>2
    <2> QED
      BY <2>1, <1>2
  <1>5. Is(at)
    BY <1>4
  <1> HIDE DEF at
  <1>6. \A k \in Nat : at[k] = IF k = 0 THEN s ELSE After(b, at[k - 1])
    BY <1>5
  <1>7. at[0] = s /\ \A n \in Nat : at[n + 1] = After(b, at[n])
    <2>1. at[0] = s
      BY <1>6
    <2>2. ASSUME NEW n \in Nat PROVE at[n + 1] = After(b, at[n])
      <3>1. n + 1 \in Nat /\ n + 1 # 0 /\ (n + 1) - 1 = n
        OBVIOUS
      <3> QED
        BY <1>6, <3>1
    <2> QED
      BY <2>1, <2>2
  <1>8. \A n \in Nat : Stepped(b, s, n) = at[n]
    BY DEF Stepped, at
  <1> DEFINE S == {n \in Nat : at[n] \in A}
  <1>9. 0 \in S
    BY <1>7
  <1>10. ASSUME NEW n \in Nat, n \in S PROVE n + 1 \in S
    BY <1>7, <1>10, FreeStep
  <1>11. \A n \in Nat : n \in S
    <2> HIDE DEF S
    <2> QED
      BY <1>9, <1>10, SetInduction
  <1> QED
    BY <1>7, <1>8, <1>11

\* The digits of a fraction s in base b.
Expansion(b, s, n) == [k \in 1..n |-> Digit(b, Stepped(b, s, k - 1))]

\* Its digits are digits of the base.
LEMMA ExpansionSpells ==
    ASSUME NEW b, NEW q, Fitting(b, q), NEW s \in Remainders(q), NEW n \in Nat
    PROVE  /\ Spelling(n, b, Expansion(b, s, n))
           /\ \A k \in 0..(n - 1) :
                  Expansion(b, s, n)[k + 1] = Digit(b, Stepped(b, s, k))
  <1>1. ASSUME NEW k \in 1..n
        PROVE  LET d == Digit(b, Stepped(b, s, k - 1)) IN d \in Nat /\ d < b
    <2>1. k - 1 \in Nat
      BY <1>1
    <2>2. Stepped(b, s, k - 1) \in Remainders(q)
      BY <2>1, FreeWalk
    <2> QED
      BY <2>2, FreeStep
  <1> DEFINE f == Expansion(b, s, n)
  <1>2. f \in [1..n -> Nat] /\ \A k \in 1..n : f[k] < b
    BY <1>1 DEF Expansion
  <1>3. Spelling(n, b, f)
    <2> HIDE DEF f
    <2> QED
      BY <1>2, ASpelling
  <1>4. ASSUME NEW k \in 0..(n - 1) PROVE f[k + 1] = Digit(b, Stepped(b, s, k))
    <2>1. k + 1 \in 1..n /\ (k + 1) - 1 = k
      BY <1>4
    <2> QED
      BY <2>1 DEF Expansion
  <1> QED
    BY <1>3, <1>4

\* Long division: the digits gone by and the remainder make up the fraction.
LEMMA ExpansionDivides ==
    ASSUME NEW b, NEW q, Fitting(b, q), NEW s \in Remainders(q), NEW n \in Nat,
           PowersOf(b, n), NEW value, Spells(value, n, b, Expansion(b, s, n))
    PROVE  \A k \in 0..n : /\ value[k] \in Nat
                           /\ Parts(s.r, q, b^k, value[k], Stepped(b, s, k).r)
  <1> DEFINE S == {k \in Nat : /\ value[k] \in Nat
                               /\ Parts(s.r, q, b^k, value[k], Stepped(b, s, k).r)}
  <1>1. b \in Nat \ {0} /\ q \in Nat \ {0} /\ s.r \in Nat
    BY DEF Fitting, Remainders
  <1>2. 0 \in S
    <2>1. Stepped(b, s, 0) = s
      BY FreeWalk
    <2>2. value[0] = 0 /\ b^0 = 1
      BY DEF Spells, PowersOf
    <2>3. s.r * 1 = 0 * q + s.r
      BY <1>1
    <2> QED
      BY <2>1, <2>2, <2>3 DEF Parts
  <1>3. ASSUME NEW k \in Nat, k < n, k \in S PROVE k + 1 \in S
    <2> DEFINE t == Stepped(b, s, k)
               u == Stepped(b, s, k + 1)
               d == Digit(b, t)
               v == value[k]
               w == b^k
               r == s.r
    <2>1. k \in 0..(n - 1) /\ k \in 0..n
      BY <1>3
    <2>2. t \in Remainders(q) /\ u = After(b, t)
      BY FreeWalk
    <2>3. d \in Nat /\ u \in Remainders(q) /\ t.r * b = d * q + u.r
      <3> HIDE DEF t
      <3> QED
        BY <2>2, FreeStep
    <2>4. value[k + 1] = v * b + d /\ b^(k + 1) = w * b
      BY <2>1, ExpansionSpells DEF Spells, PowersOf
    <2>5. w \in Nat
      BY <1>1, <2>1, PowersAre
    <2>6. v \in Nat /\ r * w = v * q + t.r
      BY <1>3 DEF Parts
    <2> DEFINE rest == t.r
               left == u.r
    <2>7. rest \in Nat /\ left \in Nat
      BY <2>2, <2>3 DEF Remainders
    <2>8. rest * b = d * q + left /\ r * w = v * q + rest
      BY <2>3, <2>6
    <2> HIDE DEF t, u, d, v, w, r, rest, left
    <2>9. r * (w * b) = (v * b + d) * q + left
      <3>1. r \in Nat /\ b \in Nat /\ q \in Nat
        BY <1>1 DEF r
      <3>2. r * (w * b) = (r * w) * b
        BY <2>5, <3>1
      <3>3. (v * q + rest) * b = (v * b) * q + rest * b
        BY <2>6, <2>7, <3>1
      <3>4. (v * b + d) * q = (v * b) * q + d * q
        BY <2>3, <2>6, <3>1
      <3>5. (v * b) * q \in Nat /\ d * q \in Nat /\ rest * b \in Nat
        BY <2>3, <2>6, <2>7, <3>1
      <3> QED
        BY <2>7, <2>8, <3>2, <3>3, <3>4, <3>5
    <2>10. v * b + d \in Nat
      BY <1>1, <2>3, <2>6
    <2> QED
      BY <2>4, <2>9, <2>10 DEF Parts, r, left, u
  <1>4. \A k \in 0..n : k \in S
    <2> HIDE DEF S
    <2> QED
      BY <1>2, <1>3, BoundedInduction
  <1> QED
    BY <1>4

\* The numerator and the denominator gathered from the digits are the integer
\* they spell and the weight of the place above them, when that fits a word.
LEMMA GatheredIs ==
    ASSUME NEW b \in Nat \ {0}, NEW n \in Nat, PowersOf(b, n), b^n < Word,
           NEW digits, Spelling(n, b, digits), NEW value, Spells(value, n, b, digits)
    PROVE  Gathered(digits, b) = [p |-> value[n], q |-> b^n]
  <1> USE RationalAssumption
  <1> DEFINE Is(f) == f = [k \in 0..Len(digits) |->
                              IF k = 0 THEN [p |-> 0, q |-> 1]
                              ELSE [p |-> (f[k - 1].p * b + digits[k]) % Word,
                                    q |-> (f[k - 1].q * b) % Word]]
             at == CHOOSE f : Is(f)
             h == [k \in 0..n |-> [p |-> value[k], q |-> b^k]]
  <1>1. Len(digits) = n /\ \A k \in 1..n : digits[k] \in Nat
    BY DEF Spelling
  <1>2. ASSUME NEW k \in 0..n
        PROVE  /\ value[k] \in Nat /\ b^k \in Nat /\ value[k] < b^k /\ b^k < Word
               /\ value[k] % Word = value[k] /\ (b^k) % Word = b^k
    <2> DEFINE v == value[k]
               w == b^k
               top == b^n
    <2>1. v \in Nat /\ v < w
      BY SpelledBelow
    <2>2. w \in Nat /\ w <= top /\ top \in Nat /\ top < Word
      <3>1. n \in 0..n
        OBVIOUS
      <3> QED
        BY <3>1, PowersAre
    <2> HIDE DEF v, w, top
    <2>3. v < Word /\ w < Word /\ Word \in Nat \ {0}
      BY <2>1, <2>2
    <2>4. v % Word = v /\ w % Word = w
      BY <2>1, <2>2, <2>3, ModSmall
    <2> QED
      BY <2>1, <2>2, <2>3, <2>4 DEF v, w
  <1>3. ASSUME NEW k \in 1..n
        PROVE  /\ k - 1 \in 0..n /\ value[k] = value[k - 1] * b + digits[k]
               /\ b^k = b^(k - 1) * b
    <2> DEFINE j == k - 1
    <2>1. j \in 0..(n - 1) /\ j \in 0..n /\ j + 1 = k
      OBVIOUS
    <2> HIDE DEF j
    <2>2. value[j + 1] = value[j] * b + digits[j + 1] /\ b^(j + 1) = b^j * b
      BY <2>1 DEF Spells, PowersOf
    <2> QED
      BY <2>1, <2>2 DEF j
  <1>4. value[0] = 0 /\ b^0 = 1
    BY DEF Spells, PowersOf
  <1>5. Is(h)
    <2>1. ASSUME NEW k \in 0..n
          PROVE  h[k] = IF k = 0 THEN [p |-> 0, q |-> 1]
                        ELSE [p |-> (h[k - 1].p * b + digits[k]) % Word,
                              q |-> (h[k - 1].q * b) % Word]
      <3>1. CASE k = 0
        BY <1>4, <3>1
      <3>2. CASE k # 0
        <4>1. k \in 1..n
          BY <3>2
        <4>2. h[k - 1] = [p |-> value[k - 1], q |-> b^(k - 1)]
          BY <1>3, <4>1
        <4>3. h[k] = [p |-> value[k] % Word, q |-> (b^k) % Word]
          BY <1>2
        <4> QED
          BY <1>3, <3>2, <4>1, <4>2, <4>3
      <3> QED
        BY <3>1, <3>2
    <2> QED
      BY <1>1, <2>1
  <1>6. Is(at)
    <2> HIDE DEF Is, h
    <2> QED
      BY <1>5
  <1> HIDE DEF at
  <1>7. \A k \in 0..n : at[k] = IF k = 0 THEN [p |-> 0, q |-> 1]
                                ELSE [p |-> (at[k - 1].p * b + digits[k]) % Word,
                                      q |-> (at[k - 1].q * b) % Word]
    BY <1>1, <1>6
  <1> DEFINE S == {k \in Nat : at[k] = [p |-> value[k], q |-> b^k]}
  <1>8. 0 \in S
    <2>1. 0 \in 0..n
      OBVIOUS
    <2> QED
      BY <1>4, <1>7, <2>1
  <1>9. ASSUME NEW k \in Nat, k < n, k \in S PROVE k + 1 \in S
    <2> DEFINE j == k + 1
    <2>1. j \in 1..n /\ j \in 0..n /\ j - 1 = k /\ j # 0 /\ j \in Nat
      BY <1>9
    <2> HIDE DEF j
    <2>2. at[j - 1] = [p |-> value[k], q |-> b^k]
      BY <1>9, <2>1
    <2>3. at[j] = [p |-> (value[k] * b + digits[j]) % Word, q |-> (b^k * b) % Word]
      BY <1>7, <2>1, <2>2
    <2>4. value[j] = value[k] * b + digits[j] /\ b^j = b^k * b
      BY <1>3, <2>1
    <2>5. at[j] = [p |-> value[j] % Word, q |-> (b^j) % Word]
      BY <2>3, <2>4
    <2>6. at[j] = [p |-> value[j], q |-> b^j]
      BY <1>2, <2>1, <2>5
    <2> QED
      BY <2>1, <2>6 DEF j
  <1>10. \A k \in 0..n : k \in S
    <2> HIDE DEF S
    <2> QED
      BY <1>8, <1>9, BoundedInduction
  <1>11. Gathered(digits, b) = at[n]
    BY <1>1 DEF Gathered, at
  <1>12. at[n] = [p |-> value[n], q |-> b^n]
    <2>1. n \in 0..n
      OBVIOUS
    <2> QED
      BY <1>10, <2>1
  <1> QED
    BY <1>11, <1>12

\* The new digits spell the largest integer no bigger than the fraction they
\* are digits of, in units of their last place.
LEMMA ReprojectedTrue ==
    ASSUME NEW b \in Nat \ {0}, NEW n \in Nat, PowersOf(b, n), b^n < Word,
           NEW digits, Spelling(n, b, digits), NEW t \in Nat \ {0}, NEW m \in Nat,
           PowersOf(t, m), b^n * t < Word
    PROVE  LET new == Reprojected(digits, b, t, m)
               out == Spelled(new, t)
               all == Spelled(digits, b)
           IN /\ Len(new) = m
              /\ out \in Nat /\ all \in Nat /\ all < b^n
              /\ out * b^n <= all * t^m /\ all * t^m < (out + 1) * b^n
  <1> DEFINE cut == b^n
             weight == t^m
             new == Reprojected(digits, b, t, m)
             all == Spelled(digits, b)
             out == Spelled(new, t)
             s == [r |-> all, q |-> cut]
  <1>1. PICK value : Spells(value, n, b, digits) /\ all = value[n]
    BY SpelledIs
  <1>2. n \in 0..n /\ m \in 0..m
    OBVIOUS
  <1>3. all \in Nat /\ all < cut /\ cut \in Nat \ {0} /\ weight \in Nat
    BY <1>1, <1>2, SpelledBelow, PowersAre
  <1>4. Gathered(digits, b) = [p |-> all, q |-> cut]
    BY <1>1, GatheredIs
  <1> HIDE DEF all, cut, weight
  <1>5. MakeState(Gathered(digits, b)) = s
    BY <1>3, <1>4, ModSmall DEF MakeState
  <1>6. new = Expansion(t, s, m)
    BY <1>5 DEF Reprojected, Expansion
  <1>7. Fitting(t, cut) /\ s \in Remainders(cut)
    BY <1>3 DEF Fitting, Remainders, cut
  <1> HIDE DEF s
  <1>8. Spelling(m, t, Expansion(t, s, m))
    BY <1>7, ExpansionSpells
  <1>9. PICK spelt : Spells(spelt, m, t, Expansion(t, s, m)) /\ out = spelt[m]
    BY <1>6, <1>8, SpelledIs
  <1> HIDE DEF new, out
  <1>10. out \in Nat /\ Parts(s.r, cut, weight, out, Stepped(t, s, m).r)
    BY <1>2, <1>7, <1>9, ExpansionDivides DEF weight
  <1> DEFINE left == Stepped(t, s, m).r
  <1>11. left \in Nat /\ left < cut
    <2>1. Stepped(t, s, m) \in Remainders(cut)
      BY <1>7, FreeWalk
    <2> QED
      BY <1>3, <2>1 DEF Remainders
  <1>12. all * weight = out * cut + left
    BY <1>10 DEF Parts, s
  <1> HIDE DEF left
  <1>13. out * cut <= all * weight /\ all * weight < (out + 1) * cut
    <2>1. (out + 1) * cut = out * cut + cut /\ out * cut \in Nat
      BY <1>3, <1>10
    <2> QED
      BY <1>3, <1>11, <1>12, <2>1
  <1>14. Len(new) = m
    BY <1>6, <1>8 DEF Spelling
  <1> QED
    BY <1>3, <1>10, <1>13, <1>14 DEF new, out, all, cut, weight

\* The digits of a root from a state s on.
RootExpansion(b, s, n) == [k \in 1..n |-> SQ!Digit(b, SQ!Stepped(b, s, k - 1))]
\* The registers of the square-root machine.
RootStates == [P : Nat, R : Nat]

\* mul_small yields a natural whatever wraps around.
LEMMA MulSmallType ==
    ASSUME NEW n \in Nat, NEW f \in Nat
    PROVE  SQ!MulSmall(n, f) \in Nat
  <1> DEFINE H == SqrtHalf
             S == SQ!Single
             p0 == (((n % S) % H) * f) % S
             p1 == (((n % S) \div H) * f) % S
             low == (p0 + p1 * H) % S
             carry == IF low < p0 THEN 1 ELSE 0
             top == (p1 \div H + carry + (n \div S) * f) % S
  <1>1. H \in Nat \ {0} /\ S \in Nat \ {0}
    <2>1. H \in Nat \ {0}
      BY SqrtKnown DEF SqrtConstants
    <2> HIDE DEF H
    <2>2. H * H \in Nat \ {0}
      BY <2>1
    <2> QED
      BY <2>1, <2>2 DEF SQ!Single, H
  <1> HIDE DEF H, S
  <1>2. ASSUME NEW m \in Nat, NEW d \in Nat \ {0}
        PROVE  m % d \in Nat /\ m \div d \in Nat
    BY LongDivision
  <1>3. p0 \in Nat /\ p1 \in Nat
    <2>1. n % S \in Nat
      BY <1>1, <1>2
    <2> DEFINE lo == n % S
    <2> HIDE DEF lo
    <2>2. lo % H \in Nat /\ lo \div H \in Nat
      BY <1>1, <1>2, <2>1 DEF lo
    <2>3. (lo % H) * f \in Nat /\ (lo \div H) * f \in Nat
      BY <2>2
    <2> DEFINE y == (lo % H) * f
               z == (lo \div H) * f
    <2> HIDE DEF y, z
    <2>4. y % S \in Nat /\ z % S \in Nat
      BY <1>1, <1>2, <2>3 DEF y, z
    <2> QED
      BY <2>4 DEF y, z, lo
  <1> HIDE DEF p0, p1
  <1>4. low \in Nat
    <2> DEFINE y == p0 + p1 * H
    <2>1. y \in Nat
      BY <1>1, <1>3
    <2> HIDE DEF y
    <2>2. y % S \in Nat
      BY <1>1, <1>2, <2>1
    <2> QED
      BY <2>2 DEF y
  <1>5. carry \in Nat
    OBVIOUS
  <1> HIDE DEF low, carry
  <1>6. top \in Nat
    <2>1. p1 \div H \in Nat /\ n \div S \in Nat
      BY <1>1, <1>2, <1>3
    <2> DEFINE y == p1 \div H + carry + (n \div S) * f
    <2>2. y \in Nat
      BY <1>5, <2>1
    <2> HIDE DEF y
    <2>3. y % S \in Nat
      BY <1>1, <1>2, <2>2
    <2> QED
      BY <2>3 DEF y
  <1> HIDE DEF top
  <1>7. SQ!MulSmall(n, f) = top * S + low
    BY DEF SQ!MulSmall, top, carry, low, p0, p1, S, H
  <1> QED
    BY <1>1, <1>4, <1>6, <1>7

\* The registers stay naturals whatever wraps around.
LEMMA RootAfterType ==
    ASSUME NEW b \in SqrtBases, NEW s \in RootStates
    PROVE  SQ!After(b, s) \in RootStates
  <1> DEFINE x == SQ!Digit(b, s)
             S == SQ!Single
             Q == SQ!Double
             u == SQ!BroughtDown(b, s)
             v == SQ!Taken(b, s, x)
             w == s.P * b + x
  <1>1. /\ b \in Nat /\ s.P \in Nat /\ s.R \in Nat /\ x \in Nat
        /\ S \in Nat \ {0} /\ Q \in Nat \ {0}
    <2> DEFINE H == SqrtHalf
    <2>1. H \in Nat \ {0}
      BY SqrtKnown DEF SqrtConstants
    <2> HIDE DEF H
    <2>2. H * H \in Nat \ {0}
      BY <2>1
    <2>3. S \in Nat \ {0}
      BY <2>2 DEF SQ!Single, H
    <2> HIDE DEF S
    <2>4. S * S \in Nat \ {0}
      BY <2>3
    <2>5. Q \in Nat \ {0}
      BY <2>4 DEF SQ!Double, S
    <2>6. b \in Nat /\ s.P \in Nat /\ s.R \in Nat
      BY SqrtKnown DEF SqrtConstants, RootStates
    <2> QED
      BY <2>3, <2>5, <2>6, SqrtDigitIs
  <1> HIDE DEF x, S, Q
  <1>2. w \in Nat
    BY <1>1
  <1>3. u \in Nat
    <2>1. b * b \in Nat
      BY <1>1
    <2> DEFINE bb == b * b
    <2> HIDE DEF bb
    <2>2. SQ!MulSmall(s.R, bb) \in Nat
      BY <1>1, <2>1, MulSmallType DEF bb
    <2> QED
      BY <2>2 DEF SQ!BroughtDown, bb
  <1>4. v \in Nat
    <2> DEFINE y == 2 * s.P * b
    <2>1. y \in Nat
      BY <1>1
    <2> HIDE DEF y
    <2>2. y % S \in Nat
      BY <1>1, <2>1, LongDivision
    <2> DEFINE z == (y % S) + x
    <2>3. z \in Nat
      BY <1>1, <2>2
    <2> HIDE DEF z
    <2>4. z % S \in Nat
      BY <1>1, <2>3, LongDivision
    <2> DEFINE m == z % S
    <2> HIDE DEF m
    <2>5. SQ!MulSmall(m, x) \in Nat
      BY <1>1, <2>4, MulSmallType DEF m
    <2> QED
      BY <2>5 DEF SQ!Taken, m, z, y, S
  <1> HIDE DEF u, v, w
  <1>5. SQ!Minus(u, v) \in Nat
    <2> DEFINE y == u - v
    <2>1. y \in Int
      BY <1>3, <1>4
    <2> HIDE DEF y
    <2>2. y % Q \in 0..(Q - 1)
      BY <1>1, <2>1
    <2>3. y % Q \in Nat
      BY <1>1, <2>2
    <2> QED
      BY <2>3 DEF SQ!Minus, y, Q
  <1>6. w % S \in Nat
    BY <1>1, <1>2, LongDivision
  <1>7. SQ!After(b, s) = [P |-> w % S, R |-> SQ!Minus(u, v)]
    BY DEF SQ!After, w, u, v, x, S
  <1> QED
    BY <1>5, <1>6, <1>7 DEF RootStates

\* The walk from a state: where it stands after any number of steps.
LEMMA RootWalk ==
    ASSUME NEW b \in SqrtBases, NEW s \in RootStates
    PROVE  /\ SQ!Stepped(b, s, 0) = s
           /\ \A n \in Nat :
                 /\ SQ!Stepped(b, s, n) \in RootStates
                 /\ SQ!Stepped(b, s, n + 1) = SQ!After(b, SQ!Stepped(b, s, n))
  <1> DEFINE A == RootStates
             Is(f) == f = [k \in Nat |-> IF k = 0 THEN s ELSE SQ!After(b, f[k - 1])]
             F == [t \in A |-> SQ!After(b, t)]
             at == CHOOSE f : Is(f)
  <1>1. F \in [A -> A]
    BY RootAfterType
  <1>2. PICK g \in [Nat -> A] : g[0] = s /\ Orbit(g, F)
    <2> HIDE DEF A, F
    <2>1. s \in A
      BY DEF A
    <2> QED
      BY <1>1, <2>1, Iteration
  <1>3. \A n \in Nat : g[n + 1] = SQ!After(b, g[n])
    <2> SUFFICES ASSUME NEW n \in Nat PROVE g[n + 1] = SQ!After(b, g[n])
      OBVIOUS
    <2>1. g[n] \in A /\ g[n + 1] = F[g[n]]
      BY <1>2 DEF Orbit
    <2> QED
      BY <2>1
  <1>4. Is(g)
    <2>1. ASSUME NEW k \in Nat
          PROVE  g[k] = IF k = 0 THEN s ELSE SQ!After(b, g[k - 1])
      <3>1. CASE k = 0
        BY <1>2, <3>1
      <3>2. CASE k # 0
        <4>1. k - 1 \in Nat /\ (k - 1) + 1 = k
          BY <3>2
        <4>2. g[(k - 1) + 1] = SQ!After(b, g[k - 1])
          BY <1>3, <4>1
        <4> QED
          BY <3>2, <4>1, <4>2
      <3> QED
        BY <3>1, <3>2
    <2> QED
      BY <2>1, <1>2
  <1>5. Is(at)
    BY <1>4
  <1> HIDE DEF at
  <1>6. \A k \in Nat : at[k] = IF k = 0 THEN s ELSE SQ!After(b, at[k - 1])
    BY <1>5
  <1>7. at[0] = s /\ \A n \in Nat : at[n + 1] = SQ!After(b, at[n])
    <2>1. at[0] = s
      BY <1>6
    <2>2. ASSUME NEW n \in Nat PROVE at[n + 1] = SQ!After(b, at[n])
      <3>1. n + 1 \in Nat /\ n + 1 # 0 /\ (n + 1) - 1 = n
        OBVIOUS
      <3> QED
        BY <1>6, <3>1
    <2> QED
      BY <2>1, <2>2
  <1>8. \A n \in Nat : SQ!Stepped(b, s, n) = at[n]
    BY DEF SQ!Stepped, at
  <1> DEFINE I == {n \in Nat : at[n] \in A}
  <1>9. 0 \in I
    BY <1>7
  <1>10. ASSUME NEW n \in Nat, n \in I PROVE n + 1 \in I
    BY <1>7, <1>10, RootAfterType
  <1>11. \A n \in Nat : n \in I
    <2> HIDE DEF I
    <2> QED
      BY <1>9, <1>10, SetInduction
  <1> QED
    BY <1>7, <1>8, <1>11

\* Digits of a root spell what the prefix grows by.
LEMMA RootExpansionIs ==
    ASSUME NEW M \in Nat, WideEnough(M), NEW d \in Radicands, NEW b \in SqrtBases,
           NEW c \in Nat \ {0}, NEW s \in RootStates, Rooted(d, c, s.P, s.R),
           NEW n \in Nat, PowersOf(b, n), c * b^n <= M
    PROVE  LET digits == RootExpansion(b, s, n)
           IN /\ Spelling(n, b, digits)
              /\ \A value : Spells(value, n, b, digits) =>
                    LET p == s.P * b^n + value[n]
                        T == d * (c * b^n) * (c * b^n)
                    IN p * p <= T /\ T < (p + 1) * (p + 1)
  <1> USE SqrtKnown DEF SqrtConstants
  <1> DEFINE at(k) == SQ!Stepped(b, s, k)
             digits == RootExpansion(b, s, n)
             I == {k \in Nat : Rooted(d, c * b^k, at(k).P, at(k).R)}
  <1>1. b \in Nat \ {0, 1} /\ b \in Nat \ {0} /\ s.P \in Nat
    BY DEF RootStates
  <1>15. /\ SQ!Stepped(b, s, 0) = s
         /\ \A k \in Nat : /\ SQ!Stepped(b, s, k) \in RootStates
                           /\ SQ!Stepped(b, s, k + 1) = SQ!After(b, SQ!Stepped(b, s, k))
    BY RootWalk
  <1>2. ASSUME NEW k \in Nat PROVE at(k) \in RootStates /\ at(k + 1) = SQ!After(b, at(k))
    BY <1>15
  <1>3. at(0) = s
    BY <1>15
  <1> HIDE DEF at
  <1>4. ASSUME NEW k \in Nat, k < n, k \in I
        PROVE  /\ k + 1 \in I
               /\ at(k + 1).P = at(k).P * b + SQ!Digit(b, at(k))
    <2> DEFINE w == b^k
               e == c * w
               t == at(k)
               p == t.P
               r == t.R
               u == SQ!After(b, t)
    <2>1. k \in 0..(n - 1) /\ k \in 0..n /\ k + 1 \in 0..n /\ n \in 0..n
      BY <1>4
    <2>2. w \in Nat \ {0} /\ b^(k + 1) = w * b
      BY <1>1, <2>1, PowersAre DEF PowersOf
    <2>3. e * b <= M /\ e \in Nat \ {0} /\ c * b^(k + 1) = e * b
      <3> DEFINE top == b^n
                 next == b^(k + 1)
      <3>1. top \in Nat /\ next <= top /\ next = w * b
        BY <1>1, <2>1, <2>2, PowersAre
      <3> HIDE DEF top, next, w
      <3>2. c * next <= c * top /\ c * next \in Nat /\ c * top \in Nat
        BY <2>2, <3>1
      <3>3. c * top <= M
        BY DEF top
      <3>4. c * next = (c * w) * b /\ c * w \in Nat \ {0}
        BY <1>1, <2>2, <3>1
      <3> QED
        BY <3>2, <3>3, <3>4 DEF next
    <2>4. t = [P |-> p, R |-> r] /\ Rooted(d, e, p, r)
      BY <1>2, <1>4 DEF RootStates
    <2> HIDE DEF t, p, r, e
    <2>5. /\ Rooted(d, e * b, u.P, u.R)
          /\ u.P = p * b + SQ!Digit(b, t)
      BY <2>3, <2>4, SqrtStepRoots
    <2>6. at(k + 1) = u
      BY <1>2 DEF t
    <2> QED
      BY <2>3, <2>5, <2>6 DEF t, p
  <1>5. 0 \in I
    <2>1. c * b^0 = c
      BY DEF PowersOf
    <2> QED
      BY <1>3, <2>1
  <1>6. \A k \in 0..n : k \in I
    <2> HIDE DEF I
    <2> QED
      BY <1>4, <1>5, BoundedInduction
  <1>7. ASSUME NEW k \in 1..n
        PROVE  digits[k] \in Nat /\ digits[k] < b
    BY SqrtDigitIs DEF RootExpansion
  <1>8. Spelling(n, b, digits)
    <2>1. digits \in [1..n -> Nat]
      <3>1. DOMAIN digits = 1..n /\ digits = [k \in 1..n |-> digits[k]]
        BY DEF RootExpansion
      <3> HIDE DEF digits
      <3> QED
        BY <1>7, <3>1
    <2> HIDE DEF digits
    <2> QED
      BY <1>7, <2>1, ASpelling
  <1>9. ASSUME NEW k \in 0..(n - 1) PROVE digits[k + 1] = SQ!Digit(b, at(k))
    <2>1. k + 1 \in 1..n /\ (k + 1) - 1 = k
      BY <1>9
    <2> QED
      BY <2>1 DEF RootExpansion, at
  <1> HIDE DEF digits
  <1>10. ASSUME NEW value, Spells(value, n, b, digits)
         PROVE  LET p == s.P * b^n + value[n]
                    T == d * (c * b^n) * (c * b^n)
                IN p * p <= T /\ T < (p + 1) * (p + 1)
    <2> DEFINE J == {k \in Nat : at(k).P = s.P * b^k + value[k]}
    <2>1. 0 \in J
      <3>1. s.P * b^0 + value[0] = s.P
        BY <1>1, <1>10 DEF PowersOf, Spells
      <3> QED
        BY <1>3, <3>1
    <2>2. ASSUME NEW k \in Nat, k < n, k \in J PROVE k + 1 \in J
      <3> DEFINE w == b^k
                 v == value[k]
                 x == SQ!Digit(b, at(k))
                 p == s.P
      <3>1. k \in 0..(n - 1) /\ k \in 0..n /\ k \in I
        BY <1>6, <2>2
      <3>2. w \in Nat /\ v \in Nat /\ x \in Nat /\ p \in Nat
        BY <1>1, <1>10, <3>1, PowersAre, SqrtDigitIs DEF Spells
      <3>3. b^(k + 1) = w * b /\ value[k + 1] = v * b + x
        BY <1>9, <1>10, <3>1 DEF PowersOf, Spells
      <3>4. at(k + 1).P = at(k).P * b + x /\ at(k).P = p * w + v
        <4> HIDE DEF I
        <4> QED
          BY <1>4, <2>2, <3>1
      <3> HIDE DEF w, v, x, p
      <3>5. (p * w + v) * b + x = p * (w * b) + (v * b + x)
        BY <1>1, <3>2
      <3> QED
        BY <3>3, <3>4, <3>5 DEF p
    <2>3. \A k \in 0..n : k \in J
      <3> HIDE DEF J
      <3> QED
        BY <2>1, <2>2, BoundedInduction
    <2>4. n \in 0..n
      OBVIOUS
    <2>5. at(n).P = s.P * b^n + value[n] /\ Rooted(d, c * b^n, at(n).P, at(n).R)
      BY <1>6, <2>3, <2>4
    <2> QED
      BY <2>5 DEF Rooted, RootOf
  <1> QED
    BY <1>8, <1>10 DEF digits

-----------------------------------------------------------------------------
(* The fractions between which a reprojection lies *)

\* Of a rational r/q: all/cut has been read of it and out/weight written.
LEMMA RationalEnclosed ==
    ASSUME NEW r \in Nat, NEW q \in Nat \ {0}, NEW cut \in Nat \ {0},
           NEW weight \in Nat \ {0}, NEW all \in Nat, NEW out \in Nat, NEW left \in Nat,
           r * cut = all * q + left, left < q,
           out * cut <= all * weight, all * weight < (out + 1) * cut
    PROVE  /\ out * q <= r * weight
           /\ r * weight * cut < (out + 1) * q * cut + q * weight
  <1>1. all * q <= r * cut /\ r * cut < all * q + q
    <2>1. all * q \in Nat
      OBVIOUS
    <2> QED
      BY <2>1
  <1> DEFINE a == all * weight
             lo == out * cut
             hi == (out + 1) * cut
             e == all * q
             f == r * cut
  <1>2. /\ a \in Nat /\ lo \in Nat /\ hi \in Nat /\ e \in Nat /\ f \in Nat
        /\ lo <= a /\ a < hi /\ e <= f /\ f < e + q
    BY <1>1
  <1>3. lo * q = (out * q) * cut /\ a * q = e * weight /\ f * weight = (r * weight) * cut
    OBVIOUS
  <1>4. hi * q = (out + 1) * q * cut /\ (e + q) * weight = e * weight + q * weight
    OBVIOUS
  <1> HIDE DEF a, lo, hi, e, f
  <1>5. lo * q <= a * q /\ a * q < hi * q
    BY <1>2
  <1>6. e * weight <= f * weight /\ f * weight < (e + q) * weight
    BY <1>2
  <1> DEFINE oq == out * q
             rw == r * weight
  <1>7. oq * cut <= rw * cut
    <2>1. lo * q \in Nat /\ a * q \in Nat /\ f * weight \in Nat
      BY <1>2
    <2> QED
      BY <1>3, <1>5, <1>6, <2>1
  <1>8. oq <= rw
    <2>1. oq \in Nat /\ rw \in Nat
      OBVIOUS
    <2> HIDE DEF oq, rw
    <2> SUFFICES ASSUME rw + 1 <= oq PROVE FALSE
      BY <2>1
    <2>2. (rw + 1) * cut <= oq * cut
      BY <2>1
    <2>3. (rw + 1) * cut = rw * cut + cut /\ rw * cut \in Nat /\ oq * cut \in Nat
      BY <2>1
    <2> QED
      BY <1>7, <2>2, <2>3
  <1>9. rw * cut < hi * q + q * weight
    <2>1. a * q \in Nat /\ hi * q \in Nat /\ q * weight \in Nat /\ f * weight \in Nat
      BY <1>2
    <2>2. f * weight < e * weight + q * weight
      BY <1>4, <1>6
    <2> QED
      BY <1>3, <1>5, <2>1, <2>2
  <1> QED
    BY <1>4, <1>8, <1>9 DEF oq, rw

\* Squares keep an order, and give it back.
LEMMA SquaresKeep ==
    ASSUME NEW x \in Nat, NEW y \in Nat
    PROVE  /\ x <= y => Square(x) <= Square(y)
           /\ x < y => Square(x) < Square(y)
           /\ Square(x) \in Nat
  <1>1. Square(x) \in Nat
    BY DEF Square
  <1>2. ASSUME x <= y PROVE x * x <= y * y
    <2>1. x * x <= x * y /\ x * y <= y * y
      BY <1>2
    <2> QED
      BY <2>1
  <1>3. ASSUME x < y PROVE x * x < y * y
    <2>1. x * x <= x * y /\ x * y < y * y
      BY <1>3
    <2> QED
      BY <2>1
  <1> QED
    BY <1>1, <1>2, <1>3 DEF Square

\* The square of a product is the product of the squares.
LEMMA SquareOfProduct ==
    ASSUME NEW x \in Nat, NEW y \in Nat
    PROVE  Square(x * y) = Square(x) * Square(y)
  BY DEF Square

\* Of a root: (p cut + all) / cut has been read of it and out/weight written.
LEMMA RootEnclosed ==
    ASSUME NEW d \in Nat, NEW c \in Nat \ {0}, NEW p \in Nat, NEW cut \in Nat \ {0},
           NEW weight \in Nat \ {0}, NEW all \in Nat, NEW out \in Nat,
           Square(p * cut + all) <= d * Square(c * cut),
           d * Square(c * cut) < Square(p * cut + all + 1),
           out * cut <= all * weight, all * weight < (out + 1) * cut
    PROVE  /\ Square(p * weight + out) <= d * Square(c * weight)
           /\ d * Square(c * weight * cut)
                 < Square((p * weight + out + 1) * cut + weight)
  <1> DEFINE n == p * cut + all
             m == p * weight + out
             T == d * Square(c * cut)
             U == d * Square(c * weight)
             C == Square(cut)
             W == Square(weight)
  <1>1. n \in Nat /\ m \in Nat
    OBVIOUS
  <1>2. T * W = U * C /\ T * W = d * Square(c * weight * cut)
    BY DEF Square
  <1>3. T \in Nat /\ U \in Nat /\ C \in Nat \ {0} /\ W \in Nat \ {0}
    <2> DEFINE x == c * cut
               y == c * weight
    <2>1. x \in Nat /\ y \in Nat
      OBVIOUS
    <2> HIDE DEF x, y
    <2>2. x * x \in Nat /\ y * y \in Nat /\ cut * cut \in Nat \ {0}
          /\ weight * weight \in Nat \ {0}
      BY <2>1
    <2>3. d * (x * x) \in Nat /\ d * (y * y) \in Nat
      BY <2>2
    <2> QED
      BY <2>2, <2>3 DEF Square, x, y
  <1>4. m * cut <= n * weight
    <2>1. m * cut = (p * weight) * cut + out * cut
      OBVIOUS
    <2>2. n * weight = (p * weight) * cut + all * weight
      OBVIOUS
    <2>3. (p * weight) * cut \in Nat /\ out * cut \in Nat /\ all * weight \in Nat
      OBVIOUS
    <2> QED
      BY <2>1, <2>2, <2>3
  <1>5. (n + 1) * weight < (m + 1) * cut + weight
    <2>1. (m + 1) * cut = (p * weight) * cut + (out + 1) * cut
      OBVIOUS
    <2>2. (n + 1) * weight = (p * weight) * cut + all * weight + weight
      OBVIOUS
    <2>3. (p * weight) * cut \in Nat /\ (out + 1) * cut \in Nat /\ all * weight \in Nat
      OBVIOUS
    <2> QED
      BY <2>1, <2>2, <2>3
  <1>6. Square(n) <= T /\ T < Square(n + 1)
    OBVIOUS
  <1> HIDE DEF n, m, T, U, C, W
  <1>7. Square(m) * C <= Square(n) * W
    <2>1. m * cut \in Nat /\ n * weight \in Nat
      BY <1>1
    <2>2. Square(m * cut) <= Square(n * weight)
      <3> DEFINE x == m * cut
                 y == n * weight
      <3>1. x \in Nat /\ y \in Nat /\ x <= y
        BY <1>4, <2>1
      <3> HIDE DEF x, y
      <3>2. Square(x) <= Square(y)
        BY <3>1, SquaresKeep
      <3> QED
        BY <3>2 DEF x, y
    <2> QED
      BY <1>1, <2>2, SquareOfProduct DEF C, W
  <1>8. Square(n + 1) * W < Square((m + 1) * cut + weight)
    <2> DEFINE x == (n + 1) * weight
               y == (m + 1) * cut + weight
    <2>1. x \in Nat /\ y \in Nat /\ x < y
      BY <1>1, <1>5
    <2>2. Square(x) = Square(n + 1) * W
      BY <1>1, SquareOfProduct DEF W
    <2> HIDE DEF x, y
    <2>3. Square(x) < Square(y)
      BY <2>1, SquaresKeep
    <2> QED
      BY <2>2, <2>3 DEF y
  <1> DEFINE N == Square(n)
             K == Square(n + 1)
             I == Square(m)
  <1>9. N \in Nat /\ K \in Nat /\ I \in Nat
    BY <1>1, SquaresKeep
  <1>10. N <= T /\ T < K /\ I * C <= N * W
    BY <1>6, <1>7
  <1> HIDE DEF N, K, I
  <1>11. N * W <= T * W /\ T * W < K * W
    BY <1>3, <1>9, <1>10
  <1>12. I <= U
    <2> SUFFICES ASSUME U + 1 <= I PROVE FALSE
      BY <1>3, <1>9
    <2>1. (U + 1) * C <= I * C
      BY <1>3, <1>9
    <2>2. (U + 1) * C = U * C + C /\ U * C \in Nat /\ I * C \in Nat /\ N * W \in Nat
          /\ T * W \in Nat
      BY <1>3, <1>9
    <2> QED
      BY <1>2, <1>3, <1>10, <1>11, <2>1, <2>2
  <1>13. T * W < Square((m + 1) * cut + weight)
    <2> DEFINE y == (m + 1) * cut + weight
    <2>1. y \in Nat
      BY <1>1
    <2> HIDE DEF y
    <2>2. Square(y) \in Nat /\ T * W \in Nat /\ K * W \in Nat
      BY <1>3, <1>9, <2>1, SquaresKeep
    <2>3. K * W < Square(y)
      BY <1>8 DEF y, K
    <2> QED
      BY <1>11, <2>2, <2>3 DEF y
  <1> QED
    BY <1>2, <1>12, <1>13 DEF I, U, m

\* Where reprojections stop, a fraction still fits a word and a root two.
ProjectionFits == ProjectScale < Word /\ WideEnough(ProjectScale)

\* What the last reprojection wrote: nothing, or what was asked of the machine.
Projected ==
    \/ projection = Unprojected
    \/ \E j \in Projections :
          /\ SourceScale * SourceBase^j[1] * j[2]^j[3] <= ProjectScale
          /\ projection = [source |-> j[1], target |-> j[2],
                           digits |-> Reprojected(SourceDigits(j[1]), SourceBase,
                                                  j[2], j[3])]

\* A product bounds what it is a product of.
LEMMA ProductBounds ==
    ASSUME NEW c \in Nat \ {0}, NEW cut \in Nat \ {0}, NEW w \in Nat, NEW t \in Nat \ {0},
           NEW top \in Nat, t <= w, c * cut * w <= top
    PROVE  cut <= top /\ cut * t <= top /\ c * cut <= top
  <1> DEFINE e == c * cut
  <1>1. e \in Nat \ {0} /\ cut <= e
    OBVIOUS
  <1>2. e * w <= top
    OBVIOUS
  <1> HIDE DEF e
  <1>3. e * t <= e * w /\ e <= e * t
    BY <1>1
  <1>4. cut * t <= e * t
    BY <1>1
  <1>5. e * t \in Nat /\ e * w \in Nat /\ cut * t \in Nat
    BY <1>1
  <1> QED
    BY <1>1, <1>2, <1>3, <1>4, <1>5 DEF e

\* A power from the first on is no smaller than its base.
LEMMA BaseBelowPower ==
    ASSUME NEW t \in Nat \ {0}, NEW m \in Nat \ {0}, PowersOf(t, m)
    PROVE  t <= t^m
  <1>1. 0 \in 0..(m - 1) /\ 1 \in 0..m
    OBVIOUS
  <1>2. t^0 = 1 /\ t^(0 + 1) = t^0 * t
    BY <1>1 DEF PowersOf
  <1>3. t^1 = t
    BY <1>2
  <1>4. t^1 <= t^m
    BY <1>1, PowersAre
  <1> QED
    BY <1>3, <1>4

\* The powers and the places of a reprojection that may be asked for.
LEMMA ProjectionKnown ==
    ASSUME NEW j \in Projections
    PROVE  /\ j[1] \in Nat /\ j[2] \in Nat \ {0, 1} /\ j[3] \in Nat \ {0}
           /\ ProjectScale \in Nat /\ PowersOf(j[2], j[3])
           /\ \A b \in Bases \union SqrtBases : PowersOf(b, j[1])
  BY ProjectionAssumption DEF PowersOf

\* What was projected of a rational encloses what it still holds.
LEMMA RationalProjected ==
    ASSUME Narrow, ProjectionFits, gen = "rational", RationalInv, Projected
    PROVE  ReprojectionTrue
  <1> USE RationalAssumption
  <1> DEFINE x == machine["x"]
             out == Spelled(projection.digits, projection.target)
             weight == projection.target^Len(projection.digits)
             cut == base^projection.source
             r == x.r
             q == x.q
  <1>1. x \in Legal /\ base \in Bases /\ base \in Nat \ {0, 1}
        /\ scale["x"] \in Nat \ {0}
    BY DEF RationalInv, Numbers
  <1>2. r \in Nat /\ q \in Nat
    BY <1>1 DEF Legal, States
  <1> SUFFICES ASSUME q # 0
               PROVE  /\ out * q <= r * weight
                      /\ r * weight * cut < (out + 1) * q * cut + q * weight
    BY DEF ReprojectionTrue, SourceBase
  <1>3. r < q /\ Fitting(base, q) /\ x \in Remainders(q)
    <2>1. PICK f \in Fractions : q = f.q
      BY <1>1 DEF Legal
    <2>2. q * base < Word
      BY <1>1, <2>1 DEF Narrow
    <2>3. r < q /\ x = [r |-> r, q |-> q]
      BY <1>1, <1>2 DEF Legal, States
    <2> HIDE DEF x, r, q
    <2> QED
      BY <1>1, <1>2, <2>2, <2>3 DEF Fitting, Remainders
  <1>4. CASE projection = Unprojected
    <2>1. projection.digits = <<>> /\ projection.target = 2 /\ projection.source = 0
      BY <1>4 DEF Unprojected
    <2>2. Len(<<>>) = 0 /\ Spelling(0, 2, <<>>)
      <3>1. <<>> \in Seq(Nat) /\ Len(<<>>) = 0
        OBVIOUS
      <3> QED
        BY <3>1 DEF Spelling
    <2>3. out = 0
      <3>1. PICK value : Spells(value, 0, 2, <<>>) /\ Spelled(<<>>, 2) = value[0]
        BY <2>2, SpelledIs
      <3> QED
        BY <2>1, <3>1 DEF Spells
    <2>4. weight = 1 /\ cut = 1
      BY <1>1, <2>1, <2>2, ProjectionAssumption, PowAssumption
    <2> HIDE DEF out, weight, cut, r, q
    <2>5. 0 * q <= r * 1 /\ r * 1 * 1 < (0 + 1) * q * 1 + q * 1
      BY <1>2, <1>3
    <2> QED
      BY <2>3, <2>4, <2>5
  <1>5. ASSUME NEW j \in Projections,
               SourceScale * SourceBase^j[1] * j[2]^j[3] <= ProjectScale,
               projection = [source |-> j[1], target |-> j[2],
                             digits |-> Reprojected(SourceDigits(j[1]), SourceBase,
                                                    j[2], j[3])]
        PROVE  /\ out * q <= r * weight
               /\ r * weight * cut < (out + 1) * q * cut + q * weight
    <2> DEFINE n == j[1]
               t == j[2]
               m == j[3]
               digits == Expansion(base, x, n)
               all == Spelled(digits, base)
               c == scale["x"]
               w == t^m
               e == base^n
    <2>1. /\ n \in Nat /\ t \in Nat \ {0, 1} /\ t \in Nat \ {0} /\ m \in Nat \ {0} /\ m \in Nat
          /\ ProjectScale \in Nat /\ PowersOf(t, m) /\ PowersOf(base, n)
      BY <1>1, ProjectionKnown
    <2>2. SourceScale = c /\ SourceBase = base /\ SourceDigits(n) = digits
      BY DEF SourceScale, SourceBase, SourceDigits, Expansion
    <2>3. c * e * w <= ProjectScale
      BY <1>5, <2>2
    <2>4. e \in Nat \ {0} /\ w \in Nat \ {0} /\ t <= w
      <3>1. n \in 0..n /\ m \in 0..m
        BY <2>1
      <3> HIDE DEF n, t, m
      <3> QED
        BY <1>1, <2>1, <3>1, PowersAre, BaseBelowPower
    <2>5. e <= ProjectScale /\ e * t <= ProjectScale
      <3> HIDE DEF e, w, c, t
      <3>1. c \in Nat \ {0}
        BY <1>1 DEF c
      <3> QED
        BY <2>1, <2>3, <2>4, <3>1, ProductBounds
    <2>6. e < Word /\ e * t < Word
      <3> DEFINE k == e * t
      <3>1. k \in Nat /\ k <= ProjectScale
        BY <2>1, <2>4, <2>5
      <3> HIDE DEF k, e
      <3> QED
        BY <2>1, <2>4, <2>5, <3>1 DEF ProjectionFits, k
    <2>7. Spelling(n, base, digits)
      BY <1>3, <2>1, ExpansionSpells
    <2> HIDE DEF n, t, m, digits
    <2>8. PICK value : Spells(value, n, base, digits) /\ all = value[n]
      BY <1>1, <2>1, <2>7, SpelledIs
    <2>9. all \in Nat /\ Parts(r, q, e, all, Stepped(base, x, n).r)
      <3>1. n \in 0..n
        BY <2>1
      <3> QED
        BY <1>3, <2>1, <2>8, <3>1, ExpansionDivides DEF digits
    <2> DEFINE left == Stepped(base, x, n).r
    <2>10. left \in Nat /\ left < q
      <3>1. Stepped(base, x, n) \in Remainders(q)
        BY <1>3, <2>1, FreeWalk
      <3> QED
        BY <1>2, <3>1 DEF Remainders
    <2>11. LET new == Reprojected(digits, base, t, m)
               o == Spelled(new, t)
           IN /\ Len(new) = m
              /\ o \in Nat /\ all \in Nat
              /\ o * e <= all * w /\ all * w < (o + 1) * e
      BY <1>1, <2>1, <2>6, <2>7, ReprojectedTrue
    <2>12. /\ projection.digits = Reprojected(digits, base, t, m)
           /\ projection.target = t /\ projection.source = n
      BY <1>5, <2>2 DEF n, t, m
    <2>13. weight = w /\ cut = e
      BY <2>11, <2>12
    <2>14. out \in Nat /\ out * e <= all * w /\ all * w < (out + 1) * e
      BY <2>11, <2>12
    <2> HIDE DEF out, all, e, w, weight, cut, left, r, q
    <2>15. r * e = all * q + left
      BY <2>9 DEF Parts, left
    <2>16. q \in Nat \ {0}
      BY <1>2
    <2>17. /\ out * q <= r * w
           /\ r * w * e < (out + 1) * q * e + q * w
      BY <1>2, <2>4, <2>9, <2>10, <2>14, <2>15, <2>16, RationalEnclosed
    <2> QED
      BY <2>13, <2>17
  <1> QED
    BY <1>4, <1>5 DEF Projected

\* What was projected of a root encloses what it still holds.
LEMMA SqrtProjected ==
    ASSUME ProjectionFits, gen = "sqrt", SqrtInv, Projected
    PROVE  ReprojectionTrue
  <1> USE SqrtKnown DEF SqrtConstants
  <1> DEFINE out == Spelled(projection.digits, projection.target)
             weight == projection.target^Len(projection.digits)
             cut == sbase^projection.source
             c == sscale
  <1>1. /\ D \in Radicands /\ D \in Nat /\ sbase \in SqrtBases /\ sbase \in Nat \ {0, 1}
        /\ sbase \in Nat \ {0}
        /\ P \in Nat /\ R \in Nat /\ c \in Nat \ {0} /\ RootOf(P, R, D * c * c)
    BY DEF SqrtInv
  <1>2. ASSUME NEW all \in Nat, out \in Nat, cut \in Nat \ {0}, weight \in Nat \ {0},
               Square(P * cut + all) <= D * Square(c * cut),
               D * Square(c * cut) < Square(P * cut + all + 1),
               out * cut <= all * weight, all * weight < (out + 1) * cut
        PROVE  ReprojectionTrue
    <2>1. /\ Square(P * weight + out) <= D * Square(c * weight)
          /\ D * Square(c * weight * cut)
                < Square((P * weight + out + 1) * cut + weight)
      <3> HIDE DEF out, weight, cut, c
      <3> QED
        BY <1>1, <1>2, RootEnclosed
    <2> QED
      BY <2>1 DEF ReprojectionTrue, SourceBase
  <1>3. CASE projection = Unprojected
    <2>1. projection.digits = <<>> /\ projection.target = 2 /\ projection.source = 0
      BY <1>3 DEF Unprojected
    <2>2. Len(<<>>) = 0 /\ Spelling(0, 2, <<>>)
      <3>1. <<>> \in Seq(Nat) /\ Len(<<>>) = 0
        OBVIOUS
      <3> QED
        BY <3>1 DEF Spelling
    <2>3. out = 0
      <3>1. PICK value : Spells(value, 0, 2, <<>>) /\ Spelled(<<>>, 2) = value[0]
        BY <2>2, SpelledIs
      <3> QED
        BY <2>1, <3>1 DEF Spells
    <2>4. weight = 1 /\ cut = 1
      BY <1>1, <2>1, <2>2, ProjectionAssumption
    <2>5. Square(P * 1 + 0) <= D * Square(c * 1) /\ D * Square(c * 1) < Square(P * 1 + 0 + 1)
      <3>1. P * 1 + 0 = P /\ c * 1 = c /\ P * 1 + 0 + 1 = P + 1 /\ D * c * c = D * (c * c)
        BY <1>1
      <3> QED
        BY <1>1, <3>1 DEF Square, RootOf
    <2>6. 0 * 1 <= 0 * 1 /\ 0 * 1 < (0 + 1) * 1
      OBVIOUS
    <2> HIDE DEF out, weight, cut
    <2> QED
      BY <1>2, <2>3, <2>4, <2>5, <2>6
  <1>4. ASSUME NEW j \in Projections,
               SourceScale * SourceBase^j[1] * j[2]^j[3] <= ProjectScale,
               projection = [source |-> j[1], target |-> j[2],
                             digits |-> Reprojected(SourceDigits(j[1]), SourceBase,
                                                    j[2], j[3])]
        PROVE  ReprojectionTrue
    <2> DEFINE n == j[1]
               t == j[2]
               m == j[3]
               b == sbase
               s == SQ!Live
               digits == RootExpansion(b, s, n)
               all == Spelled(digits, b)
               w == t^m
               e == b^n
               M == ProjectScale
    <2>1. /\ n \in Nat /\ t \in Nat \ {0, 1} /\ t \in Nat \ {0} /\ m \in Nat \ {0} /\ m \in Nat
          /\ M \in Nat /\ PowersOf(t, m) /\ PowersOf(b, n)
      BY <1>1, ProjectionKnown
    <2>2. SourceScale = c /\ SourceBase = b /\ SourceDigits(n) = digits
      BY DEF SourceScale, SourceBase, SourceDigits, RootExpansion
    <2>3. c * e * w <= M
      BY <1>4, <2>2
    <2>4. e \in Nat \ {0} /\ w \in Nat \ {0} /\ t <= w
      <3>1. n \in 0..n /\ m \in 0..m
        BY <2>1
      <3> HIDE DEF n, t, m
      <3> QED
        BY <1>1, <2>1, <3>1, PowersAre, BaseBelowPower
    <2>5. e <= M /\ e * t <= M /\ c * e <= M
      <3> HIDE DEF e, w, c, t
      <3> QED
        BY <1>1, <2>1, <2>3, <2>4, ProductBounds
    <2>6. e < Word /\ e * t < Word
      <3> DEFINE k == e * t
      <3>1. k \in Nat /\ k <= ProjectScale /\ Word \in Nat
        BY <2>1, <2>4, <2>5, RationalAssumption
      <3> HIDE DEF k, e
      <3> QED
        BY <2>1, <2>4, <2>5, <3>1 DEF ProjectionFits, k
    <2>7. s \in RootStates /\ Rooted(D, c, s.P, s.R) /\ s.P = P
      BY <1>1 DEF SQ!Live, RootStates, Rooted
    <2> HIDE DEF n, t, m, s, c
    <2>8. /\ Spelling(n, b, digits)
          /\ \A value : Spells(value, n, b, digits) =>
                LET p == s.P * b^n + value[n]
                    T == D * (c * b^n) * (c * b^n)
                IN p * p <= T /\ T < (p + 1) * (p + 1)
      BY <1>1, <2>1, <2>5, <2>7, RootExpansionIs DEF ProjectionFits
    <2> HIDE DEF digits
    <2>9. PICK value : Spells(value, n, b, digits) /\ all = value[n]
      BY <1>1, <2>1, <2>8, SpelledIs
    <2>10. LET p == P * e + all
               T == D * (c * e) * (c * e)
           IN p * p <= T /\ T < (p + 1) * (p + 1)
      BY <2>7, <2>8, <2>9
    <2>11. LET new == Reprojected(digits, b, t, m)
               o == Spelled(new, t)
           IN /\ Len(new) = m
              /\ o \in Nat /\ all \in Nat
              /\ o * e <= all * w /\ all * w < (o + 1) * e
      BY <1>1, <2>1, <2>6, <2>8, ReprojectedTrue
    <2>12. /\ projection.digits = Reprojected(digits, b, t, m)
           /\ projection.target = t /\ projection.source = n
      BY <1>4, <2>2 DEF n, t, m
    <2>13. weight = w /\ cut = e
      BY <2>11, <2>12
    <2>14. /\ out \in Nat /\ out * e <= all * w /\ all * w < (out + 1) * e
           /\ all \in Nat
      BY <2>11, <2>12
    <2>15. Square(P * e + all) <= D * Square(c * e) /\ D * Square(c * e) < Square(P * e + all + 1)
      <3> HIDE DEF e, all
      <3> DEFINE k == c * e
      <3>1. k \in Nat
        BY <1>1, <2>4
      <3>2. D * k * k = D * (k * k)
        <4> HIDE DEF k
        <4> QED
          BY <1>1, <3>1
      <3> QED
        BY <2>10, <3>2 DEF Square
    <2> HIDE DEF out, all, e, w, weight, cut
    <2> QED
      BY <1>2, <2>4, <2>13, <2>14, <2>15
  <1> QED
    BY <1>3, <1>4 DEF Projected

-----------------------------------------------------------------------------
(* The machine held *)

\* All that a step may change.
automaton == <<gen, rational, padic, sqrt, projection>>

\* Steps of the other machines and reprojections leave a rational as it is.
LEMMA RationalHeld ==
    ASSUME Narrow, Searched, gen = "rational" => RationalInv, [AutomatonNext]_automaton
    PROVE  gen' = "rational" => RationalInv'
  <1> SUFFICES ASSUME gen' = "rational" PROVE RationalInv'
    OBVIOUS
  <1>1. CASE RationalStep
    BY <1>1, RationalKept DEF RationalStep
  <1>2. CASE PAdicStep \/ SqrtStep
    BY <1>2 DEF PAdicStep, SqrtStep
  <1>3. ASSUME NEW j \in Projections, Reproject(j[1], j[2], j[3]) PROVE RationalInv'
    <2>1. /\ gen = "rational" /\ RationalInv /\ verdict' = None
          /\ UNCHANGED <<machine, base, first, prefix, scale>>
      BY <1>3 DEF Reproject
    <2>2. VerdictTrue'
      BY <2>1, NoVerdictNext
    <2> QED
      BY <2>1, <2>2 DEF RationalInv, Exact
  <1>4. CASE UNCHANGED automaton
    <2>1. gen = "rational" /\ UNCHANGED vars
      BY <1>4 DEF automaton, rational
    <2> QED
      BY <2>1, RationalKept
  <1> QED
    BY <1>1, <1>2, <1>3, <1>4 DEF AutomatonNext

\* Steps of the other machines and reprojections leave a p-adic number as it is.
LEMMA PAdicHeld ==
    ASSUME Checked, gen = "padic" => PAdicInv, [AutomatonNext]_automaton
    PROVE  gen' = "padic" => PAdicInv'
  <1> SUFFICES ASSUME gen' = "padic" PROVE PAdicInv'
    OBVIOUS
  <1>1. CASE PAdicStep
    BY <1>1, PAdicKept DEF PAdicStep
  <1>2. CASE RationalStep \/ SqrtStep
    BY <1>2 DEF RationalStep, SqrtStep
  <1>3. CASE \E j \in Projections : Reproject(j[1], j[2], j[3])
    BY <1>3 DEF Reproject
  <1>4. CASE UNCHANGED automaton
    <2>1. gen = "padic" /\ UNCHANGED padic
      BY <1>4 DEF automaton
    <2> QED
      BY <2>1, PAdicKept
  <1> QED
    BY <1>1, <1>2, <1>3, <1>4 DEF AutomatonNext

\* Steps of the other machines and reprojections leave a root as it is.
LEMMA SqrtHeld ==
    ASSUME SqrtFits, gen = "sqrt" => SqrtInv, [AutomatonNext]_automaton
    PROVE  gen' = "sqrt" => SqrtInv'
  <1> SUFFICES ASSUME gen' = "sqrt" PROVE SqrtInv'
    OBVIOUS
  <1>1. CASE SqrtStep
    BY <1>1, SqrtKept DEF SqrtStep
  <1>2. CASE RationalStep \/ PAdicStep
    BY <1>2 DEF RationalStep, PAdicStep
  <1>3. ASSUME NEW j \in Projections, Reproject(j[1], j[2], j[3]) PROVE SqrtInv'
    <2>1. gen = "sqrt" /\ UNCHANGED sqrt
      BY <1>3 DEF Reproject
    <2> QED
      BY <2>1, SqrtKept
  <1>4. CASE UNCHANGED automaton
    <2>1. gen = "sqrt" /\ UNCHANGED sqrt
      BY <1>4 DEF automaton
    <2> QED
      BY <2>1, SqrtKept
  <1> QED
    BY <1>1, <1>2, <1>3, <1>4 DEF AutomatonNext

\* Reprojected digits are forgotten when the machine they were read from moves.
LEMMA ProjectedKept ==
    ASSUME Projected, [AutomatonNext]_automaton
    PROVE  Projected'
  <1>1. CASE RationalStep \/ PAdicStep \/ SqrtStep
    BY <1>1 DEF RationalStep, PAdicStep, SqrtStep, Projected, Unprojected
  <1>2. ASSUME NEW j \in Projections, Reproject(j[1], j[2], j[3]) PROVE Projected'
    <2>1. /\ UNCHANGED <<gen, machine, base, scale, sqrt>>
          /\ SourceScale * SourceBase^j[1] * j[2]^j[3] <= ProjectScale
          /\ projection' = [source |-> j[1], target |-> j[2],
                            digits |-> Reprojected(SourceDigits(j[1]), SourceBase,
                                                   j[2], j[3])]
      BY <1>2 DEF Reproject
    <2>2. /\ SourceScale' = SourceScale /\ SourceBase' = SourceBase
          /\ SourceDigits(j[1])' = SourceDigits(j[1])
      BY <2>1 DEF SourceScale, SourceBase, SourceDigits, SQ!Live, sqrt
    <2> HIDE DEF SourceScale, SourceBase, SourceDigits
    <2> QED
      BY <2>1, <2>2 DEF Projected
  <1>3. CASE UNCHANGED automaton
    <2>1. UNCHANGED <<gen, machine, base, scale, sqrt, projection>>
      BY <1>3 DEF automaton, rational, vars
    <2>2. /\ SourceScale' = SourceScale /\ SourceBase' = SourceBase
          /\ \A n : SourceDigits(n)' = SourceDigits(n)
      BY <2>1 DEF SourceScale, SourceBase, SourceDigits, SQ!Live, sqrt
    <2>3. projection' = projection
      BY <2>1
    <2> QED
      BY <2>2, <2>3 DEF Projected, Unprojected
  <1> QED
    BY <1>1, <1>2, <1>3 DEF AutomatonNext

\* A machine that is built satisfies its invariant.
LEMMA MachinesStart ==
    ASSUME AutomatonInit
    PROVE  /\ gen = "rational" => RationalInv
           /\ gen = "padic" => PAdicInv
           /\ gen = "sqrt" => SqrtInv
           /\ Projected
  BY RationalStarts, PAdicStarts, SqrtStarts
     DEF AutomatonInit, Rational, PAdic, Sqrt, Projected

-----------------------------------------------------------------------------
\* Steps, skips and base changes lose nothing of a rational.
THEOREM RationalNeverDrifts ==
    ASSUME Narrow, Searched
    PROVE  AutomatonSpec => []RationalExact
  <1> DEFINE Inv == gen = "rational" => RationalInv
  <1>1. AutomatonInit => Inv
    BY MachinesStart
  <1>2. Inv /\ [AutomatonNext]_automaton => Inv'
    BY RationalHeld
  <1>3. Inv => RationalExact
    BY DEF RationalInv, Exact, Parts, RationalExact, RemainderExact
  <1> QED
    BY <1>1, <1>2, <1>3, PTL DEF AutomatonSpec, automaton

\* Registers stay in range: a remainder is below its denominator, which a word
\* that wrapped around would break for the base changes that follow.
THEOREM RationalTypeCorrect ==
    ASSUME Narrow, Searched
    PROVE  AutomatonSpec => [](gen = "rational" => TypeOK)
  <1> DEFINE Inv == gen = "rational" => RationalInv
  <1>1. AutomatonInit => Inv
    BY MachinesStart
  <1>2. Inv /\ [AutomatonNext]_automaton => Inv'
    BY RationalHeld
  <1>3. Inv => (gen = "rational" => TypeOK)
    BY DEF RationalInv, Legal, States, TypeOK
  <1> QED
    BY <1>1, <1>2, <1>3, PTL DEF AutomatonSpec, automaton

\* A verdict is true of what is left of the two numbers.
THEOREM VerdictsAreTrue ==
    ASSUME Narrow, Searched
    PROVE  AutomatonSpec => []RationalVerdictTrue
  <1> DEFINE Inv == gen = "rational" => RationalInv
  <1>1. AutomatonInit => Inv
    BY MachinesStart
  <1>2. Inv /\ [AutomatonNext]_automaton => Inv'
    BY RationalHeld
  <1>3. Inv => RationalVerdictTrue
    BY DEF RationalInv, RationalVerdictTrue
  <1> QED
    BY <1>1, <1>2, <1>3, PTL DEF AutomatonSpec, automaton

\* Steps and base changes lose nothing of a p-adic number.
THEOREM PAdicNeverDrifts ==
    ASSUME Checked
    PROVE  AutomatonSpec => []PAdicExact
  <1> DEFINE Inv == gen = "padic" => PAdicInv
  <1>1. AutomatonInit => Inv
    BY MachinesStart
  <1>2. Inv /\ [AutomatonNext]_automaton => Inv'
    BY PAdicHeld
  <1>3. Inv => PAdicExact
    BY PAdicPromises DEF PAdicExact
  <1> QED
    BY <1>1, <1>2, <1>3, PTL DEF AutomatonSpec, automaton

\* The metric is the valuation of the difference.
THEOREM MetricIsValuation ==
    ASSUME Checked
    PROVE  AutomatonSpec => []PAdicMetricTrue
  <1> DEFINE Inv == gen = "padic" => PAdicInv
  <1>1. AutomatonInit => Inv
    BY MachinesStart
  <1>2. Inv /\ [AutomatonNext]_automaton => Inv'
    BY PAdicHeld
  <1>3. Inv => PAdicMetricTrue
    BY PAdicPromises DEF PAdicMetricTrue
  <1> QED
    BY <1>1, <1>2, <1>3, PTL DEF AutomatonSpec, automaton

\* A period that is found is one.
THEOREM PeriodsAreFound ==
    ASSUME Checked, PSearched
    PROVE  AutomatonSpec => []PAdicPeriodFound
  <1> DEFINE Inv == gen = "padic" => PAdicInv
  <1>1. AutomatonInit => Inv
    BY MachinesStart
  <1>2. Inv /\ [AutomatonNext]_automaton => Inv'
    BY PAdicHeld
  <1>3. Inv => PAdicPeriodFound
    BY PAdicPromises DEF PAdicPeriodFound
  <1> QED
    BY <1>1, <1>2, <1>3, PTL DEF AutomatonSpec, automaton

\* The prefix is the integer part of the scaled root.
THEOREM SqrtStaysExact ==
    ASSUME SqrtFits
    PROVE  AutomatonSpec => []SqrtExact
  <1> DEFINE Inv == gen = "sqrt" => SqrtInv
  <1>1. AutomatonInit => Inv
    BY MachinesStart
  <1>2. Inv /\ [AutomatonNext]_automaton => Inv'
    BY SqrtHeld
  <1>3. Inv => SqrtExact
    BY SqrtPromises DEF SqrtExact
  <1> QED
    BY <1>1, <1>2, <1>3, PTL DEF AutomatonSpec, automaton

\* A reprojection is an honest lower bound of what the machine still holds.
THEOREM ReprojectionsAreHonest ==
    ASSUME Narrow, Searched, SqrtFits, ProjectionFits
    PROVE  AutomatonSpec => []ReprojectionTrue
  <1> DEFINE Inv == /\ gen = "rational" => RationalInv
                    /\ gen = "sqrt" => SqrtInv
                    /\ Projected
  <1>1. AutomatonInit => Inv
    BY MachinesStart
  <1>2. Inv /\ [AutomatonNext]_automaton => Inv'
    BY RationalHeld, SqrtHeld, ProjectedKept
  <1>3. Inv => ReprojectionTrue
    <2>1. ASSUME gen \notin {"rational", "sqrt"} PROVE ReprojectionTrue
      BY <2>1 DEF ReprojectionTrue
    <2> QED
      BY <2>1, RationalProjected, SqrtProjected
  <1> QED
    BY <1>1, <1>2, <1>3, PTL DEF AutomatonSpec, automaton
=============================================================================
