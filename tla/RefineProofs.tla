---------------------------- MODULE RefineProofs ----------------------------
(***************************************************************************)
(* Theorems about Refine and SeriesCheckpoint, for every base, every       *)
(* budget and every bound.  The interval arithmetic is non-linear, so it   *)
(* is isolated in lemmas on integers; the theorems then go action by       *)
(* action.  What a series holds after n terms is a function of n, Num and  *)
(* Den: its lemmas are about numbers only, by induction on n, and one      *)
(* invariant, SeriesInv, says that the running machine is at that place.   *)
(***************************************************************************)
EXTENDS SeriesCheckpoint, Recursion

-----------------------------------------------------------------------------
(* Integer lemmas *)

LEMMA MulType == \A a, b \in Nat \ {0} : a * b \in Nat \ {0}
  BY SMT

LEMMA DivType == \A a \in Int, b \in Nat \ {0} : a \div b \in Int
  BY SMT

LEMMA DivNat == \A a \in Nat, b \in Nat \ {0} : a \div b \in Nat
  BY SMT

LEMMA DivBounds ==
  ASSUME NEW a \in Int, NEW b \in Nat \ {0}
  PROVE  /\ b * (a \div b) <= a
         /\ a < b * ((a \div b) + 1)
  BY SMT

LEMMA MulMono == \A a, b \in Int : \A c \in Nat : a <= b => a * c <= b * c
  BY SMT

LEMMA MulStrict == \A a, b \in Int : \A c \in Nat \ {0} : a < b => a * c < b * c
  BY SMT

LEMMA MulCancel == \A a, b \in Int : \A c \in Nat \ {0} : a * c <= b * c => a <= b
  BY SMT

LEMMA MulCancelStrict == \A a, b \in Int : \A c \in Nat \ {0} : a * c < b * c => a < b
  BY SMT

-----------------------------------------------------------------------------
(* Types of the operators the actions are built from *)

LEMMA PowTwoThree ==
  ASSUME NEW s \in Specs, NEW n \in 0..(2 * MaxTerms[s] + 1)
  PROVE  BigPow(2, n) \in Nat \ {0} /\ BigPow(3, n) \in Nat \ {0}
  BY PowAssumption

LEMMA ShiftType ==
  ASSUME TypeOK
  PROVE  Shift \in Nat \ {0}
  BY PowAssumption DEF TypeOK, Shift

(* Each series keeps an integer numerator over a positive denominator. *)
LEMMA AdvanceType ==
  ASSUME NEW s \in Specs, NEW n \in Nat, n < MaxTerms[s],
         NEW nu \in Int, NEW de \in Nat \ {0}
  PROVE  /\ Advance(s, n, nu, de)[1] \in Int
         /\ Advance(s, n, nu, de)[2] \in Nat \ {0}
<1> DEFINE odd == 2 * n + 1
<1>1. MaxTerms[s] \in Nat
  BY BoundsAssumption
<1>2. s \in SpecNames
  BY SpecsAssumption
<1>3. CASE s = "e"
  <2>1. n # 0 => de * n \in Nat \ {0}
    BY MulType
  <2> QED
    BY <1>3, <2>1 DEF Advance, EAdvance
<1>4. CASE s = "ln2"
  <2> DEFINE k == n + 1
             newden == de * k * 2
  <2>1. k \in Nat \ {0} /\ newden \in Nat \ {0}
    BY MulType
  <2>2. BigPow(2, k) \in Nat \ {0}
    BY <1>1, PowTwoThree
  <2>3. k * BigPow(2, k) \in Nat \ {0}
    BY <2>1, <2>2, MulType
  <2>4. newden \div (k * BigPow(2, k)) \in Int
    BY <2>1, <2>3, DivType
  <2>5. nu * k * 2 \in Int
    BY <2>1
  <2> HIDE DEF k, newden
  <2>6. nu * k * 2 + newden \div (k * BigPow(2, k)) \in Int
    BY <2>4, <2>5
  <2>7. Ln2Advance(n, nu, de)
          = <<nu * k * 2 + newden \div (k * BigPow(2, k)), newden>>
    BY DEF Ln2Advance, k, newden
  <2> QED
    BY <1>4, <2>1, <2>6, <2>7 DEF Advance
<1>5. CASE s = "1/e"
  <2>1. n # 0 => de * n \in Nat \ {0}
    BY MulType
  <2> QED
    BY <1>5, <2>1 DEF Advance, OneOverEAdvance, Sign
<1>6. CASE s = "pi/4"
  <2> DEFINE factor == odd * 4 * 9
             newden == de * factor
             t2 == newden \div (odd * BigPow(2, odd))
             t3 == newden \div (odd * BigPow(3, odd))
  <2>1. odd \in Nat \ {0} /\ odd \in 0..(2 * MaxTerms[s] + 1)
    BY <1>1
  <2>2. factor \in Nat \ {0}
    BY <2>1
  <2>3. newden \in Nat \ {0}
    BY <2>2, MulType
  <2>4. BigPow(2, odd) \in Nat \ {0} /\ BigPow(3, odd) \in Nat \ {0}
    BY <2>1, PowTwoThree
  <2>5. odd * BigPow(2, odd) \in Nat \ {0} /\ odd * BigPow(3, odd) \in Nat \ {0}
    BY <2>1, <2>4, MulType
  <2>6. t2 \in Int /\ t3 \in Int
    BY <2>3, <2>5, DivType
  <2>7. PiQuarterAdvance(n, nu, de)
          = IF n = 0 THEN <<5, 6>>
            ELSE <<nu * factor + Sign(n) * (t2 + t3), newden>>
    BY DEF PiQuarterAdvance
  <2>8. Sign(n) \in {1, -1}
    BY DEF Sign
  <2> HIDE DEF factor, newden, t2, t3
  <2>9. nu * factor \in Int
    BY <2>2
  <2>10. nu * factor + Sign(n) * (t2 + t3) \in Int
    BY <2>6, <2>8, <2>9
  <2> QED
    BY <1>6, <2>3, <2>7, <2>10 DEF Advance
<1>7. CASE s = "catalan"
  <2>1. odd \in Nat \ {0}
    OBVIOUS
  <2>2. de * odd * odd \in Nat \ {0}
    BY <2>1, MulType
  <2>3. nu * odd * odd \in Int
    BY <2>1
  <2>4. nu * odd * odd + Sign(n) * de \in Int
    BY <2>3 DEF Sign
  <2>5. CatalanAdvance(n, nu, de)
          = IF n = 0 THEN <<1, 1>>
            ELSE <<nu * odd * odd + Sign(n) * de, de * odd * odd>>
    BY DEF CatalanAdvance
  <2> HIDE DEF odd
  <2> QED
    BY <1>7, <2>2, <2>4, <2>5 DEF Advance
<1> QED
  BY <1>2, <1>3, <1>4, <1>5, <1>6, <1>7 DEF SpecNames

(* A tail bound is never negative. *)
LEMMA TailType ==
  ASSUME NEW s \in Specs, NEW n \in 0..MaxTerms[s], NEW de \in Nat \ {0}
  PROVE  TailBound(s, n, de) \in Nat
<1>1. MaxTerms[s] \in Nat /\ s \in SpecNames
  BY BoundsAssumption, SpecsAssumption
<1>2. CASE s = "e"
  BY <1>2 DEF TailBound, ETail
<1>3. CASE s = "ln2"
  <2>1. BigPow(2, n) \in Nat \ {0}
    BY <1>1, PowTwoThree
  <2>2. de \div BigPow(2, n) \in Nat
    BY <2>1, DivNat
  <2> QED
    BY <1>3, <2>2 DEF TailBound, Ln2Tail
<1>4. CASE s = "1/e"
  BY <1>4 DEF TailBound, OneOverETail
<1>5. CASE s = "pi/4"
  <2>1. BigPow(2, 2 * n) \in Nat \ {0}
    BY <1>1, PowTwoThree
  <2>2. de \div BigPow(2, 2 * n) \in Nat
    BY <2>1, DivNat
  <2> QED
    BY <1>5, <2>2 DEF TailBound, PiQuarterTail
<1>6. CASE s = "catalan"
  <2> DEFINE odd == 2 * n + 1
  <2>1. odd * odd \in Nat \ {0}
    BY <1>1, MulType
  <2>2. de \div (odd * odd) \in Nat
    BY <2>1, DivNat
  <2> QED
    BY <1>6, <2>2 DEF TailBound, CatalanTail
<1> QED
  BY <1>1, <1>2, <1>3, <1>4, <1>5, <1>6 DEF SpecNames

LEMMA ErrType ==
  ASSUME TypeOK
  PROVE  Err \in Nat
  BY TailType DEF TypeOK, Err

-----------------------------------------------------------------------------
(* Type correctness *)

(* The call that finds the digit bound not yet reached is the only one     *)
(* that can reach it.                                                      *)
TypeInv == TypeOK /\ (pc # "idle" => consumed < MaxDigits)

LEMMA InitType == Init => TypeInv
<1> SUFFICES ASSUME Init PROVE TypeInv
  OBVIOUS
<1>1. MaxTerms[spec] \in Nat /\ MaxDigits \in Nat
  BY BoundsAssumption DEF Init
<1>2. TailBound(spec, 0, 1) \in Nat
  BY <1>1, TailType DEF Init
<1> QED
  BY <1>1, <1>2 DEF Init, TypeOK, TypeInv

(* A refreshed interval is a pair of integers over a positive scale. *)
LEMMA SyncType ==
  ASSUME TypeOK
  PROVE  SyncLo \in Int /\ SyncHi \in Int
<1>1. Shift \in Nat /\ Err \in Nat
  BY ShiftType, ErrType
<1> QED
  BY <1>1 DEF TypeOK, SyncLo, SyncHi

LEMMA DigitType ==
  ASSUME TypeOK
  PROVE  DigitLo \in Int /\ DigitHi \in Int
<1>1. base \in Int
  BY BasesAssumption DEF TypeOK
<1>2. base * SyncLo \in Int /\ base * SyncHi \in Int
  BY <1>1, SyncType
<1> QED
  BY <1>2, DivType DEF TypeOK, DigitLo, DigitHi

LEMMA StepTermType ==
  ASSUME TypeOK, StepTerm, UNCHANGED kind
  PROVE  /\ index' \in 0..MaxTerms[spec] /\ index' = index + 1
         /\ num' \in Int /\ den' \in Nat \ {0}
<1>1. spec \in Specs /\ index \in Nat /\ num \in Int /\ den \in Nat \ {0}
  BY BoundsAssumption DEF TypeOK
<1>2. index < MaxTerms[spec] /\ index' = index + 1
  BY DEF StepTerm
<1>3. MaxTerms[spec] \in Nat
  BY <1>1, BoundsAssumption
<1>4. /\ num' = Advance(spec, index, num, den)[1]
      /\ den' = Advance(spec, index, num, den)[2]
  BY DEF StepTerm
<1> QED
  BY <1>1, <1>2, <1>3, <1>4, AdvanceType

LEMMA NextType == TypeInv /\ [Next]_vars => TypeInv'
<1> SUFFICES ASSUME TypeInv, [Next]_vars PROVE TypeInv'
  OBVIOUS
<1> USE DEF TypeInv, TypeOK, kind, vm, interval, committed
<1>1. CASE NextDigit
  BY <1>1, BoundsAssumption DEF NextDigit
<1>2. CASE CommitDigit
  <2>1. DigitLo \in Int /\ DigitLo % Word \in 0..(Word - 1)
    BY DigitType, BoundsAssumption
  <2>2. SyncLo \in Int /\ SyncHi \in Int
    BY SyncType
  <2>3. base \in Int /\ prefix * base + DigitLo \in Int
    BY <2>1, BasesAssumption
  <2>4. Append(emitted, DigitLo % Word) \in Seq(0..(Word - 1))
    BY <2>1
  <2>5. consumed + 1 \in 0..MaxDigits
    BY <1>2, BoundsAssumption DEF CommitDigit
  <2> QED
    BY <1>2, <2>2, <2>3, <2>4, <2>5 DEF CommitDigit, SyncInterval
<1>3. CASE RefineTerm
  <2>1. SyncLo \in Int /\ SyncHi \in Int
    BY SyncType
  <2>2. /\ index' \in 0..MaxTerms[spec]
        /\ num' \in Int /\ den' \in Nat \ {0}
    BY <1>3, StepTermType DEF RefineTerm
  <2> QED
    BY <1>3, <2>1, <2>2 DEF RefineTerm, SyncInterval
<1>4. CASE Pending
  BY <1>4 DEF Pending
<1>5. ASSUME NEW n \in EagerCounts, Converge(n) PROVE TypeInv'
  <2>1. n + consumed + 4 \in Nat
    BY BoundsAssumption
  <2> QED
    BY <1>5, <2>1 DEF Converge
<1>6. CASE ConvergeTerm
  <2>1. /\ index' \in 0..MaxTerms[spec]
        /\ num' \in Int /\ den' \in Nat \ {0}
    BY <1>6, StepTermType DEF ConvergeTerm
  <2> QED
    BY <1>6, <2>1 DEF ConvergeTerm
<1>7. CASE Converged
  <2>1. SyncLo \in Int /\ SyncHi \in Int
    BY SyncType
  <2> QED
    BY <1>7, <2>1 DEF Converged, SyncInterval
<1>8. CASE UNCHANGED vars
  BY <1>8 DEF vars
<1> QED
  BY <1>1, <1>2, <1>3, <1>4, <1>5, <1>6, <1>7, <1>8 DEF Next, LoopStep

(* The types, with that guard, are kept by every step. *)
THEOREM TypeInvariant == Spec => []TypeInv
  BY InitType, NextType, PTL DEF Spec

(* The extractor's registers keep their types: the numerators may turn     *)
(* negative, the denominator and the scale stay positive.                  *)
THEOREM TypeCorrect == Spec => []TypeOK
  BY TypeInvariant, PTL DEF TypeInv

-----------------------------------------------------------------------------
(* Committed digits are true digits *)

(* The arithmetic of a commit.  S is base^consumed, D the denominator,     *)
(* [n/D, m/D] the interval, pr the digits committed and d the digit both   *)
(* ends agree on: the interval lies in the cell of the digits pr, d.       *)
LEMMA CommitCell ==
  ASSUME NEW b \in Nat \ {0}, NEW S \in Nat \ {0}, NEW D \in Nat \ {0},
         NEW n \in Int, NEW m \in Int, NEW pr \in Int, NEW d \in Int,
         D * d <= b * (n * S - pr * D),
         b * (m * S - pr * D) < D * (d + 1)
  PROVE  /\ (pr * b + d) * D <= n * (b * S)
         /\ m * (b * S) < (pr * b + d + 1) * D
<1> DEFINE c == pr * b + d
           T == b * S
<1>1. /\ b * (n * S - pr * D) = n * T - (pr * b) * D
      /\ b * (m * S - pr * D) = m * T - (pr * b) * D
  BY SMT
<1>2. /\ c * D = (pr * b) * D + D * d
      /\ (c + 1) * D = (pr * b) * D + D * (d + 1)
  BY SMT
<1>3. /\ (pr * b) * D \in Int /\ D * d \in Int /\ D * (d + 1) \in Int
      /\ n * T \in Int /\ m * T \in Int
  BY SMT
<1> HIDE DEF T, c
<1>4. c * D <= n * T /\ m * T < (c + 1) * D
  BY <1>1, <1>2, <1>3
<1> QED
  BY <1>4 DEF T, c

(* A value p/q inside the interval [n/D, (n + e)/D] lies in the same cell. *)
LEMMA CommitBounds ==
  ASSUME NEW b \in Nat \ {0}, NEW S \in Nat \ {0}, NEW D \in Nat \ {0},
         NEW n \in Int, NEW e \in Nat, NEW pr \in Int, NEW d \in Int,
         NEW p \in Nat, NEW q \in Nat \ {0},
         D * d <= b * (n * S - pr * D),
         b * ((n + e) * S - pr * D) < D * (d + 1),
         n * q <= p * D,
         p * D <= (n + e) * q
  PROVE  /\ (pr * b + d) * q <= p * (b * S)
         /\ p * (b * S) < (pr * b + d + 1) * q
<1> DEFINE m == n + e
           c == pr * b + d
           T == b * S
<1>0. m \in Int /\ c \in Int /\ T \in Nat \ {0}
  BY MulType
<1>1. c * D <= n * T /\ m * T < (c + 1) * D
  BY CommitCell
<1> HIDE DEF m, c, T
<1>3. c * q <= p * T
  <2>1. (c * D) * q <= (n * T) * q
    BY <1>0, <1>1, MulMono
  <2>2. (n * q) * T <= (p * D) * T
    BY <1>0, MulMono
  <2>3. (c * q) * D <= (p * T) * D
    <3>1. (c * q) * D = (c * D) * q /\ (n * T) * q = (n * q) * T
          /\ (p * T) * D = (p * D) * T
      BY <1>0
    <3>2. (c * D) * q \in Int /\ (n * T) * q \in Int /\ (p * D) * T \in Int
      BY <1>0
    <3> QED
      BY <2>1, <2>2, <3>1, <3>2
  <2> QED
    BY <1>0, <2>3, MulCancel
<1>4. p * T < (c + 1) * q
  <2>1. (m * T) * q < ((c + 1) * D) * q
    BY <1>0, <1>1, MulStrict
  <2>2. (p * D) * T <= (m * q) * T
    BY <1>0, MulMono DEF m
  <2>3. (p * T) * D < ((c + 1) * q) * D
    <3>1. ((c + 1) * q) * D = ((c + 1) * D) * q /\ (m * T) * q = (m * q) * T
          /\ (p * T) * D = (p * D) * T
      BY <1>0
    <3>2. ((c + 1) * D) * q \in Int /\ (m * T) * q \in Int /\ (p * D) * T \in Int
      BY <1>0
    <3> QED
      BY <2>1, <2>2, <3>1, <3>2
  <2> QED
    BY <1>0, <2>3, MulCancelStrict
<1> QED
  BY <1>3, <1>4 DEF c, T

LEMMA ValueType ==
  ASSUME TypeOK
  PROVE  P \in Nat /\ Q \in Nat \ {0}
  BY ValueAssumption DEF TypeOK, P, Q

LEMMA NextShift ==
  ASSUME TypeOK, consumed < MaxDigits
  PROVE  BigPow(base, consumed + 1) = base * Shift
  BY PowAssumption, BoundsAssumption DEF TypeOK, Shift

(* What a commit knows of the digit it commits. *)
LEMMA CommitDigitBounds ==
  ASSUME TypeInv, CommitDigit
  PROVE  /\ base \in Nat \ {0} /\ Shift \in Nat \ {0} /\ den \in Nat \ {0}
         /\ num \in Int /\ Err \in Nat /\ prefix \in Int /\ DigitLo \in Int
         /\ den * DigitLo <= base * (num * Shift - prefix * den)
         /\ base * ((num + Err) * Shift - prefix * den) < den * (DigitLo + 1)
<1> USE DEF TypeInv
<1>1. /\ base \in Nat \ {0} /\ Shift \in Nat \ {0} /\ den \in Nat \ {0}
      /\ num \in Int /\ Err \in Nat /\ prefix \in Int /\ DigitLo \in Int
      /\ SyncLo \in Int /\ SyncHi \in Int
  BY BasesAssumption, ShiftType, ErrType, DigitType, SyncType DEF TypeOK
<1>2. base * SyncLo \in Int /\ base * SyncHi \in Int
  BY <1>1
<1>3. den * DigitLo <= base * SyncLo
  BY <1>1, <1>2, DivBounds DEF DigitLo
<1>4. base * SyncHi < den * (DigitHi + 1)
  BY <1>1, <1>2, DivBounds DEF DigitHi
<1>5. DigitLo = DigitHi
  BY DEF CommitDigit
<1> QED
  BY <1>1, <1>3, <1>4, <1>5 DEF SyncLo, SyncHi

(* A commit inside an interval that contains the value commits the next    *)
(* digit of the value, whatever was committed before.                      *)
LEMMA CommitIsTrue ==
  ASSUME TypeInv, Encloses, CommitDigit
  PROVE  /\ (prefix * base + DigitLo) * Q <= P * (base * Shift)
         /\ P * (base * Shift) < (prefix * base + DigitLo + 1) * Q
<1>1. P \in Nat /\ Q \in Nat \ {0}
  BY ValueType DEF TypeInv
<1>2. num * Q <= P * den /\ P * den <= (num + Err) * Q
  BY DEF Encloses
<1> QED
  BY <1>1, <1>2, CommitDigitBounds, CommitBounds

(* A step that is no commit leaves the committed digits alone. *)
LEMMA OnlyCommitsCommit ==
  ASSUME [Next]_vars, ~CommitDigit
  PROVE  UNCHANGED <<kind, committed>>
  BY DEF Next, LoopStep, NextDigit, RefineTerm, Pending, Converge,
         ConvergeTerm, Converged, vars, kind, vm, interval, committed

(* No false digit.  As long as the tail oracle keeps its promise, that the *)
(* value lies between the partial sum and the partial sum plus the tail,   *)
(* the digits committed are the leading digits of the value, for every     *)
(* order of calls, pendings and convergence runs.                          *)
THEOREM NoFalseDigitIfEnclosed == Spec /\ []Encloses => []NoFalseDigit
<1>1. Init => NoFalseDigit
  BY DEF Init, NoFalseDigit
<1>2. TypeInv /\ Encloses /\ NoFalseDigit /\ [Next]_vars => NoFalseDigit'
  <2> SUFFICES ASSUME TypeInv, Encloses, NoFalseDigit, [Next]_vars
               PROVE  NoFalseDigit'
    OBVIOUS
  <2>1. CASE CommitDigit
    <3>1. /\ prefix' = prefix * base + DigitLo
          /\ consumed' = consumed + 1
          /\ UNCHANGED kind
      BY <2>1 DEF CommitDigit
    <3>2. consumed < MaxDigits
      BY <2>1 DEF TypeInv, CommitDigit
    <3>3. Shift' = base * Shift
      BY <3>1, <3>2, NextShift DEF TypeInv, Shift, kind
    <3>4. P' = P /\ Q' = Q
      BY <3>1 DEF P, Q, kind
    <3> QED
      BY <2>1, <3>1, <3>3, <3>4, CommitIsTrue DEF NoFalseDigit
  <2>2. CASE ~CommitDigit
    BY <2>2, OnlyCommitsCommit
       DEF NoFalseDigit, P, Q, Shift, kind, committed
  <2> QED
    BY <2>1, <2>2
<1> QED
  BY <1>1, <1>2, TypeInvariant, PTL DEF Spec

-----------------------------------------------------------------------------
(* The extractor implements a digit stream *)

LEMMA DivUnique ==
  ASSUME NEW a \in Int, NEW c \in Int, NEW q \in Nat \ {0},
         c * q <= a, a < (c + 1) * q
  PROVE  a \div q = c
<1> DEFINE k == a \div q
<1>1. k \in Int
  BY DivType
<1>2. q * k <= a /\ a < q * (k + 1)
  BY DivBounds
<1> HIDE DEF k
<1>3. c * q < (k + 1) * q /\ k * q < (c + 1) * q
  BY <1>1, <1>2
<1>4. c < k + 1 /\ k < c + 1
  BY <1>1, <1>3, MulCancelStrict
<1> QED
  BY <1>1, <1>4 DEF k

LEMMA ModDigit ==
  ASSUME NEW b \in Nat \ {0}, NEW c \in Int, NEW d \in 0..(b - 1)
  PROVE  (c * b + d) % b = d
<1> DEFINE a == c * b + d
<1>1. a \in Int /\ c * b \in Int
  OBVIOUS
<1>2. c * b <= a /\ a < (c + 1) * b
  OBVIOUS
<1> HIDE DEF a
<1>3. a \div b = c
  BY <1>1, <1>2, DivUnique
<1>4. a = b * (a \div b) + (a % b)
  BY <1>1
<1> QED
  BY <1>1, <1>3, <1>4 DEF a

(* A digit between two truncations of one value is a digit of the base. *)
LEMMA DigitOfBase ==
  ASSUME NEW b \in Nat \ {0}, NEW S \in Nat \ {0}, NEW pr \in Int,
         NEW d \in Int, NEW p \in Nat, NEW q \in Nat \ {0},
         pr * q <= p * S, p * S < (pr + 1) * q,
         (pr * b + d) * q <= p * (b * S),
         p * (b * S) < (pr * b + d + 1) * q
  PROVE  d \in 0..(b - 1)
<1> DEFINE v == p * S
           c == pr * b + d
<1>1. v \in Int /\ c \in Int /\ p * (b * S) = v * b
  OBVIOUS
<1>2. (pr * q) * b <= v * b /\ v * b < ((pr + 1) * q) * b
  BY MulMono, MulStrict
<1>3. (pr * q) * b = (pr * b) * q /\ ((pr + 1) * q) * b = (pr * b + b) * q
  OBVIOUS
<1>4. c * q <= v * b /\ v * b < (c + 1) * q
  BY <1>1
<1>5. v * b \in Int /\ pr * b \in Int
  BY <1>1
<1> HIDE DEF v
<1>6. c * q < (pr * b + b) * q /\ (pr * b) * q < (c + 1) * q
  BY <1>1, <1>2, <1>3, <1>4, <1>5
<1>7. c < pr * b + b /\ pr * b < c + 1
  BY <1>1, <1>5, <1>6, MulCancelStrict
<1> QED
  BY <1>5, <1>7

(* What the extractor has committed is the value truncated to that many    *)
(* digits, from the start on when the value lies in [0, 1).                *)
Truncated ==
  /\ prefix * Q <= P * Shift
  /\ P * Shift < (prefix + 1) * Q
  /\ Len(emitted) = consumed

(* The extractor is a digit stream of the value.  For a value in [0, 1)    *)
(* and digits that fit a word, under the same promise of the tail oracle,  *)
(* every commit emits the next digit of the expansion and no other step    *)
(* emits anything.                                                         *)
THEOREM ImplementsStreamIfEnclosed ==
  ASSUME \A s \in Specs : Value[s][1] < Value[s][2],
         \A b \in Bases : b <= Word
  PROVE  Spec /\ []Encloses => ImplementsStream
<1>1. Init => Truncated
  <2> SUFFICES ASSUME Init PROVE Truncated
    OBVIOUS
  <2>1. Shift = 1 /\ P \in Nat /\ Q \in Nat \ {0} /\ P < Q
    BY PowAssumption, ValueAssumption DEF Init, Shift, P, Q
  <2> QED
    BY <2>1 DEF Init, Truncated
<1>2. Init => Stream!Init
  BY DEF Init, Stream!Init
<1>3. TypeInv /\ Encloses /\ Truncated /\ [Next]_vars
        => Truncated' /\ [Stream!Emit]_(Stream!vars)
  <2> SUFFICES ASSUME TypeInv, Encloses, Truncated, [Next]_vars
               PROVE  Truncated' /\ [Stream!Emit]_(Stream!vars)
    OBVIOUS
  <2>1. CASE CommitDigit
    <3> DEFINE d == DigitLo
               c == prefix * base + d
    <3>1. /\ prefix' = c /\ consumed' = consumed + 1
          /\ emitted' = Append(emitted, d % Word)
          /\ UNCHANGED kind
      BY <2>1 DEF CommitDigit
    <3>2. /\ base \in Nat \ {0} /\ base <= Word /\ Shift \in Nat \ {0}
          /\ prefix \in Int /\ d \in Int /\ P \in Nat /\ Q \in Nat \ {0}
          /\ Word \in Nat \ {0}
      BY BasesAssumption, BoundsAssumption, ShiftType, DigitType, ValueType
         DEF TypeInv, TypeOK
    <3>3. /\ c * Q <= P * (base * Shift)
          /\ P * (base * Shift) < (c + 1) * Q
      BY <2>1, CommitIsTrue
    <3>4. BigPow(base, consumed + 1) = base * Shift
      BY <2>1, NextShift DEF TypeInv, CommitDigit
    <3>5. P' = P /\ Q' = Q /\ base' = base /\ Shift' = base * Shift
      BY <3>1, <3>4 DEF P, Q, Shift, kind
    <3>6. d \in 0..(base - 1)
      BY <3>2, <3>3, DigitOfBase DEF Truncated
    <3>7. d % Word = d
      BY <3>2, <3>6
    <3>8. (P * (base * Shift)) \div Q = c
      BY <3>2, <3>3, DivUnique
    <3>9. c % base = d
      BY <3>2, <3>6, ModDigit
    <3>10. emitted \in Seq(0..(Word - 1))
      BY DEF TypeInv, TypeOK
    <3>11. Len(emitted) = consumed /\ Len(emitted') = consumed'
      BY <3>1, <3>10 DEF Truncated
    <3>12. Stream!DigitAt(Len(emitted) + 1) = d
      BY <3>4, <3>8, <3>9, <3>11 DEF Stream!DigitAt, P, Q
    <3>13. Stream!Emit
      BY <3>1, <3>7, <3>12 DEF Stream!Emit, kind
    <3>14. Truncated'
      BY <3>1, <3>3, <3>5, <3>11 DEF Truncated
    <3> QED
      BY <3>13, <3>14
  <2>2. CASE ~CommitDigit
    BY <2>2, OnlyCommitsCommit
       DEF Truncated, P, Q, Shift, kind, committed, Stream!vars
  <2> QED
    BY <2>1, <2>2
<1> QED
  BY <1>1, <1>2, <1>3, TypeInvariant, PTL
     DEF Spec, ImplementsStream, Stream!Spec

-----------------------------------------------------------------------------
(* The partial sums of each series *)

\* One step of the machine, as a pair.
After(s, n, x) ==
  <<Advance(s, n, x[1], x[2])[1], Advance(s, n, x[1], x[2])[2]>>

\* The accumulators of s after each number of terms.
Sums(s) ==
  LET sum[n \in 0..MaxTerms[s]] ==
        IF n = 0 THEN <<0, 1>> ELSE After(s, n - 1, sum[n - 1])
  IN  sum

Num(s, n) == Sums(s)[n][1]
Den(s, n) == Sums(s)[n][2]
Rest(s, n) == TailBound(s, n, Den(s, n))

LEMMA SumsStepwise ==
  ASSUME NEW s \in Specs
  PROVE  /\ Sums(s) \in [0..MaxTerms[s] -> Int \X (Nat \ {0})]
         /\ Sums(s)[0] = <<0, 1>>
         /\ \A n \in 0..(MaxTerms[s] - 1) : Sums(s)[n + 1] = After(s, n, Sums(s)[n])
<1> DEFINE m == MaxTerms[s]
           A == Int \X (Nat \ {0})
           F == [n \in Nat |-> [x \in A |-> IF n < m THEN After(s, n, x) ELSE x]]
           Solves(f) == f = [n \in 0..m |-> IF n = 0 THEN <<0, 1>>
                                            ELSE After(s, n - 1, f[n - 1])]
<1>1. m \in Nat
  BY BoundsAssumption
<1>2. \A n \in Nat, x \in A : n < m => After(s, n, x) \in A
  BY AdvanceType DEF After
<1>3. <<0, 1>> \in A /\ F \in [Nat -> [A -> A]]
  BY <1>2
<1>4. PICK g \in [Nat -> A] : Runs(g, <<0, 1>>, F)
  <2> HIDE DEF A, F
  <2> QED
    BY <1>3, PrimitiveRecursion
<1> DEFINE h == [n \in 0..m |-> g[n]]
<1>5. h \in [0..m -> A]
  BY <1>1
<1>6. Solves(h)
  <2>1. ASSUME NEW n \in 0..m
        PROVE  h[n] = IF n = 0 THEN <<0, 1>> ELSE After(s, n - 1, h[n - 1])
    <3>1. CASE n = 0
      BY <1>4, <3>1 DEF Runs
    <3>2. CASE n # 0
      <4>1. n - 1 \in Nat /\ n - 1 < m /\ n - 1 \in 0..m /\ (n - 1) + 1 = n
        BY <1>1, <3>2
      <4>2. g[n] = F[n - 1][g[n - 1]]
        BY <1>4, <4>1 DEF Runs
      <4>3. g[n - 1] \in A
        BY <4>1
      <4>4. F[n - 1][g[n - 1]] = After(s, n - 1, g[n - 1])
        BY <4>1, <4>3
      <4> QED
        BY <3>2, <4>1, <4>2, <4>4
    <3> QED
      BY <3>1, <3>2
  <2> QED
    BY <2>1
<1>7. Solves(Sums(s))
  <2>1. Sums(s) = CHOOSE f : Solves(f)
    BY DEF Sums
  <2> HIDE DEF Solves
  <2> QED
    BY <1>6, <2>1
<1> DEFINE S == Sums(s)
<1> HIDE DEF S
<1>8. S = [n \in 0..m |-> IF n = 0 THEN <<0, 1>> ELSE After(s, n - 1, S[n - 1])]
  BY <1>7 DEF S
<1>9. S[0] = <<0, 1>>
  <2>1. 0 \in 0..m
    BY <1>1
  <2> QED
    BY <1>8, <2>1
<1>10. ASSUME NEW n \in 0..(m - 1) PROVE S[n + 1] = After(s, n, S[n])
  <2>1. n + 1 \in 0..m /\ n + 1 # 0 /\ (n + 1) - 1 = n
    BY <1>1
  <2> QED
    BY <1>8, <2>1
<1>11. \A n \in 0..m : S[n] \in A
  <2> DEFINE T == {n \in Nat : S[n] \in A}
  <2>1. 0 \in T
    BY <1>3, <1>9
  <2>2. ASSUME NEW n \in Nat, n < m, n \in T PROVE n + 1 \in T
    <3>1. n \in 0..(m - 1) /\ S[n] \in A
      BY <1>1, <2>2
    <3>2. S[n + 1] = After(s, n, S[n])
      BY <1>10, <3>1
    <3>3. After(s, n, S[n]) \in A
      <4> HIDE DEF A, m
      <4> QED
        BY <1>2, <2>2, <3>1
    <3> QED
      BY <3>2, <3>3
  <2>3. \A n \in 0..m : n \in T
    <3> HIDE DEF T, m
    <3> QED
      BY <1>1, <2>1, <2>2, BoundedInduction
  <2> QED
    BY <2>3
<1>12. S \in [0..m -> A]
  BY <1>8, <1>11
<1> QED
  BY <1>9, <1>10, <1>12 DEF S

(* The same, component by component. *)
LEMMA SumFacts ==
  ASSUME NEW s \in Specs
  PROVE  /\ MaxTerms[s] \in Nat
         /\ Num(s, 0) = 0 /\ Den(s, 0) = 1
         /\ \A n \in 0..MaxTerms[s] :
              Num(s, n) \in Int /\ Den(s, n) \in Nat \ {0} /\ Rest(s, n) \in Nat
         /\ \A n \in 0..(MaxTerms[s] - 1) :
              /\ Num(s, n + 1) = Advance(s, n, Num(s, n), Den(s, n))[1]
              /\ Den(s, n + 1) = Advance(s, n, Num(s, n), Den(s, n))[2]
<1>1. MaxTerms[s] \in Nat
  BY BoundsAssumption
<1>2. Num(s, 0) = 0 /\ Den(s, 0) = 1
  BY SumsStepwise DEF Num, Den
<1>3. ASSUME NEW n \in 0..MaxTerms[s]
      PROVE  Num(s, n) \in Int /\ Den(s, n) \in Nat \ {0} /\ Rest(s, n) \in Nat
  <2>1. Num(s, n) \in Int /\ Den(s, n) \in Nat \ {0}
    BY SumsStepwise DEF Num, Den
  <2> QED
    BY <2>1, TailType DEF Rest
<1>4. ASSUME NEW n \in 0..(MaxTerms[s] - 1)
      PROVE  /\ Num(s, n + 1) = Advance(s, n, Num(s, n), Den(s, n))[1]
             /\ Den(s, n + 1) = Advance(s, n, Num(s, n), Den(s, n))[2]
  BY SumsStepwise DEF Num, Den, After
<1> QED
  BY <1>1, <1>2, <1>3, <1>4

(* The next partial sum is no smaller and no larger than the tail allows:  *)
(* the next interval lies inside this one.                                 *)
Narrows(s, n) ==
  \E f \in Nat \ {0} :
    /\ Den(s, n + 1) = Den(s, n) * f
    /\ Num(s, n) * f <= Num(s, n + 1)
    /\ Num(s, n + 1) + Rest(s, n + 1) <= (Num(s, n) + Rest(s, n)) * f

LEMMA ETerms ==
  ASSUME "e" \in Specs, NEW n \in 0..(MaxTerms["e"] - 1)
  PROVE  /\ n = 0 => Num("e", 1) = 1 /\ Den("e", 1) = 1
         /\ n # 0 => /\ Num("e", n + 1) = Num("e", n) * n + 1
                     /\ Den("e", n + 1) = Den("e", n) * n
<1>1. /\ Num("e", n + 1) = EAdvance(n, Num("e", n), Den("e", n))[1]
      /\ Den("e", n + 1) = EAdvance(n, Num("e", n), Den("e", n))[2]
  BY SumFacts DEF Advance
<1> QED
  BY <1>1 DEF EAdvance

LEMMA ERest ==
  ASSUME "e" \in Specs, NEW n \in 0..MaxTerms["e"]
  PROVE  Rest("e", n) = IF n = 0 THEN 3 ELSE 2
  BY DEF Rest, TailBound, ETail

(* e: the step from n >= 2 terms, and the step from none. *)
LEMMA ENarrows ==
  ASSUME "e" \in Specs, NEW n \in 0..(MaxTerms["e"] - 1), n # 1
  PROVE  Narrows("e", n)
<1> DEFINE a == Num("e", n)
           b == Den("e", n)
<1>1. /\ n \in Nat /\ n + 1 \in 0..MaxTerms["e"] /\ n \in 0..MaxTerms["e"]
      /\ a \in Int /\ b \in Nat \ {0}
  BY SumFacts
<1>2. Rest("e", n + 1) = 2
  BY <1>1, ERest
<1>3. CASE n = 0
  <2>1. Num("e", n) = 0 /\ Den("e", n) = 1 /\ Rest("e", n) = 3
    BY <1>1, <1>3, SumFacts, ERest
  <2>2. Num("e", n + 1) = 1 /\ Den("e", n + 1) = 1
    BY <1>3, ETerms
  <2> QED
    BY <1>2, <2>1, <2>2 DEF Narrows
<1>4. CASE n # 0
  <2>1. Rest("e", n) = 2
    BY <1>1, <1>4, ERest
  <2>2. Num("e", n + 1) = a * n + 1 /\ Den("e", n + 1) = b * n
    BY <1>4, ETerms
  <2> HIDE DEF a, b
  <2>3. a * n \in Int /\ (a + 2) * n = a * n + 2 * n
    BY <1>1
  <2>4. n >= 2
    BY <1>1, <1>4
  <2>5. a * n <= a * n + 1 /\ (a * n + 1) + 2 <= (a + 2) * n
    BY <1>1, <2>3, <2>4
  <2> QED
    BY <1>1, <1>2, <1>4, <2>1, <2>2, <2>5 DEF Narrows, a, b
<1> QED
  BY <1>3, <1>4

(* ln 2: the denominator is F 2^n, the term and the tail are F over it. *)
Ln2Fits(n) ==
  \E F \in Nat \ {0} :
    Den("ln2", n) = F * BigPow(2, n) /\ Rest("ln2", n) = F

LEMMA Ln2Step ==
  ASSUME "ln2" \in Specs, NEW n \in 0..(MaxTerms["ln2"] - 1), Ln2Fits(n)
  PROVE  /\ Ln2Fits(n + 1)
         /\ Narrows("ln2", n)
         /\ Den("ln2", n + 1) = Den("ln2", n) * (2 * (n + 1))
         /\ Num("ln2", n + 1) = Num("ln2", n) * (2 * (n + 1)) + Rest("ln2", n)
<1> DEFINE k == n + 1
           p == BigPow(2, n)
           f == 2 * k
           a == Num("ln2", n)
           b == Den("ln2", n)
<1>1. /\ n \in Nat /\ k \in Nat \ {0} /\ f \in Nat \ {0}
      /\ a \in Int /\ b \in Nat \ {0} /\ MaxTerms["ln2"] \in Nat
      /\ k \in 0..MaxTerms["ln2"]
  BY SumFacts
<1>2. /\ Num("ln2", k) = a * k * 2 + (b * k * 2) \div (k * BigPow(2, k))
      /\ Den("ln2", k) = b * k * 2
  BY SumFacts DEF Advance, Ln2Advance
<1>3. p \in Nat \ {0} /\ BigPow(2, k) = 2 * p
  BY <1>1, PowAssumption
<1>4. PICK F \in Nat \ {0} : b = F * p /\ Rest("ln2", n) = F
  BY DEF Ln2Fits
<1>5. Rest("ln2", k) = Den("ln2", k) \div BigPow(2, k)
  BY <1>1 DEF Rest, TailBound, Ln2Tail
<1> HIDE DEF p, a, b, k, f
<1>6. b * k * 2 = (F * k) * (2 * p) /\ b * k * 2 = F * (k * (2 * p))
  BY <1>1, <1>3, <1>4
<1>7. F * k \in Nat \ {0} /\ k * (2 * p) \in Nat \ {0} /\ 2 * p \in Nat \ {0}
  BY <1>1, <1>3, MulType
<1>8. (b * k * 2) \div (k * (2 * p)) = F
  <2>1. F * (k * (2 * p)) < (F + 1) * (k * (2 * p))
    BY <1>7
  <2> QED
    BY <1>6, <1>7, <2>1, DivUnique
<1>9. Rest("ln2", k) = F * k
  <2>1. (F * k) * (2 * p) < (F * k + 1) * (2 * p)
    BY <1>7
  <2>2. ((F * k) * (2 * p)) \div (2 * p) = F * k
    BY <1>7, <2>1, DivUnique
  <2> QED
    BY <1>2, <1>3, <1>5, <1>6, <2>2
<1>10. Num("ln2", k) = a * k * 2 + F
  BY <1>2, <1>3, <1>8
<1>11. a * k * 2 = a * f /\ b * k * 2 = b * f
  BY <1>1 DEF f
<1>12. Ln2Fits(k)
  <2>1. Den("ln2", k) = (F * k) * BigPow(2, k)
    BY <1>2, <1>3, <1>6
  <2> QED
    BY <1>7, <1>9, <2>1 DEF Ln2Fits
<1>13. a * f + F + F * k <= (a + F) * f
  <2>1. (a + F) * f = a * f + 2 * (F * k)
    BY <1>1 DEF f
  <2>2. F <= F * k
    BY <1>1
  <2>3. a * f \in Int
    BY <1>1
  <2> QED
    BY <1>7, <2>1, <2>2, <2>3
<1>14. a * f <= a * f + F
  BY <1>1
<1>15. Narrows("ln2", n)
  BY <1>1, <1>2, <1>4, <1>9, <1>10, <1>11, <1>13, <1>14 DEF Narrows, a, b, k
<1> QED
  BY <1>2, <1>4, <1>10, <1>11, <1>12, <1>15 DEF a, b, k, f

LEMMA Ln2Fit ==
  ASSUME "ln2" \in Specs
  PROVE  \A n \in 0..MaxTerms["ln2"] : Ln2Fits(n)
<1> DEFINE m == MaxTerms["ln2"]
           T == {n \in Nat : Ln2Fits(n)}
<1>1. m \in Nat
  BY SumFacts
<1>2. 0 \in T
  <2>1. Den("ln2", 0) = 1 /\ Rest("ln2", 0) = 1 /\ BigPow(2, 0) = 1
    BY SumFacts, PowAssumption DEF Rest, TailBound, Ln2Tail
  <2> QED
    BY <2>1 DEF Ln2Fits
<1>3. ASSUME NEW n \in Nat, n < m, n \in T PROVE n + 1 \in T
  <2>1. n \in 0..(m - 1)
    BY <1>1, <1>3
  <2> QED
    BY <1>3, <2>1, Ln2Step
<1>4. \A n \in 0..m : n \in T
  <2> HIDE DEF T, m
  <2> QED
    BY <1>1, <1>2, <1>3, BoundedInduction
<1> QED
  BY <1>4

-----------------------------------------------------------------------------
(* The series whose terms change sign *)

(* One term of such a series: over the next denominator, f times this one, *)
(* it adds or subtracts u.                                                 *)
Steps(s, n, f, u) ==
  /\ f \in Nat \ {0} /\ u \in Nat
  /\ Den(s, n + 1) = Den(s, n) * f
  /\ Num(s, n + 1) = Num(s, n) * f + Sign(n) * u

(* The tail bound covers the next term. *)
Covers(s, n) == \E f, u \in Nat : Steps(s, n, f, u) /\ u <= Rest(s, n) * f

(* The term after the next is no larger than the next. *)
Shrinks(s, n) ==
  \E f, u, g, w \in Nat :
    Steps(s, n, f, u) /\ Steps(s, n + 1, g, w) /\ w <= u * g

LEMMA OneOverESteps ==
  ASSUME "1/e" \in Specs, NEW n \in 0..(MaxTerms["1/e"] - 1)
  PROVE  Steps("1/e", n, IF n = 0 THEN 1 ELSE n, 1)
<1>1. /\ Num("1/e", n + 1) = OneOverEAdvance(n, Num("1/e", n), Den("1/e", n))[1]
      /\ Den("1/e", n + 1) = OneOverEAdvance(n, Num("1/e", n), Den("1/e", n))[2]
  BY SumFacts DEF Advance
<1>2. CASE n = 0
  <2>1. Num("1/e", 0) = 0 /\ Den("1/e", 0) = 1 /\ Sign(0) = 1
    BY SumFacts DEF Sign
  <2> QED
    BY <1>1, <1>2, <2>1 DEF OneOverEAdvance, Steps
<1>3. CASE n # 0
  <2>1. n \in Nat \ {0} /\ Sign(n) * 1 = Sign(n)
    BY <1>3 DEF Sign
  <2> QED
    BY <1>1, <1>3, <2>1 DEF OneOverEAdvance, Steps
<1> QED
  BY <1>2, <1>3

LEMMA OneOverEAlternates ==
  ASSUME "1/e" \in Specs, NEW n \in 0..(MaxTerms["1/e"] - 1)
  PROVE  /\ Covers("1/e", n)
         /\ n + 1 < MaxTerms["1/e"] => Shrinks("1/e", n)
<1> DEFINE f == IF n = 0 THEN 1 ELSE n
<1>1. MaxTerms["1/e"] \in Nat /\ n \in Nat /\ f \in Nat \ {0}
  BY SumFacts
<1>2. Steps("1/e", n, f, 1)
  BY OneOverESteps
<1>3. Rest("1/e", n) = IF n = 0 THEN 2 ELSE 1
  BY DEF Rest, TailBound, OneOverETail
<1>4. 1 <= Rest("1/e", n) * f
  BY <1>1, <1>3
<1>5. ASSUME n + 1 < MaxTerms["1/e"] PROVE Shrinks("1/e", n)
  <2>1. n + 1 \in 0..(MaxTerms["1/e"] - 1) /\ n + 1 # 0
    BY <1>1, <1>5
  <2>2. Steps("1/e", n + 1, n + 1, 1)
    BY <2>1, OneOverESteps
  <2>3. 1 <= 1 * (n + 1)
    BY <1>1
  <2> HIDE DEF f
  <2> QED
    BY <1>1, <1>2, <2>2, <2>3 DEF Shrinks
<1> HIDE DEF f
<1> QED
  BY <1>1, <1>2, <1>4, <1>5 DEF Covers

LEMMA CatalanSteps ==
  ASSUME "catalan" \in Specs, NEW n \in 0..(MaxTerms["catalan"] - 1)
  PROVE  Steps("catalan", n, (2 * n + 1) * (2 * n + 1), Den("catalan", n))
<1> DEFINE odd == 2 * n + 1
           f == odd * odd
           a == Num("catalan", n)
           b == Den("catalan", n)
<1>1. n \in Nat /\ odd \in Nat \ {0} /\ a \in Int /\ b \in Nat \ {0}
  BY SumFacts
<1>2. f \in Nat \ {0}
  BY <1>1, MulType
<1>3. /\ Num("catalan", n + 1) = CatalanAdvance(n, a, b)[1]
      /\ Den("catalan", n + 1) = CatalanAdvance(n, a, b)[2]
  BY SumFacts DEF Advance
<1>4. CASE n = 0
  <2>1. a = 0 /\ b = 1 /\ Sign(0) = 1 /\ f = 1
    BY <1>4, SumFacts DEF Sign
  <2>2. Num("catalan", n + 1) = 1 /\ Den("catalan", n + 1) = 1
    BY <1>3, <1>4 DEF CatalanAdvance
  <2> HIDE DEF f, a, b
  <2>3. 1 = b * f /\ 1 = a * f + Sign(n) * b
    BY <1>4, <2>1
  <2> QED
    BY <1>1, <1>2, <2>2, <2>3 DEF Steps, f, a, b
<1>5. CASE n # 0
  <2>1. /\ Num("catalan", n + 1) = a * odd * odd + Sign(n) * b
        /\ Den("catalan", n + 1) = b * odd * odd
    BY <1>3, <1>5 DEF CatalanAdvance
  <2> HIDE DEF odd, a, b
  <2>2. a * odd * odd = a * f /\ b * odd * odd = b * f
    BY <1>1
  <2> QED
    BY <1>1, <1>2, <2>1, <2>2 DEF Steps, odd, a, b
<1> QED
  BY <1>4, <1>5

LEMMA CatalanAlternates ==
  ASSUME "catalan" \in Specs, NEW n \in 0..(MaxTerms["catalan"] - 1)
  PROVE  /\ Covers("catalan", n)
         /\ n + 1 < MaxTerms["catalan"] => Shrinks("catalan", n)
<1> DEFINE odd == 2 * n + 1
           f == odd * odd
           b == Den("catalan", n)
           q == b \div f
<1>1. MaxTerms["catalan"] \in Nat /\ n \in Nat /\ odd \in Nat \ {0} /\ b \in Nat \ {0}
  BY SumFacts
<1>2. f \in Nat \ {0}
  BY <1>1, MulType
<1>3. Steps("catalan", n, f, b)
  BY CatalanSteps
<1>4. Rest("catalan", n) = IF n = 0 THEN b
                           ELSE 2 * (IF b % f = 0 THEN q ELSE q + 1)
  BY DEF Rest, TailBound, CatalanTail
<1> HIDE DEF b, f
<1>5. b <= Rest("catalan", n) * f
  <2>1. CASE n = 0
    <3>1. b <= b * f
      BY <1>1, <1>2
    <3> QED
      BY <1>4, <2>1, <3>1
  <2>2. CASE n # 0
    <3>1. q \in Nat /\ b = f * q + (b % f) /\ f * q <= b /\ b < f * (q + 1)
      BY <1>1, <1>2, DivNat, DivBounds
    <3> HIDE DEF q
    <3>2. CASE b % f = 0
      <4>1. b = f * q
        BY <1>1, <1>2, <3>1, <3>2
      <4>2. f * q \in Nat /\ (2 * q) * f = 2 * (f * q)
        BY <1>2, <3>1
      <4> QED
        BY <1>1, <1>4, <2>2, <3>2, <4>1, <4>2
    <3>3. CASE b % f # 0
      <4>1. f * (q + 1) \in Nat /\ (2 * (q + 1)) * f = 2 * (f * (q + 1))
        BY <1>2, <3>1
      <4> QED
        BY <1>1, <1>4, <2>2, <3>1, <3>3, <4>1
    <3> QED
      BY <3>2, <3>3
  <2> QED
    BY <2>1, <2>2
<1>6. ASSUME n + 1 < MaxTerms["catalan"] PROVE Shrinks("catalan", n)
  <2> DEFINE g == (2 * (n + 1) + 1) * (2 * (n + 1) + 1)
  <2>1. n + 1 \in 0..(MaxTerms["catalan"] - 1) /\ g \in Nat
    BY <1>1, <1>6
  <2>2. Steps("catalan", n + 1, g, Den("catalan", n + 1))
    BY <2>1, CatalanSteps
  <2>3. f <= g
    BY <1>1 DEF f
  <2> HIDE DEF g
  <2>4. b * f <= b * g /\ b * f \in Nat
    BY <1>1, <1>2, <2>1, <2>3
  <2>5. Den("catalan", n + 1) = b * f
    BY <1>3 DEF Steps, b
  <2> QED
    BY <1>1, <1>2, <1>3, <2>1, <2>2, <2>4, <2>5 DEF Shrinks
<1> QED
  BY <1>1, <1>2, <1>3, <1>5, <1>6 DEF Covers

(* pi/4: the denominator is 6^(2 n - 1) times a product of odd numbers.    *)
PiFits(n, x, y, z) ==
  /\ x \in Nat \ {0} /\ y \in Nat /\ z \in Nat \ {0} /\ x <= y /\ 3 <= y
  /\ x = BigPow(2, 2 * n - 1) /\ y = BigPow(3, 2 * n - 1)
  /\ Den("pi/4", n) = x * y * z

LEMMA PowTwice ==
  ASSUME NEW s \in Specs, NEW b \in {2, 3}, NEW n \in Nat,
         n + 2 <= 2 * MaxTerms[s] + 1
  PROVE  BigPow(b, n + 2) = (b * b) * BigPow(b, n)
<1>1. n \in 0..(2 * MaxTerms[s] + 1) /\ n + 1 \in 0..(2 * MaxTerms[s] + 1)
  BY BoundsAssumption
<1>2. /\ BigPow(b, n) \in Nat /\ BigPow(b, n + 1) = b * BigPow(b, n)
      /\ BigPow(b, (n + 1) + 1) = b * BigPow(b, n + 1)
  BY <1>1, PowAssumption
<1>3. n + 2 = (n + 1) + 1
  OBVIOUS
<1>4. b * (b * BigPow(b, n)) = (b * b) * BigPow(b, n)
  BY <1>2
<1> QED
  BY <1>2, <1>3, <1>4

LEMMA PiFirst ==
  ASSUME "pi/4" \in Specs, 0 < MaxTerms["pi/4"]
  PROVE  Steps("pi/4", 0, 6, 5) /\ PiFits(1, 2, 3, 1)
<1>1. /\ Num("pi/4", 1) = 5 /\ Den("pi/4", 1) = 6
      /\ Num("pi/4", 0) = 0 /\ Den("pi/4", 0) = 1 /\ Sign(0) = 1
  <2>1. 0 \in 0..(MaxTerms["pi/4"] - 1) /\ 0 + 1 = 1
    BY SumFacts
  <2>2. /\ Num("pi/4", 0 + 1) = PiQuarterAdvance(0, Num("pi/4", 0), Den("pi/4", 0))[1]
        /\ Den("pi/4", 0 + 1) = PiQuarterAdvance(0, Num("pi/4", 0), Den("pi/4", 0))[2]
    BY <2>1, SumFacts DEF Advance
  <2>3. PiQuarterAdvance(0, Num("pi/4", 0), Den("pi/4", 0)) = <<5, 6>>
    BY DEF PiQuarterAdvance
  <2> QED
    BY <2>1, <2>2, <2>3, SumFacts DEF Sign
<1>2. BigPow(2, 1) = 2 /\ BigPow(3, 1) = 3
  <2>1. MaxTerms["pi/4"] \in Nat
    BY BoundsAssumption
  <2>2. 0 \in 0..(2 * MaxTerms["pi/4"] + 1)
    BY <2>1
  <2>3. \A b \in {2, 3} : BigPow(b, 0) = 1 /\ BigPow(b, 0 + 1) = b * BigPow(b, 0)
    BY <2>2, PowAssumption
  <2> QED
    BY <2>3
<1>3. Steps("pi/4", 0, 6, 5)
  BY <1>1 DEF Steps
<1>4. PiFits(1, 2, 3, 1)
  BY <1>1, <1>2 DEF PiFits
<1> QED
  BY <1>3, <1>4

LEMMA PiStep ==
  ASSUME "pi/4" \in Specs, NEW n \in 1..(MaxTerms["pi/4"] - 1),
         NEW x, NEW y, NEW z, PiFits(n, x, y, z)
  PROVE  /\ PiFits(n + 1, 4 * x, 9 * y, (2 * n + 1) * z)
         /\ Steps("pi/4", n, 36 * (2 * n + 1), 9 * (y * z) + 4 * (x * z))
<1> DEFINE odd == 2 * n + 1
           a == Num("pi/4", n)
           b == Den("pi/4", n)
           c == b * (odd * 4 * 9)
           f == 36 * odd
           u == 9 * (y * z) + 4 * (x * z)
<1>1. /\ n \in Nat \ {0} /\ odd \in Nat \ {0} /\ MaxTerms["pi/4"] \in Nat
      /\ a \in Int /\ b \in Nat \ {0}
  BY SumFacts
<1>2. /\ x \in Nat \ {0} /\ y \in Nat \ {0} /\ z \in Nat \ {0} /\ x <= y /\ 3 <= y
      /\ x = BigPow(2, 2 * n - 1) /\ y = BigPow(3, 2 * n - 1)
      /\ b = x * y * z
  BY DEF PiFits
<1>3. BigPow(2, odd) = 4 * x /\ BigPow(3, odd) = 9 * y
  <2>1. 2 * n - 1 \in Nat /\ (2 * n - 1) + 2 = odd
        /\ (2 * n - 1) + 2 <= 2 * MaxTerms["pi/4"] + 1
    BY <1>1
  <2>2. \A e \in {2, 3} : BigPow(e, (2 * n - 1) + 2) = (e * e) * BigPow(e, 2 * n - 1)
    BY <2>1, PowTwice
  <2>3. BigPow(2, (2 * n - 1) + 2) = (2 * 2) * BigPow(2, 2 * n - 1)
    BY <2>2
  <2>4. BigPow(3, (2 * n - 1) + 2) = (3 * 3) * BigPow(3, 2 * n - 1)
    BY <2>2
  <2> QED
    BY <1>2, <2>1, <2>3, <2>4
<1>4. /\ Den("pi/4", n + 1) = c
      /\ Num("pi/4", n + 1)
           = a * (odd * 4 * 9) + Sign(n) * (  c \div (odd * BigPow(2, odd))
                                            + c \div (odd * BigPow(3, odd)))
  <2>1. n \in 0..(MaxTerms["pi/4"] - 1)
    BY <1>1
  <2>2. PiQuarterAdvance(n, a, b)
          = <<a * (odd * 4 * 9) + Sign(n) * (  c \div (odd * BigPow(2, odd))
                                             + c \div (odd * BigPow(3, odd))), c>>
    BY <1>1 DEF PiQuarterAdvance
  <2>3. /\ Num("pi/4", n + 1) = PiQuarterAdvance(n, a, b)[1]
        /\ Den("pi/4", n + 1) = PiQuarterAdvance(n, a, b)[2]
    BY <2>1, SumFacts DEF Advance
  <2> QED
    BY <2>2, <2>3
<1> HIDE DEF odd, a, b
<1>5. odd * 4 * 9 = f /\ f \in Nat \ {0} /\ c = b * f /\ c \in Int
  BY <1>1
<1>6. y * z \in Nat \ {0} /\ x * z \in Nat \ {0}
  BY <1>2, MulType
<1>7. b = x * (y * z) /\ b = y * (x * z)
  BY <1>2
<1> DEFINE v == y * z
           w == x * z
<1> HIDE DEF v, w
<1>8. v \in Nat \ {0} /\ w \in Nat \ {0} /\ b = x * v /\ b = y * w
  BY <1>6, <1>7 DEF v, w
<1>9. c \div (odd * (4 * x)) = 9 * v
  <2> DEFINE d == odd * (4 * x)
  <2>1. 4 * x \in Nat \ {0}
    BY <1>2
  <2>2. d \in Nat \ {0}
    BY <1>1, <2>1, MulType
  <2>3. (9 * v) * d = (x * v) * f
    BY <1>1, <1>2, <1>8
  <2> HIDE DEF d
  <2>4. (9 * v) * d = c /\ (9 * v) * d < (9 * v + 1) * d /\ 9 * v \in Int
    BY <1>5, <1>8, <2>2, <2>3
  <2>5. c \div d = 9 * v
    BY <1>5, <2>2, <2>4, DivUnique
  <2> QED
    BY <2>5 DEF d
<1>10. c \div (odd * (9 * y)) = 4 * w
  <2> DEFINE d == odd * (9 * y)
  <2>1. 9 * y \in Nat \ {0}
    BY <1>2
  <2>2. d \in Nat \ {0}
    BY <1>1, <2>1, MulType
  <2>3. (4 * w) * d = (y * w) * f
    BY <1>1, <1>2, <1>8
  <2> HIDE DEF d
  <2>4. (4 * w) * d = c /\ (4 * w) * d < (4 * w + 1) * d /\ 4 * w \in Int
    BY <1>5, <1>8, <2>2, <2>3
  <2>5. c \div d = 4 * w
    BY <1>5, <2>2, <2>4, DivUnique
  <2> QED
    BY <2>5 DEF d
<1>11. Num("pi/4", n + 1) = a * f + Sign(n) * (9 * v + 4 * w)
  BY <1>3, <1>4, <1>5, <1>9, <1>10
<1>12. Steps("pi/4", n, f, u)
  <2>1. u = 9 * v + 4 * w
    BY DEF v, w
  <2>2. u \in Nat
    BY <1>8, <2>1
  <2> HIDE DEF u, f
  <2> QED
    BY <1>4, <1>5, <1>11, <2>1, <2>2 DEF Steps, a, b
<1>13. PiFits(n + 1, 4 * x, 9 * y, odd * z)
  <2>1. odd * z \in Nat \ {0}
    BY <1>1, <1>2, MulType
  <2>2. 2 * (n + 1) - 1 = odd
    BY <1>1 DEF odd
  <2>3. c = (4 * x) * (9 * y) * (odd * z)
    <3>1. c = (x * y * z) * f
      BY <1>2, <1>5
    <3>2. (x * y * z) * f = (4 * x) * (9 * y) * (odd * z)
      BY <1>1, <1>2
    <3> QED
      BY <3>1, <3>2
  <2>4. /\ 4 * x \in Nat \ {0} /\ 9 * y \in Nat /\ 4 * x <= 9 * y /\ 3 <= 9 * y
    BY <1>2
  <2> QED
    BY <1>3, <1>4, <2>1, <2>2, <2>3, <2>4 DEF PiFits
<1> QED
  BY <1>12, <1>13 DEF odd, u, f

LEMMA PiFit ==
  ASSUME "pi/4" \in Specs
  PROVE  \A n \in 1..MaxTerms["pi/4"] : \E x, y, z : PiFits(n, x, y, z)
<1> DEFINE m == MaxTerms["pi/4"]
           T == {n \in Nat : n # 0 => \E x, y, z : PiFits(n, x, y, z)}
<1>1. m \in Nat
  BY BoundsAssumption
<1>2. 0 \in T
  OBVIOUS
<1>3. ASSUME NEW n \in Nat, n < m, n \in T PROVE n + 1 \in T
  <2>1. CASE n = 0
    BY <1>1, <1>3, <2>1, PiFirst
  <2>2. CASE n # 0
    <3>1. PICK x, y, z : PiFits(n, x, y, z)
      BY <1>3, <2>2
    <3>2. n \in 1..(m - 1)
      BY <1>1, <1>3, <2>2
    <3> QED
      BY <3>1, <3>2, PiStep
  <2> QED
    BY <2>1, <2>2
<1>4. \A n \in 0..m : n \in T
  <2> HIDE DEF T, m
  <2> QED
    BY <1>1, <1>2, <1>3, BoundedInduction
<1> QED
  BY <1>4

(* The two powers of n are those of the terms; what is left of the tail    *)
(* once the power of two is divided out is rounded down to an even number. *)
LEMMA PiRest ==
  ASSUME "pi/4" \in Specs, NEW n \in 1..MaxTerms["pi/4"],
         NEW x, NEW y, NEW z, PiFits(n, x, y, z)
  PROVE  /\ y * z \in Nat /\ x * z \in Nat /\ x * z <= y * z /\ 3 <= y * z
         /\ y * z - 1 <= Rest("pi/4", n) /\ Rest("pi/4", n) <= y * z
<1> DEFINE v == y * z
           w == x * z
           b == Den("pi/4", n)
           d == 2 * x
           q == b \div d
<1>1. /\ x \in Nat \ {0} /\ y \in Nat \ {0} /\ z \in Nat \ {0} /\ x <= y /\ 3 <= y
      /\ x = BigPow(2, 2 * n - 1) /\ b = x * y * z
      /\ MaxTerms["pi/4"] \in Nat /\ n \in Nat \ {0}
  BY BoundsAssumption DEF PiFits
<1>2. v \in Nat /\ w \in Nat /\ w <= v /\ 3 <= v
  <2>1. x * z <= y * z
    BY <1>1, MulMono
  <2>2. 3 * z <= y * z /\ 3 <= 3 * z
    BY <1>1, MulMono
  <2>3. y * z \in Nat /\ x * z \in Nat
    BY <1>1
  <2> QED
    BY <1>1, <2>1, <2>2, <2>3
<1>3. BigPow(2, 2 * n) = d
  <2>1. 2 * n - 1 \in 0..(2 * MaxTerms["pi/4"] + 1) /\ (2 * n - 1) + 1 = 2 * n
    BY <1>1
  <2>2. BigPow(2, (2 * n - 1) + 1) = 2 * BigPow(2, 2 * n - 1)
    BY <2>1, PowAssumption
  <2> QED
    BY <1>1, <2>1, <2>2
<1>4. Rest("pi/4", n) = 2 * q
  <2>1. Rest("pi/4", n) = 2 * (b \div BigPow(2, 2 * n))
    BY <1>1 DEF Rest, TailBound, PiQuarterTail
  <2> QED
    BY <1>3, <2>1
<1>5. b = x * v /\ b \in Nat /\ d \in Nat \ {0}
  <2>1. x * y * z = x * (y * z) /\ x * y * z \in Nat
    BY <1>1
  <2> QED
    BY <1>1, <2>1
<1> HIDE DEF v, w, b
<1>6. q \in Nat /\ d * q <= b /\ b < d * (q + 1)
  <2> HIDE DEF d
  <2>1. b \in Int
    BY <1>5
  <2> QED
    BY <1>5, <2>1, DivNat, DivBounds
<1> HIDE DEF q
<1>7. /\ d * q = (2 * q) * x /\ d * (q + 1) = (2 * q + 2) * x /\ x * v = v * x
  BY <1>1, <1>2, <1>6
<1>8. 2 * q \in Int /\ 2 * q + 2 \in Int /\ v \in Int
  BY <1>2, <1>6
<1>9. (2 * q) * x <= v * x /\ v * x < (2 * q + 2) * x
  BY <1>5, <1>6, <1>7
<1>10. 2 * q <= v /\ v < 2 * q + 2
  BY <1>1, <1>8, <1>9, MulCancel, MulCancelStrict
<1> QED
  BY <1>2, <1>4, <1>8, <1>10 DEF v, w

LEMMA PiAlternates ==
  ASSUME "pi/4" \in Specs, NEW n \in 0..(MaxTerms["pi/4"] - 1)
  PROVE  /\ Covers("pi/4", n)
         /\ n + 1 < MaxTerms["pi/4"] => Shrinks("pi/4", n)
<1>1. MaxTerms["pi/4"] \in Nat /\ n \in Nat /\ n < MaxTerms["pi/4"]
  BY BoundsAssumption
<1>2. CASE n = 0
  <2>1. Steps("pi/4", n, 6, 5) /\ PiFits(1, 2, 3, 1)
    BY <1>1, <1>2, PiFirst
  <2>2. Rest("pi/4", n) = 1
    BY <1>2, SumFacts DEF Rest, TailBound, PiQuarterTail
  <2>3. Covers("pi/4", n)
    <3>1. 5 <= 1 * 6
      OBVIOUS
    <3> QED
      BY <2>1, <2>2, <3>1 DEF Covers
  <2>4. ASSUME n + 1 < MaxTerms["pi/4"] PROVE Shrinks("pi/4", n)
    <3>1. 1 \in 1..(MaxTerms["pi/4"] - 1) /\ n + 1 = 1
      BY <1>1, <1>2, <2>4
    <3>2. Steps("pi/4", 1, 36 * (2 * 1 + 1), 9 * (3 * 1) + 4 * (2 * 1))
      BY <2>1, <3>1, PiStep
    <3>3. Steps("pi/4", 1, 108, 35)
      BY <3>2
    <3>4. 35 <= 5 * 108
      OBVIOUS
    <3> QED
      BY <2>1, <3>1, <3>3, <3>4 DEF Shrinks
  <2> QED
    BY <2>3, <2>4
<1>3. CASE n # 0
  <2>1. PICK x, y, z : PiFits(n, x, y, z)
    BY <1>1, <1>3, PiFit
  <2> DEFINE odd == 2 * n + 1
             f == 36 * odd
             v == y * z
             w == x * z
             u == 9 * v + 4 * w
  <2>2. n \in 1..(MaxTerms["pi/4"] - 1) /\ odd \in Nat /\ 3 <= odd /\ f \in Nat
    BY <1>1, <1>3
  <2>3. /\ PiFits(n + 1, 4 * x, 9 * y, odd * z)
        /\ Steps("pi/4", n, f, u)
    BY <2>1, <2>2, PiStep
  <2>4. /\ x \in Nat \ {0} /\ y \in Nat \ {0} /\ z \in Nat \ {0} /\ x <= y /\ 3 <= y
        /\ x = BigPow(2, 2 * n - 1) /\ Den("pi/4", n) = x * y * z
    BY <2>1 DEF PiFits
  <2>5. /\ v \in Nat /\ w \in Nat /\ w <= v /\ 3 <= v
        /\ v - 1 <= Rest("pi/4", n)
    <3>1. n \in 1..MaxTerms["pi/4"]
      BY <1>1, <2>2
    <3> QED
      BY <2>1, <3>1, PiRest
  <2>6. Covers("pi/4", n)
    <3> DEFINE r == Rest("pi/4", n)
    <3>1. r \in Nat /\ v - 1 \in Nat /\ v - 1 <= r
      <4>1. n \in 0..MaxTerms["pi/4"]
        BY <1>1
      <4> HIDE DEF v
      <4> QED
        BY <2>5, <4>1, SumFacts
    <3>2. u <= (v - 1) * 108
      BY <2>5
    <3> HIDE DEF v, r
    <3>3. (v - 1) * 108 <= (v - 1) * f
      <4>1. 108 <= f /\ f \in Int
        BY <2>2
      <4> HIDE DEF f
      <4> QED
        BY <3>1, <4>1
    <3>4. (v - 1) * f <= r * f
      <4> HIDE DEF f
      <4> QED
        BY <2>2, <3>1, MulMono
    <3>5. u \in Nat /\ (v - 1) * f \in Int /\ r * f \in Int
      BY <2>2, <2>5, <3>1
    <3> HIDE DEF u, f
    <3>6. u <= r * f
      BY <3>1, <3>2, <3>3, <3>4, <3>5
    <3> QED
      BY <2>2, <2>3, <3>5, <3>6 DEF Covers, r
  <2>7. ASSUME n + 1 < MaxTerms["pi/4"] PROVE Shrinks("pi/4", n)
    <3> DEFINE g == 36 * (2 * (n + 1) + 1)
               t == 9 * ((9 * y) * (odd * z)) + 4 * ((4 * x) * (odd * z))
    <3>1. n + 1 \in 1..(MaxTerms["pi/4"] - 1) /\ g \in Nat
      BY <1>1, <2>7
    <3>2. Steps("pi/4", n + 1, g, t)
      BY <2>3, <3>1, PiStep
    <3>3. t = 81 * (odd * v) + 16 * (odd * w)
      BY <2>2, <2>4
    <3>4. u * g = 324 * (odd * v) + 144 * (odd * w) + 648 * v + 288 * w
      <4>1. g = 36 * odd + 72
        BY <2>2
      <4> HIDE DEF g, odd, v, w
      <4> QED
        BY <2>2, <2>5, <4>1
    <3>5. odd * v \in Nat /\ odd * w \in Nat
      BY <2>2, <2>5
    <3>6. t <= u * g /\ t \in Nat /\ u \in Nat
      <4>1. u \in Nat
        BY <2>5
      <4> HIDE DEF g, odd, v, w, t, u
      <4> QED
        BY <2>5, <3>3, <3>4, <3>5, <4>1
    <3> HIDE DEF f, u, g, t
    <3> QED
      BY <2>2, <2>3, <3>1, <3>2, <3>6 DEF Shrinks
  <2> QED
    BY <2>6, <2>7
<1> QED
  BY <1>2, <1>3

-----------------------------------------------------------------------------
(* The value of a series *)

(* How far the value is above the partial sum, over both denominators. *)
Gap(s, n) == Value[s][1] * Den(s, n) - Num(s, n) * Value[s][2]

(* The value is in the interval after n terms. *)
Within(s, n) == 0 <= Gap(s, n) /\ Gap(s, n) <= Rest(s, n) * Value[s][2]

(* It is no further from the partial sum than the tail, on either side. *)
Certified(s, n) ==
  /\ -(Rest(s, n) * Value[s][2]) <= Gap(s, n)
  /\ Gap(s, n) <= Rest(s, n) * Value[s][2]

(* It is on that side of the partial sum to which the next term goes. *)
Ahead(s, n) == 0 <= Sign(n) * Gap(s, n)

(* The value agrees with its series as far as MaxTerms terms can tell: it  *)
(* is in the deepest interval; for a series whose terms change sign, also  *)
(* between the two deepest partial sums.  (e's interval [2, 4] after two   *)
(* terms leaves open what [1, 3] excludes, hence the third part.)          *)
Converges(s) ==
  LET m == MaxTerms[s] IN
  /\ s \in {"e", "ln2"} => Within(s, m)
  /\ s \notin {"e", "ln2"} => Certified(s, m) /\ (m > 0 => Ahead(s, m) /\ Ahead(s, m - 1))
  /\ s = "e" => Value[s][1] <= 3 * Value[s][2]

LEMMA GapType ==
  ASSUME NEW s \in Specs, NEW n \in 0..MaxTerms[s]
  PROVE  Gap(s, n) \in Int /\ Value[s][1] \in Nat /\ Value[s][2] \in Nat \ {0}
         /\ Rest(s, n) * Value[s][2] \in Nat
<1>1. Value[s][1] \in Nat /\ Value[s][2] \in Nat \ {0}
  BY ValueAssumption
<1>2. Num(s, n) \in Int /\ Den(s, n) \in Nat \ {0} /\ Rest(s, n) \in Nat
  BY SumFacts
<1> QED
  BY <1>1, <1>2 DEF Gap

LEMMA NarrowedGap ==
  ASSUME NEW p \in Nat, NEW q \in Nat \ {0}, NEW a \in Int, NEW b \in Nat \ {0},
         NEW t \in Nat, NEW c \in Int, NEW r \in Nat, NEW f \in Nat \ {0},
         a * f <= c, c + r <= (a + t) * f,
         0 <= p * (b * f) - c * q, p * (b * f) - c * q <= r * q
  PROVE  0 <= p * b - a * q /\ p * b - a * q <= t * q
<1> DEFINE v == p * b
           x == a * q
           y == (a + t) * q
<1>1. v \in Int /\ x \in Int /\ y \in Int /\ c * q \in Int /\ r * q \in Int
  OBVIOUS
<1>2. p * (b * f) = v * f
  OBVIOUS
<1>3. (a * f) * q <= c * q /\ (c + r) * q <= ((a + t) * f) * q
  <2>1. a * f \in Int /\ c + r \in Int /\ (a + t) * f \in Int
    OBVIOUS
  <2> QED
    BY <2>1, MulMono
<1>4. (a * f) * q = x * f /\ ((a + t) * f) * q = y * f /\ (c + r) * q = c * q + r * q
  OBVIOUS
<1>5. y = x + t * q
  OBVIOUS
<1> HIDE DEF v, x, y
<1>6. v * f \in Int /\ x * f \in Int /\ y * f \in Int
  BY <1>1
<1>7. x * f <= v * f /\ v * f <= y * f
  BY <1>1, <1>2, <1>3, <1>4, <1>6
<1>8. x <= v /\ v <= y
  BY <1>1, <1>7, MulCancel
<1>9. t * q \in Int
  OBVIOUS
<1> QED
  BY <1>1, <1>5, <1>8, <1>9 DEF v, x

LEMMA NarrowsBack ==
  ASSUME NEW s \in Specs, NEW n \in 0..(MaxTerms[s] - 1),
         Narrows(s, n), Within(s, n + 1)
  PROVE  Within(s, n)
<1>1. n \in 0..MaxTerms[s] /\ n + 1 \in 0..MaxTerms[s]
  BY BoundsAssumption
<1> DEFINE p == Value[s][1]
           q == Value[s][2]
           a == Num(s, n)
           b == Den(s, n)
           t == Rest(s, n)
           c == Num(s, n + 1)
           r == Rest(s, n + 1)
<1>2. /\ a \in Int /\ b \in Nat \ {0} /\ t \in Nat /\ c \in Int /\ r \in Nat
      /\ p \in Nat /\ q \in Nat \ {0}
  BY <1>1, SumFacts, GapType
<1>3. PICK f \in Nat \ {0} : Den(s, n + 1) = b * f /\ a * f <= c /\ c + r <= (a + t) * f
  BY DEF Narrows
<1>4. 0 <= p * (b * f) - c * q /\ p * (b * f) - c * q <= r * q
  BY <1>3 DEF Within, Gap
<1>5. 0 <= p * b - a * q /\ p * b - a * q <= t * q
  <2> HIDE DEF p, q, a, b, t, c, r
  <2> QED
    BY <1>2, <1>3, <1>4, NarrowedGap
<1> QED
  BY <1>5 DEF Within, Gap

(* e and ln 2: the value is in every interval. *)
LEMMA AlwaysWithin ==
  ASSUME NEW s \in Specs, s \in {"e", "ln2"}, Converges(s)
  PROVE  \A n \in 0..MaxTerms[s] : Within(s, n)
<1> DEFINE m == MaxTerms[s]
           T == {k \in Nat : k <= m => Within(s, m - k)}
<1>1. m \in Nat
  BY SumFacts
<1>2. 0 \in T
  <2>1. m - 0 = m
    BY <1>1
  <2> QED
    BY <2>1 DEF Converges
<1>3. ASSUME NEW k \in Nat, k \in T PROVE k + 1 \in T
  <2> SUFFICES ASSUME k + 1 <= m PROVE Within(s, m - (k + 1))
    OBVIOUS
  <2> DEFINE n == m - (k + 1)
  <2>1. n \in 0..(m - 1) /\ n + 1 = m - k /\ n \in Nat
    BY <1>1
  <2>2. Within(s, n + 1)
    BY <1>1, <1>3, <2>1
  <2> HIDE DEF n
  <2>3. CASE s = "ln2"
    <3>1. Narrows(s, n)
      <4>1. n \in 0..MaxTerms["ln2"]
        BY <1>1, <2>1, <2>3
      <4> QED
        BY <2>1, <2>3, <4>1, Ln2Fit, Ln2Step
    <3> QED
      BY <2>1, <2>2, <3>1, NarrowsBack DEF n
  <2>4. CASE s = "e" /\ n # 1
    <3>1. Narrows(s, n)
      BY <2>1, <2>4, ENarrows
    <3> QED
      BY <2>1, <2>2, <3>1, NarrowsBack DEF n
  <2>5. CASE s = "e" /\ n = 1
    <3> DEFINE p == Value["e"][1]
               q == Value["e"][2]
    <3>1. 0 \in 0..(m - 1) /\ 1 \in 0..(m - 1) /\ 1 \in 0..m /\ 2 \in 0..m
      BY <1>1, <2>1, <2>5
    <3>2. Num("e", 1) = 1 /\ Den("e", 1) = 1
      BY <2>5, <3>1, ETerms
    <3>3. Num("e", 1 + 1) = Num("e", 1) * 1 + 1 /\ Den("e", 1 + 1) = Den("e", 1) * 1
      BY <2>5, <3>1, ETerms
    <3>4. Num("e", 2) = 2 /\ Den("e", 2) = 1
      BY <3>2, <3>3
    <3>5. Rest("e", 1) = 2
      BY <2>5, <3>1, ERest
    <3>6. p \in Nat /\ q \in Nat \ {0} /\ p <= 3 * q
      BY <2>5, <3>1, GapType DEF Converges
    <3>7. 0 <= p * 1 - 2 * q
      BY <2>2, <2>5, <3>4 DEF Within, Gap
    <3>8. 0 <= p * 1 - 1 * q /\ p * 1 - 1 * q <= 2 * q
      <4> HIDE DEF p, q
      <4> QED
        BY <3>6, <3>7
    <3>9. Within("e", 1)
      BY <3>2, <3>5, <3>8 DEF Within, Gap
    <3> QED
      BY <2>5, <3>9 DEF n
  <2> QED
    BY <2>3, <2>4, <2>5 DEF n
<1>4. \A k \in Nat : k \in T
  <2> HIDE DEF T
  <2> QED
    BY <1>2, <1>3, SetInduction
<1>5. ASSUME NEW n \in 0..m PROVE Within(s, n)
  <2>1. m - n \in Nat /\ m - n <= m /\ m - (m - n) = n
    BY <1>1
  <2> QED
    BY <1>4, <2>1
<1> QED
  BY <1>5

(* The arithmetic of two steps of an alternating series; y is the distance *)
(* to the value in the direction of the next term.                         *)
LEMMA AlternatingGap ==
  ASSUME NEW y \in Int, NEW f \in Nat \ {0}, NEW u \in Nat, NEW q \in Nat \ {0},
         NEW g \in Nat \ {0}, NEW w \in Nat, w <= u * g,
         0 <= g * (f * y - u * q) + w * q
  PROVE  0 <= y
<1> DEFINE h == g * f
           z == u * g
<1>1. h \in Nat \ {0} /\ z \in Int
  BY MulType
<1>2. g * (f * y - u * q) = h * y - z * q
  OBVIOUS
<1>3. w * q <= z * q
  BY <1>1, MulMono
<1>4. h * y \in Int /\ z * q \in Int /\ w * q \in Int
  BY <1>1
<1> HIDE DEF h, z
<1>5. 0 <= h * y
  BY <1>2, <1>3, <1>4
<1>6. 0 * h <= y * h
  BY <1>1, <1>5
<1> QED
  BY <1>1, <1>6, MulCancel

LEMMA SignType == \A n \in Nat : Sign(n) \in {1, -1} /\ Sign(n + 1) = -Sign(n)
<1> SUFFICES ASSUME NEW n \in Nat PROVE Sign(n) \in {1, -1} /\ Sign(n + 1) = -Sign(n)
  OBVIOUS
<1>1. (n % 2 = 0 /\ (n + 1) % 2 = 1) \/ (n % 2 = 1 /\ (n + 1) % 2 = 0)
  OBVIOUS
<1> QED
  BY <1>1 DEF Sign

(* The distance in the direction of the next term, and after it. *)
LEMMA SteppedGap ==
  ASSUME NEW s \in Specs, NEW n \in 0..(MaxTerms[s] - 1), NEW f, NEW u,
         Steps(s, n, f, u)
  PROVE  Sign(n) * Gap(s, n + 1) = f * (Sign(n) * Gap(s, n)) - u * Value[s][2]
<1> DEFINE p == Value[s][1]
           q == Value[s][2]
           a == Num(s, n)
           b == Den(s, n)
           o == Sign(n)
<1>1. n \in 0..MaxTerms[s] /\ n \in Nat
  BY BoundsAssumption
<1>2. /\ a \in Int /\ b \in Nat /\ p \in Nat /\ q \in Nat
      /\ f \in Nat /\ u \in Nat /\ o \in {1, -1}
  BY <1>1, SumFacts, GapType, SignType DEF Steps
<1>3. Gap(s, n + 1) = p * (b * f) - (a * f + o * u) * q
  BY DEF Steps, Gap
<1>4. Gap(s, n) = p * b - a * q
  BY DEF Gap
<1> HIDE DEF p, q, a, b, o
<1>5. CASE o = 1
  <2>1. p * (b * f) - (a * f + 1 * u) * q = f * (p * b - a * q) - u * q
    BY <1>2
  <2> QED
    BY <1>2, <1>3, <1>4, <1>5, <2>1 DEF o, q
<1>6. CASE o = -1
  <2>1. (-1) * (p * (b * f) - (a * f + (-1) * u) * q) = f * ((-1) * (p * b - a * q)) - u * q
    BY <1>2
  <2> QED
    BY <1>2, <1>3, <1>4, <1>6, <2>1 DEF o, q
<1> QED
  BY <1>2, <1>5, <1>6

LEMMA ShrinksBack ==
  ASSUME NEW s \in Specs, NEW n \in 0..(MaxTerms[s] - 1), n + 1 < MaxTerms[s],
         Shrinks(s, n), Ahead(s, n + 2)
  PROVE  Ahead(s, n)
<1> DEFINE q == Value[s][2]
           y == Sign(n) * Gap(s, n)
<1>1. /\ n \in 0..MaxTerms[s] /\ n + 1 \in 0..(MaxTerms[s] - 1) /\ n \in Nat
      /\ (n + 1) + 1 = n + 2 /\ n + 1 \in 0..MaxTerms[s] /\ n + 2 \in 0..MaxTerms[s]
  BY BoundsAssumption
<1>2. PICK f, u, g, w \in Nat :
        Steps(s, n, f, u) /\ Steps(s, n + 1, g, w) /\ w <= u * g
  BY DEF Shrinks
<1>3. f # 0 /\ g # 0
  BY <1>2 DEF Steps
<1>4. Sign(n) * Gap(s, n + 1) = f * y - u * q
  BY <1>2, SteppedGap
<1>5. Sign(n + 1) * Gap(s, n + 2) = g * (Sign(n + 1) * Gap(s, n + 1)) - w * q
  BY <1>1, <1>2, SteppedGap
<1>6. /\ Sign(n + 1) = -Sign(n) /\ Sign(n + 2) = Sign(n) /\ Sign(n) \in {1, -1}
      /\ Gap(s, n) \in Int /\ Gap(s, n + 1) \in Int /\ Gap(s, n + 2) \in Int
      /\ q \in Nat \ {0}
  <2>1. Sign(n + 1) = -Sign(n) /\ Sign((n + 1) + 1) = -Sign(n + 1) /\ Sign(n) \in {1, -1}
    BY <1>1, SignType
  <2>2. Sign(n + 2) = Sign(n)
    BY <1>1, <2>1
  <2> QED
    BY <1>1, <2>1, <2>2, GapType
<1>7. y \in Int
  BY <1>6
<1> DEFINE G1 == Gap(s, n + 1)
           G2 == Gap(s, n + 2)
           o == Sign(n)
<1>8. 0 <= o * G2
  BY <1>6 DEF Ahead
<1>9. (-o) * G2 = g * ((-o) * G1) - w * q
  BY <1>5, <1>6
<1>10. o * G1 = f * y - u * q
  BY <1>4
<1>11. o \in {1, -1} /\ G1 \in Int /\ G2 \in Int /\ q \in Nat \ {0}
  BY <1>6
<1> HIDE DEF o, G1, G2, y, q
<1>12. o * G2 = g * (o * G1) + w * q
  <2>1. CASE o = 1
    <3>1. (-1) * G2 = g * ((-1) * G1) - w * q
      BY <1>9, <2>1
    <3> QED
      BY <1>2, <1>11, <2>1, <3>1
  <2>2. CASE o = -1
    <3>1. 1 * G2 = g * (1 * G1) - w * q
      BY <1>9, <2>2
    <3> QED
      BY <1>2, <1>11, <2>2, <3>1
  <2> QED
    BY <1>11, <2>1, <2>2
<1>13. 0 <= g * (f * y - u * q) + w * q
  BY <1>8, <1>10, <1>12
<1>14. 0 <= y
  BY <1>2, <1>3, <1>7, <1>11, <1>13, AlternatingGap
<1> QED
  BY <1>14 DEF Ahead, y

Alternating == {"1/e", "pi/4", "catalan"}

LEMMA Alternates ==
  ASSUME NEW s \in Specs, s \in Alternating, NEW n \in 0..(MaxTerms[s] - 1)
  PROVE  Covers(s, n) /\ (n + 1 < MaxTerms[s] => Shrinks(s, n))
  BY OneOverEAlternates, CatalanAlternates, PiAlternates DEF Alternating

(* Every partial sum is on its side of the value. *)
LEMMA AlwaysAhead ==
  ASSUME NEW s \in Specs, s \in Alternating, Converges(s), MaxTerms[s] > 0
  PROVE  \A n \in 0..MaxTerms[s] : Ahead(s, n)
<1> DEFINE m == MaxTerms[s]
           T == {k \in Nat : /\ k <= m => Ahead(s, m - k)
                             /\ k + 1 <= m => Ahead(s, m - (k + 1))}
<1>1. m \in Nat
  BY SumFacts
<1>2. 0 \in T
  <2>1. m - 0 = m /\ m - (0 + 1) = m - 1
    BY <1>1
  <2>2. Ahead(s, m) /\ Ahead(s, m - 1)
    BY DEF Converges, Alternating
  <2> QED
    BY <2>1, <2>2
<1>3. ASSUME NEW k \in Nat, k \in T PROVE k + 1 \in T
  <2>1. k + 1 <= m => Ahead(s, m - (k + 1))
    BY <1>3
  <2>2. ASSUME (k + 1) + 1 <= m PROVE Ahead(s, m - ((k + 1) + 1))
    <3> DEFINE n == m - ((k + 1) + 1)
    <3>1. n \in 0..(m - 1) /\ n + 1 < m /\ n + 2 = m - k /\ k <= m
      BY <1>1, <2>2
    <3>2. Ahead(s, n + 2)
      BY <1>3, <3>1
    <3> HIDE DEF n
    <3>3. Shrinks(s, n)
      BY <3>1, Alternates
    <3>4. Ahead(s, n)
      BY <3>1, <3>2, <3>3, ShrinksBack
    <3> QED
      BY <3>4 DEF n
  <2> QED
    BY <2>1, <2>2
<1>4. \A k \in Nat : k \in T
  <2> HIDE DEF T
  <2> QED
    BY <1>2, <1>3, SetInduction
<1>5. ASSUME NEW n \in 0..m PROVE Ahead(s, n)
  <2>1. m - n \in Nat /\ m - n <= m /\ m - (m - n) = n
    BY <1>1
  <2> QED
    BY <1>4, <2>1
<1> QED
  BY <1>5

(* A value between two partial sums is as near to the first as the term    *)
(* between them is large, and that is within the tail.                     *)
LEMMA CoveredGap ==
  ASSUME NEW s \in Specs, NEW n \in 0..(MaxTerms[s] - 1),
         Covers(s, n), Ahead(s, n), Ahead(s, n + 1)
  PROVE  Certified(s, n)
<1> DEFINE q == Value[s][2]
           o == Sign(n)
           G == Gap(s, n)
           y == o * G
           G1 == Gap(s, n + 1)
           t == Rest(s, n)
<1>1. n \in 0..MaxTerms[s] /\ n + 1 \in 0..MaxTerms[s] /\ n \in Nat
  BY BoundsAssumption
<1>2. PICK f, u \in Nat : Steps(s, n, f, u) /\ u <= t * f
  BY DEF Covers
<1>3. /\ f \in Nat \ {0} /\ o \in {1, -1} /\ G \in Int /\ G1 \in Int
      /\ q \in Nat \ {0} /\ t \in Nat
  BY <1>1, <1>2, SumFacts, GapType, SignType DEF Steps
<1>4. o * G1 = f * y - u * q
  BY <1>2, SteppedGap
<1>5. 0 <= y
  BY DEF Ahead
<1>6. 0 <= (-o) * G1
  BY <1>1, SignType DEF Ahead
<1> HIDE DEF q, o, G1, t, G
<1>7. o * G1 <= 0
  BY <1>3, <1>6
<1>8. y \in Int
  BY <1>3
<1>9. y <= t * q
  <2> HIDE DEF y
  <2>1. f * y <= u * q
    BY <1>3, <1>4, <1>7, <1>8
  <2>2. u * q <= (t * f) * q
    <3>1. t * f \in Int /\ u \in Int
      BY <1>3
    <3> QED
      BY <1>2, <1>3, <3>1, MulMono
  <2>3. f * y = y * f /\ (t * f) * q = (t * q) * f
    BY <1>3, <1>8
  <2>4. y * f \in Int /\ (t * q) * f \in Int /\ u * q \in Int /\ t * q \in Int
    BY <1>3, <1>8
  <2>5. y * f <= (t * q) * f
    BY <2>1, <2>2, <2>3, <2>4
  <2> QED
    BY <1>3, <1>8, <2>4, <2>5, MulCancel
<1>10. -(t * q) <= G /\ G <= t * q
  <2>1. t * q \in Int
    BY <1>3
  <2>2. CASE o = 1
    BY <1>3, <1>5, <1>9, <2>1, <2>2
  <2>3. CASE o = -1
    BY <1>3, <1>5, <1>9, <2>1, <2>3
  <2> QED
    BY <1>3, <2>2, <2>3
<1> QED
  BY <1>10 DEF Certified, q, G, t

(* Every tail bound holds. *)
LEMMA AlwaysCertified ==
  ASSUME NEW s \in Specs, Converges(s)
  PROVE  \A n \in 0..MaxTerms[s] : Certified(s, n)
<1> SUFFICES ASSUME NEW n \in 0..MaxTerms[s] PROVE Certified(s, n)
  OBVIOUS
<1>1. s \in SpecNames
  BY SpecsAssumption
<1>2. CASE s \in {"e", "ln2"}
  <2>1. Within(s, n)
    BY <1>2, AlwaysWithin
  <2>2. Gap(s, n) \in Int /\ Rest(s, n) * Value[s][2] \in Nat
    BY GapType
  <2> QED
    BY <2>1, <2>2 DEF Within, Certified
<1>3. CASE s \notin {"e", "ln2"}
  <2>1. s \in Alternating
    BY <1>1, <1>3 DEF SpecNames, Alternating
  <2>2. CASE n = MaxTerms[s]
    BY <1>3, <2>2 DEF Converges
  <2>3. CASE n # MaxTerms[s]
    <3>1. /\ MaxTerms[s] > 0 /\ n \in 0..(MaxTerms[s] - 1) /\ n + 1 \in 0..MaxTerms[s]
      BY <2>3, BoundsAssumption
    <3>2. Ahead(s, n) /\ Ahead(s, n + 1)
      BY <2>1, <3>1, AlwaysAhead
    <3> QED
      BY <2>1, <3>1, <3>2, Alternates, CoveredGap
  <2> QED
    BY <2>2, <2>3
<1> QED
  BY <1>2, <1>3

-----------------------------------------------------------------------------
(* The bounds shrink *)

(* The tail over its denominator does not grow by the next term. *)
Falls(s, n) == Rest(s, n + 1) * Den(s, n) <= Rest(s, n) * Den(s, n + 1)

LEMMA FallsBy ==
  ASSUME NEW s \in Specs, NEW n \in 0..(MaxTerms[s] - 1), NEW f \in Nat,
         Den(s, n + 1) = Den(s, n) * f, Rest(s, n + 1) <= Rest(s, n) * f
  PROVE  Falls(s, n)
<1> DEFINE b == Den(s, n)
           r == Rest(s, n)
           t == Rest(s, n + 1)
<1>1. n \in 0..MaxTerms[s] /\ n + 1 \in 0..MaxTerms[s]
  BY BoundsAssumption
<1>2. b \in Nat /\ r \in Nat /\ t \in Nat
  BY <1>1, SumFacts
<1> HIDE DEF b, r, t
<1>3. r * f \in Int
  BY <1>2
<1>4. t * b <= (r * f) * b
  BY <1>2, <1>3, MulMono DEF r, t
<1>5. (r * f) * b = r * (b * f)
  BY <1>2
<1> QED
  BY <1>4, <1>5 DEF Falls, b, r, t

LEMMA EFalls ==
  ASSUME "e" \in Specs, NEW n \in 1..(MaxTerms["e"] - 1)
  PROVE  Falls("e", n)
<1>1. n \in 0..(MaxTerms["e"] - 1) /\ n \in 0..MaxTerms["e"] /\ n + 1 \in 0..MaxTerms["e"]
      /\ n # 0 /\ n \in Nat
  BY BoundsAssumption
<1>2. Rest("e", n) = 2 /\ Rest("e", n + 1) = 2
  BY <1>1, ERest
<1>3. Den("e", n + 1) = Den("e", n) * n
  BY <1>1, ETerms
<1>4. 2 <= 2 * n
  BY <1>1
<1> QED
  BY <1>1, <1>2, <1>3, <1>4, FallsBy

LEMMA Ln2Falls ==
  ASSUME "ln2" \in Specs, NEW n \in 1..(MaxTerms["ln2"] - 1)
  PROVE  Falls("ln2", n)
<1> DEFINE p == BigPow(2, n)
           f == 2 * (n + 1)
<1>1. n \in 0..(MaxTerms["ln2"] - 1) /\ n \in 0..MaxTerms["ln2"]
      /\ n + 1 \in 0..MaxTerms["ln2"] /\ f \in Nat
  BY BoundsAssumption
<1>2. PICK F \in Nat \ {0} : Den("ln2", n) = F * p /\ Rest("ln2", n) = F
  BY <1>1, Ln2Fit DEF Ln2Fits
<1>3. PICK H \in Nat \ {0} : /\ Den("ln2", n + 1) = H * BigPow(2, n + 1)
                             /\ Rest("ln2", n + 1) = H
  BY <1>1, Ln2Fit DEF Ln2Fits
<1>4. Den("ln2", n + 1) = Den("ln2", n) * f
  BY <1>1, Ln2Fit, Ln2Step
<1>5. p \in Nat \ {0} /\ BigPow(2, n + 1) = 2 * p
  <2>1. n \in 0..(2 * MaxTerms["ln2"] + 1)
    BY BoundsAssumption
  <2> QED
    BY <2>1, PowAssumption
<1> HIDE DEF p, f
<1>6. H * (2 * p) = (F * p) * f
  BY <1>2, <1>3, <1>4, <1>5
<1>7. (2 * H) * p = (F * f) * p
  BY <1>1, <1>2, <1>3, <1>5, <1>6
<1>8. F * f \in Int /\ 2 * H \in Int
  BY <1>1, <1>2, <1>3
<1>9. 2 * H <= F * f
  BY <1>5, <1>7, <1>8, MulCancel
<1>10. H <= F * f
  BY <1>3, <1>8, <1>9
<1> QED
  BY <1>1, <1>2, <1>3, <1>4, <1>10, FallsBy

LEMMA OneOverEFalls ==
  ASSUME "1/e" \in Specs, NEW n \in 1..(MaxTerms["1/e"] - 1)
  PROVE  Falls("1/e", n)
<1>1. n \in 0..(MaxTerms["1/e"] - 1) /\ n # 0 /\ n \in Nat /\ n + 1 # 0
  BY BoundsAssumption
<1>2. Rest("1/e", n) = 1 /\ Rest("1/e", n + 1) = 1
  BY <1>1 DEF Rest, TailBound, OneOverETail
<1>3. Den("1/e", n + 1) = Den("1/e", n) * n
  BY <1>1, OneOverESteps DEF Steps
<1>4. 1 <= 1 * n
  BY <1>1
<1> QED
  BY <1>1, <1>2, <1>3, <1>4, FallsBy

LEMMA PiFalls ==
  ASSUME "pi/4" \in Specs, NEW n \in 1..(MaxTerms["pi/4"] - 1)
  PROVE  Falls("pi/4", n)
<1>1. n \in 0..(MaxTerms["pi/4"] - 1) /\ n \in 1..MaxTerms["pi/4"]
      /\ n + 1 \in 1..MaxTerms["pi/4"] /\ n \in Nat
  BY BoundsAssumption
<1>2. PICK x, y, z : PiFits(n, x, y, z)
  BY <1>1, PiFit
<1> DEFINE odd == 2 * n + 1
           f == 36 * odd
           v == y * z
           r == Rest("pi/4", n)
           t == Rest("pi/4", n + 1)
<1>3. PiFits(n + 1, 4 * x, 9 * y, odd * z) /\ Den("pi/4", n + 1) = Den("pi/4", n) * f
  BY <1>2, PiStep DEF Steps
<1>4. v \in Nat /\ 3 <= v /\ v - 1 <= r
  BY <1>1, <1>2, PiRest
<1>5. t <= (9 * y) * (odd * z)
  BY <1>1, <1>3, PiRest
<1>6. odd \in Nat /\ y \in Nat /\ z \in Nat /\ r \in Nat /\ t \in Nat
  <2>1. n \in 0..MaxTerms["pi/4"] /\ n + 1 \in 0..MaxTerms["pi/4"]
    BY <1>1
  <2> QED
    BY <1>1, <1>2, <2>1, SumFacts DEF PiFits
<1> HIDE DEF odd, r, t
<1>7. (9 * y) * (odd * z) = (9 * v) * odd
  BY <1>6
<1> HIDE DEF v
<1>8. (9 * v) * odd <= (36 * r) * odd
  <2>1. 9 * v <= 36 * r /\ 9 * v \in Int /\ 36 * r \in Int
    BY <1>4, <1>6
  <2> QED
    BY <1>6, <2>1, MulMono
<1>9. (36 * r) * odd = r * f /\ r * f \in Int /\ (9 * v) * odd \in Int
  BY <1>4, <1>6
<1> HIDE DEF f
<1>10. t <= r * f
  BY <1>5, <1>6, <1>7, <1>8, <1>9
<1>11. f \in Nat
  BY <1>6 DEF f
<1> QED
  BY <1>1, <1>3, <1>10, <1>11, FallsBy DEF r, t

LEMMA CatalanFalls ==
  ASSUME "catalan" \in Specs, NEW n \in 1..(MaxTerms["catalan"] - 1)
  PROVE  Falls("catalan", n)
<1> DEFINE odd == 2 * n + 1
           f == odd * odd
           g == (2 * (n + 1) + 1) * (2 * (n + 1) + 1)
           b == Den("catalan", n)
           c == Den("catalan", n + 1)
           q == b \div f
           k == c \div g
           r == Rest("catalan", n)
           t == Rest("catalan", n + 1)
<1>1. /\ n \in 0..(MaxTerms["catalan"] - 1) /\ n \in 0..MaxTerms["catalan"]
      /\ n + 1 \in 0..MaxTerms["catalan"] /\ n \in Nat /\ n # 0 /\ n + 1 # 0
  BY BoundsAssumption
<1>2. b \in Nat \ {0} /\ c \in Nat \ {0} /\ r \in Nat /\ t \in Nat
  BY <1>1, SumFacts
<1>3. f \in Nat \ {0} /\ g \in Nat \ {0} /\ f < g
  <2>1. odd \in Nat \ {0} /\ g = f + 8 * n + 8 /\ 2 * (n + 1) + 1 \in Nat \ {0}
    BY <1>1
  <2> QED
    BY <1>1, <2>1, MulType
<1>4. c = b * f
  BY <1>1, CatalanSteps DEF Steps
<1>5. r = 2 * (IF b % f = 0 THEN q ELSE q + 1)
  BY <1>1 DEF Rest, TailBound, CatalanTail
<1>6. t = 2 * (IF c % g = 0 THEN k ELSE k + 1)
  <2>1. Rest("catalan", n + 1)
          = IF n + 1 = 0 THEN c
            ELSE 2 * (IF c % g = 0 THEN c \div g ELSE (c \div g) + 1)
    BY DEF Rest, TailBound, CatalanTail
  <2> QED
    BY <1>1, <2>1
<1> HIDE DEF b, c, f, g, r, t
<1>7. q \in Nat /\ b = f * q + (b % f) /\ b < f * (q + 1)
  <2>1. b \in Nat /\ b \in Int
    BY <1>2
  <2>2. b = f * (b \div f) + (b % f)
    BY <1>2, <1>3
  <2> QED
    BY <1>2, <1>3, <2>1, <2>2, DivNat, DivBounds
<1>8. k \in Nat /\ g * k <= c
  <2>1. c \in Nat /\ c \in Int
    BY <1>2
  <2> QED
    BY <1>2, <1>3, <2>1, DivNat, DivBounds
<1> HIDE DEF q, k
<1>9. 2 * b <= r * f
  <2>1. f * q \in Nat /\ f * (q + 1) \in Nat
    BY <1>3, <1>7
  <2>2. (2 * q) * f = 2 * (f * q) /\ (2 * (q + 1)) * f = 2 * (f * (q + 1))
    BY <1>3, <1>7
  <2>3. CASE b % f = 0
    <3>1. b = f * q
      BY <1>2, <1>7, <2>1, <2>3
    <3> QED
      BY <1>2, <1>5, <2>1, <2>2, <2>3, <3>1
  <2>4. CASE b % f # 0
    BY <1>2, <1>5, <1>7, <2>1, <2>2, <2>4
  <2> QED
    BY <2>3, <2>4
<1>10. k < b
  <2>1. b * f < g * b
    BY <1>2, <1>3
  <2>2. k * g < b * g
    <3>1. g * k = k * g /\ g * b = b * g /\ k * g \in Int /\ b * g \in Int /\ b * f \in Int
      BY <1>2, <1>3, <1>8
    <3> QED
      BY <1>4, <1>8, <2>1, <3>1
  <2> QED
    BY <1>2, <1>3, <1>8, <2>2, MulCancelStrict
<1>11. t <= 2 * b
  BY <1>2, <1>6, <1>8, <1>10
<1>12. t <= r * f
  <2>1. r * f \in Int
    BY <1>2, <1>3
  <2> QED
    BY <1>2, <1>9, <1>11, <2>1
<1>13. f \in Nat
  BY <1>3
<1> QED
  BY <1>1, <1>4, <1>12, <1>13, FallsBy DEF b, c, r, t

LEMMA AlwaysFalls ==
  ASSUME NEW s \in Specs, NEW n \in 1..(MaxTerms[s] - 1)
  PROVE  Falls(s, n)
<1>1. s \in SpecNames
  BY SpecsAssumption
<1> QED
  BY <1>1, EFalls, Ln2Falls, OneOverEFalls, PiFalls, CatalanFalls DEF SpecNames

-----------------------------------------------------------------------------
(* The accumulators of a running machine *)

(* They hold the partial sum of as many terms as the index says. *)
SeriesInv == num = Num(spec, index) /\ den = Den(spec, index)

LEMMA InitSeries == Init => SeriesInv
<1> SUFFICES ASSUME Init PROVE SeriesInv
  OBVIOUS
<1>1. spec \in Specs /\ index = 0 /\ num = 0 /\ den = 1
  BY DEF Init
<1> QED
  BY <1>1, SumFacts DEF SeriesInv

LEMMA StepTermSeries ==
  ASSUME TypeOK, SeriesInv, StepTerm, UNCHANGED kind
  PROVE  SeriesInv'
<1>1. spec \in Specs /\ index \in 0..(MaxTerms[spec] - 1)
  BY BoundsAssumption DEF TypeOK, StepTerm
<1>2. /\ num' = Advance(spec, index, num, den)[1]
      /\ den' = Advance(spec, index, num, den)[2]
      /\ index' = index + 1 /\ spec' = spec
  BY DEF StepTerm, kind
<1>3. /\ Num(spec, index + 1) = Advance(spec, index, Num(spec, index), Den(spec, index))[1]
      /\ Den(spec, index + 1) = Advance(spec, index, Num(spec, index), Den(spec, index))[2]
  BY <1>1, SumFacts
<1> QED
  BY <1>2, <1>3 DEF SeriesInv

(* A step that sums no term leaves the machine alone. *)
LEMMA OnlyTermsStep ==
  ASSUME [Next]_vars, ~(StepTerm /\ UNCHANGED kind)
  PROVE  UNCHANGED <<kind, vm>>
  BY DEF Next, LoopStep, NextDigit, CommitDigit, RefineTerm, Pending, Converge,
         ConvergeTerm, Converged, vars, kind, vm, committed, interval

LEMMA NextSeries == TypeInv /\ SeriesInv /\ [Next]_vars => SeriesInv'
<1> SUFFICES ASSUME TypeInv, SeriesInv, [Next]_vars PROVE SeriesInv'
  OBVIOUS
<1>1. CASE StepTerm /\ UNCHANGED kind
  BY <1>1, StepTermSeries DEF TypeInv
<1>2. CASE ~(StepTerm /\ UNCHANGED kind)
  BY <1>2, OnlyTermsStep DEF SeriesInv, kind, vm
<1> QED
  BY <1>1, <1>2

(* A machine that runs from its construction holds the partial sums. *)
THEOREM SeriesInvariant == Spec => [](TypeInv /\ SeriesInv)
<1>1. TypeInv /\ SeriesInv /\ [Next]_vars => (TypeInv /\ SeriesInv)'
  BY NextType, NextSeries
<1> QED
  BY <1>1, InitType, InitSeries, PTL DEF Spec

LEMMA StateSeries ==
  ASSUME TypeOK, SeriesInv
  PROVE  /\ spec \in Specs /\ index \in 0..MaxTerms[spec]
         /\ Err = Rest(spec, index)
         /\ P * den - num * Q = Gap(spec, index)
  BY DEF TypeOK, SeriesInv, Err, Rest, P, Q, Gap

-----------------------------------------------------------------------------
(* The tail bounds are what they are taken for *)

LEMMA StateCertified ==
  ASSUME TypeOK, SeriesInv, \A s \in Specs : Converges(s)
  PROVE  TailCertificate
<1>1. Certified(spec, index)
  BY StateSeries, AlwaysCertified
<1> QED
  BY <1>1, StateSeries DEF Certified, TailCertificate, Q

LEMMA StateEncloses ==
  ASSUME TypeOK, SeriesInv, spec \in {"e", "ln2"}, Converges(spec)
  PROVE  Encloses
<1>1. Within(spec, index)
  BY StateSeries, AlwaysWithin
<1>2. /\ P \in Nat /\ Q \in Nat \ {0} /\ num \in Int /\ den \in Nat /\ Err \in Nat
  BY ValueType, ErrType DEF TypeOK
<1>3. 0 <= P * den - num * Q /\ P * den - num * Q <= Err * Q
  BY <1>1, StateSeries DEF Within, Q
<1>4. P * den \in Int /\ num * Q \in Int /\ Err * Q \in Int
  BY <1>2
<1>5. (num + Err) * Q = num * Q + Err * Q
  BY <1>2
<1> QED
  BY <1>3, <1>4, <1>5 DEF Encloses

(* The bound falls with every term after the first. *)
LEMMA StateFalls ==
  ASSUME TypeOK, SeriesInv, StepTerm, UNCHANGED kind, index > 0
  PROVE  BoundShrinks
<1>1. spec \in Specs /\ index \in 1..(MaxTerms[spec] - 1)
  BY BoundsAssumption DEF TypeOK, StepTerm
<1>2. Falls(spec, index)
  BY <1>1, AlwaysFalls
<1>3. SeriesInv' /\ index' = index + 1 /\ spec' = spec
  BY StepTermSeries DEF StepTerm, kind
<1>4. /\ Err = Rest(spec, index) /\ Err' = Rest(spec, index + 1)
      /\ den = Den(spec, index) /\ den' = Den(spec, index + 1)
  BY <1>3 DEF SeriesInv, Err, Rest
<1> QED
  BY <1>2, <1>4 DEF Falls, BoundShrinks

(* The tail oracle of each of the five series keeps the promise that       *)
(* series.hpp asks of it, that the value lies within err/den of the sum,   *)
(* at every depth, though each series is known only by its value.          *)
THEOREM TailsCertify ==
  ASSUME \A s \in Specs : Converges(s)
  PROVE  Spec => []TailCertificate
<1>1. TypeInv /\ SeriesInv => TailCertificate
  BY StateCertified DEF TypeInv
<1> QED
  BY <1>1, SeriesInvariant, PTL

(* For e and ln 2 it keeps the promise the extractor relies on, too: the   *)
(* value lies above the partial sum.                                       *)
THEOREM PositiveSeriesEnclose ==
  ASSUME Specs \subseteq {"e", "ln2"}, \A s \in Specs : Converges(s)
  PROVE  Spec => []Encloses
<1>1. TypeInv /\ SeriesInv => Encloses
  BY StateEncloses DEF TypeInv, TypeOK
<1> QED
  BY <1>1, SeriesInvariant, PTL

(* So no digit of e or of ln 2 is false, *)
THEOREM NoFalseDigitOfPositiveSeries ==
  ASSUME Specs \subseteq {"e", "ln2"}, \A s \in Specs : Converges(s)
  PROVE  Spec => []NoFalseDigit
  BY PositiveSeriesEnclose, NoFalseDigitIfEnclosed, PTL

(* and the extractor of ln 2, whose value is below 1, is a digit stream.   *)
THEOREM PositiveSeriesImplementStream ==
  ASSUME Specs \subseteq {"e", "ln2"}, \A s \in Specs : Converges(s),
         \A s \in Specs : Value[s][1] < Value[s][2],
         \A b \in Bases : b <= Word
  PROVE  Spec => ImplementsStream
<1>1. Spec => []Encloses
  BY PositiveSeriesEnclose
<1>2. Spec /\ []Encloses => ImplementsStream
  BY ImplementsStreamIfEnclosed
<1> QED
  BY <1>1, <1>2

-----------------------------------------------------------------------------
(* e and ln 2: committed digits stand, with nothing assumed of the tail.   *)
(* Both series add positive terms, and their tail bounds shrink at least   *)
(* as fast as the terms they stand for, so each interval lies inside the   *)
(* one before it.  The one exception is e's step from [1, 3] to [2, 4];    *)
(* no digit can be committed before it.                                    *)

(* Every interval so far, and every one to come, is inside the cell of the *)
(* digits committed: prefix/base^consumed is below it, and from the first  *)
(* digit on (prefix + 1)/base^consumed is above it.                        *)
InCell == /\ prefix * den <= num * Shift
          /\ consumed > 0 => (num + Err) * Shift < (prefix + 1) * den

StandInv ==
  /\ SeriesInv
  /\ InCell
  /\ consumed = 0 => prefix = 0
  /\ spec = "e" /\ consumed > 0 => index >= 2
  /\ IntervalOrdered

LEMMA NarrowedInCell ==
  ASSUME NEW S \in Nat \ {0}, NEW D \in Nat \ {0}, NEW f \in Nat \ {0},
         NEW n \in Int, NEW m \in Int, NEW n1 \in Int, NEW m1 \in Int,
         NEW pr \in Int,
         n * f <= n1, m1 <= m * f
  PROVE  /\ pr * D <= n * S => pr * (D * f) <= n1 * S
         /\ m * S < (pr + 1) * D => m1 * S < (pr + 1) * (D * f)
<1>1. n * f \in Int /\ m * f \in Int /\ pr * D \in Int /\ n * S \in Int
      /\ m * S \in Int /\ (pr + 1) * D \in Int
  OBVIOUS
<1>2. (n * f) * S <= n1 * S /\ m1 * S <= (m * f) * S
  BY <1>1, MulMono
<1>3. pr * D <= n * S => (pr * D) * f <= (n * S) * f
  BY <1>1, MulMono
<1>4. m * S < (pr + 1) * D => (m * S) * f < ((pr + 1) * D) * f
  BY <1>1, MulStrict
<1>5. /\ (pr * D) * f = pr * (D * f) /\ (n * S) * f = (n * f) * S
      /\ ((pr + 1) * D) * f = (pr + 1) * (D * f) /\ (m * S) * f = (m * f) * S
  OBVIOUS
<1>6. /\ pr * (D * f) \in Int /\ (n * f) * S \in Int /\ n1 * S \in Int
      /\ (pr + 1) * (D * f) \in Int /\ (m * f) * S \in Int /\ m1 * S \in Int
  OBVIOUS
<1> QED
  BY <1>2, <1>3, <1>4, <1>5, <1>6

(* Summing a term keeps the interval in the cell. *)
LEMMA StepTermStands ==
  ASSUME Specs \subseteq {"e", "ln2"}, TypeInv, TypeInv', StandInv, StepTerm,
         UNCHANGED <<kind, committed>>
  PROVE  SeriesInv' /\ InCell' /\ (spec' = "e" /\ consumed' > 0 => index' >= 2)
<1>1. spec \in {"e", "ln2"}
  BY DEF TypeInv, TypeOK
<1>0. SeriesInv' /\ spec \in Specs /\ index \in 0..(MaxTerms[spec] - 1)
      /\ index' = index + 1 /\ spec' = spec
  <2>1. UNCHANGED kind
    OBVIOUS
  <2>2. SeriesInv'
    BY <2>1, StepTermSeries DEF TypeInv, StandInv
  <2>3. spec \in Specs /\ index \in 0..MaxTerms[spec] /\ MaxTerms[spec] \in Nat
    BY BoundsAssumption DEF TypeInv, TypeOK
  <2>4. index < MaxTerms[spec] /\ index' = index + 1 /\ spec' = spec
    BY <2>1 DEF StepTerm, kind
  <2> QED
    BY <2>2, <2>3, <2>4
<1>2. CASE spec = "e" /\ index = 1
  <2>1. consumed = 0 /\ prefix = 0 /\ Shift = 1
    <3>1. consumed \in Nat /\ base \in Bases
      BY BoundsAssumption DEF TypeInv, TypeOK
    <3>2. consumed = 0
      BY <1>2, <3>1 DEF StandInv
    <3> QED
      BY <3>1, <3>2, PowAssumption DEF StandInv, Shift
  <2>2. num' \in Nat /\ index' = 2
    <3>1. 0 \in 0..(MaxTerms["e"] - 1) /\ 0 + 1 = 1 /\ "e" \in Specs
      BY <1>0, <1>2, BoundsAssumption
    <3>2. num = 1 /\ den = 1
      BY <1>2, <3>1, ETerms DEF StandInv, SeriesInv
    <3> QED
      BY <1>0, <1>2, <3>2 DEF StepTerm, Advance, EAdvance
  <2>3. Shift' = 1 /\ prefix' = 0 /\ consumed' = 0 /\ den' \in Nat
    BY <2>1 DEF Shift, kind, committed, TypeInv, TypeOK
  <2>4. prefix' * den' <= num' * Shift'
    <3>1. \A x, y \in Nat : 0 * x <= y * 1
      OBVIOUS
    <3> QED
      BY <2>2, <2>3, <3>1
  <2>5. ~(consumed' > 0)
    BY <2>3
  <2> QED
    BY <1>0, <2>2, <2>4, <2>5 DEF InCell
<1>3. CASE ~(spec = "e" /\ index = 1)
  <2>1. Narrows(spec, index)
    <3>1. CASE spec = "e"
      BY <1>0, <1>3, <3>1, ENarrows
    <3>2. CASE spec = "ln2"
      <4>1. index \in 0..MaxTerms["ln2"]
        BY <3>2 DEF TypeInv, TypeOK
      <4> QED
        BY <1>0, <3>2, <4>1, Ln2Fit, Ln2Step
    <3> QED
      BY <1>1, <3>1, <3>2
  <2>2. PICK f \in Nat \ {0} : /\ den' = den * f /\ num * f <= num'
                              /\ num' + Err' <= (num + Err) * f
    BY <1>0, <2>1 DEF Narrows, SeriesInv, StandInv, Err, Rest
  <2>3. /\ Shift \in Nat \ {0} /\ Shift' = Shift /\ den \in Nat \ {0}
        /\ num \in Int /\ num' \in Int /\ Err \in Nat /\ Err' \in Nat
        /\ prefix \in Int /\ prefix' = prefix /\ consumed' = consumed
    <3>1. Err \in Nat /\ Shift \in Nat \ {0}
      BY ErrType, ShiftType DEF TypeInv
    <3>2. Err' \in Nat
      <4>1. /\ spec' \in Specs /\ index' \in 0..MaxTerms[spec']
            /\ den' \in Nat \ {0}
        BY DEF TypeInv, TypeOK
      <4> QED
        BY <4>1, TailType DEF Err
    <3> QED
      BY <3>1, <3>2 DEF TypeInv, TypeOK, Shift, kind, committed
  <2>4. InCell'
    <3>1. num + Err \in Int /\ num' + Err' \in Int
      BY <2>3
    <3>2. /\ prefix * den <= num * Shift => prefix * (den * f) <= num' * Shift
          /\ (num + Err) * Shift < (prefix + 1) * den
               => (num' + Err') * Shift < (prefix + 1) * (den * f)
      BY <2>2, <2>3, <3>1, NarrowedInCell
    <3> QED
      BY <2>2, <2>3, <3>2 DEF InCell, StandInv
  <2>5. spec' = "e" /\ consumed' > 0 => index' >= 2
    BY <2>3 DEF StandInv, StepTerm, kind, TypeInv, TypeOK
  <2> QED
    BY <1>0, <2>4, <2>5
<1> QED
  BY <1>2, <1>3

(* A refreshed interval is ordered and starts at 0 or above. *)
LEMMA SyncOrdered ==
  ASSUME TypeOK, InCell
  PROVE  0 <= SyncLo /\ SyncLo <= SyncHi
<1>1. /\ Err \in Nat /\ Shift \in Nat \ {0} /\ num \in Int /\ den \in Int
      /\ prefix \in Int
  BY ErrType, ShiftType DEF TypeOK
<1>2. num * Shift <= (num + Err) * Shift
  BY <1>1, MulMono
<1>3. /\ num * Shift \in Int /\ (num + Err) * Shift \in Int
      /\ prefix * den \in Int
  BY <1>1
<1> QED
  BY <1>2, <1>3 DEF InCell, SyncLo, SyncHi

(* e cannot commit a digit before its second term. *)
LEMMA ECommitsLate ==
  ASSUME TypeInv, StandInv, CommitDigit, spec = "e"
  PROVE  index >= 2
<1>1. /\ index \in Nat /\ consumed \in Nat /\ base \in Nat \ {0}
      /\ base \in Bases
  BY BoundsAssumption, BasesAssumption DEF TypeInv, TypeOK
<1>2. DigitLo = DigitHi
  BY DEF CommitDigit
<1>3. SUFFICES ASSUME index < 2 PROVE FALSE
  BY <1>1
<1>4. consumed = 0
  BY <1>1, <1>3 DEF StandInv
<1>5. prefix = 0 /\ Shift = 1
  BY <1>1, <1>4, PowAssumption DEF StandInv, Shift
<1>6. den = 1
  <2>1. index = 0 \/ index = 1
    BY <1>1, <1>3
  <2>2. "e" \in Specs /\ index \in 0..MaxTerms["e"]
    BY DEF TypeInv, TypeOK
  <2>3. CASE index = 0
    BY <2>2, <2>3, SumFacts DEF StandInv, SeriesInv
  <2>4. CASE index = 1
    <3>1. 0 \in 0..(MaxTerms["e"] - 1) /\ 0 + 1 = 1
      BY <2>2, <2>4, BoundsAssumption
    <3> QED
      BY <2>2, <2>4, <3>1, ETerms DEF StandInv, SeriesInv
  <2> QED
    BY <2>1, <2>3, <2>4
<1>7. \A a \in Int : a \div 1 = a
  OBVIOUS
<1>8. num \in Int /\ Err \in {2, 3}
  BY DEF TypeInv, TypeOK, Err, TailBound, ETail
<1>9. DigitLo = base * num /\ DigitHi = base * (num + Err)
  BY <1>1, <1>5, <1>6, <1>7, <1>8 DEF DigitLo, DigitHi, SyncLo, SyncHi
<1>10. base * (num + Err) = base * num + base * Err /\ base * num \in Int
  BY <1>1, <1>8
<1>11. base * Err \in Nat \ {0}
  BY <1>1, <1>8, MulType
<1>12. \A x \in Int, y \in Nat \ {0} : x # x + y
  OBVIOUS
<1> QED
  BY ONLY <1>2, <1>9, <1>10, <1>11, <1>12, Zenon

LEMMA InitStands == Init => StandInv
<1> SUFFICES ASSUME Init PROVE StandInv
  OBVIOUS
<1>1. TypeOK
  BY InitType DEF TypeInv
<1>2. Shift = 1 /\ Err \in Nat
  BY <1>1, PowAssumption, ErrType DEF Init, Shift
<1> QED
  BY <1>2, InitSeries DEF Init, StandInv, InCell, IntervalOrdered, Err

LEMMA NextStands ==
  ASSUME Specs \subseteq {"e", "ln2"}, TypeInv, TypeInv', StandInv, [Next]_vars
  PROVE  StandInv'
<1>1. CASE CommitDigit
  <2>1. /\ prefix' = prefix * base + DigitLo /\ consumed' = consumed + 1
        /\ UNCHANGED <<kind, vm>> /\ SyncInterval
    BY <1>1 DEF CommitDigit
  <2>2. Shift' = base * Shift
    BY <1>1, <2>1, NextShift DEF TypeInv, CommitDigit, Shift, kind
  <2>3. SeriesInv' /\ Err' = Err
    BY <2>1 DEF StandInv, SeriesInv, Err, kind, vm
  <2>4. num + Err \in Int
    BY <1>1, CommitDigitBounds
  <2>5. /\ (prefix * base + DigitLo) * den <= num * (base * Shift)
        /\ (num + Err) * (base * Shift) < (prefix * base + DigitLo + 1) * den
    BY <1>1, <2>4, CommitDigitBounds, CommitCell
  <2>6. InCell'
    BY <2>1, <2>2, <2>3, <2>5 DEF InCell, vm
  <2>7. IntervalOrdered'
    BY <2>1, SyncOrdered DEF TypeInv, StandInv, SyncInterval, IntervalOrdered
  <2>8. consumed' # 0
    BY <2>1, BoundsAssumption DEF TypeInv, TypeOK
  <2>9. spec' = "e" => index' >= 2
    BY <1>1, <2>1, ECommitsLate DEF kind, vm
  <2> QED
    BY <2>3, <2>6, <2>7, <2>8, <2>9 DEF StandInv
<1>2. CASE RefineTerm
  <2>1. StepTerm /\ SyncInterval /\ UNCHANGED <<kind, committed>>
    BY <1>2 DEF RefineTerm
  <2>2. IntervalOrdered'
    BY <2>1, SyncOrdered DEF TypeInv, StandInv, SyncInterval, IntervalOrdered
  <2> QED
    BY <2>1, <2>2, StepTermStands DEF StandInv, committed
<1>3. CASE ConvergeTerm
  <2>1. StepTerm /\ UNCHANGED <<kind, committed, interval>>
    BY <1>3 DEF ConvergeTerm
  <2> QED
    BY <2>1, StepTermStands DEF StandInv, committed, interval, IntervalOrdered
<1>4. CASE Converged
  <2>1. SyncInterval /\ UNCHANGED <<kind, vm, committed>>
    BY <1>4 DEF Converged
  <2>2. IntervalOrdered'
    BY <2>1, SyncOrdered DEF TypeInv, StandInv, SyncInterval, IntervalOrdered
  <2> QED
    BY <2>1, <2>2
       DEF StandInv, SeriesInv, InCell, Err, Shift, kind, vm, committed
<1>5. CASE UNCHANGED <<kind, vm, interval, committed>>
  BY <1>5 DEF StandInv, SeriesInv, InCell, IntervalOrdered, Err, Shift,
              kind, vm, interval, committed
<1>6. NextDigit \/ Pending \/ (\E n \in EagerCounts : Converge(n))
        \/ UNCHANGED vars
        => UNCHANGED <<kind, vm, interval, committed>>
  BY DEF NextDigit, Pending, Converge, vars, kind, vm, interval, committed
<1> QED
  BY <1>1, <1>2, <1>3, <1>4, <1>5, <1>6 DEF Next, LoopStep

LEMMA StandInvariant ==
  ASSUME Specs \subseteq {"e", "ln2"}
  PROVE  Spec => [](TypeInv /\ StandInv)
<1>1. TypeInv /\ StandInv /\ [Next]_vars => (TypeInv /\ StandInv)'
  BY NextType, NextStands
<1> QED
  BY <1>1, InitType, InitStands, PTL DEF Spec

(* Digits of e and of ln 2 stand: once committed, no interval the          *)
(* extractor derives later contradicts them.                               *)
THEOREM CommittedDigitsStand ==
  ASSUME Specs \subseteq {"e", "ln2"}
  PROVE  Spec => []DigitsStand
<1>1. TypeInv /\ StandInv => DigitsStand
  <2> SUFFICES ASSUME TypeInv, StandInv, consumed > 0
               PROVE  0 <= SyncLo /\ SyncHi < den
    BY DEF DigitsStand
  <2>1. 0 <= SyncLo
    BY SyncOrdered DEF TypeInv, StandInv
  <2>2. (num + Err) * Shift \in Int /\ prefix * den \in Int /\ den \in Int
    BY ErrType, ShiftType DEF TypeInv, TypeOK
  <2>3. (prefix + 1) * den = prefix * den + den
    BY DEF TypeInv, TypeOK
  <2> QED
    BY <2>1, <2>2, <2>3 DEF StandInv, InCell, SyncHi
<1> QED
  BY <1>1, StandInvariant, PTL

(* The documented invariant of the fields, 0 <= lo <= hi, for those two    *)
(* series.                                                                 *)
THEOREM FieldsOrdered ==
  ASSUME Specs \subseteq {"e", "ln2"}
  PROVE  Spec => []IntervalOrdered
  BY StandInvariant, PTL DEF StandInv

-----------------------------------------------------------------------------
(* Machines kept as text and resumed *)

(* The text holds an earlier state of the same machine. *)
TextInv ==
  /\ text = Machine(text.index, <<Num(spec, text.index), Den(spec, text.index)>>)
  /\ text.index \in 0..index

CheckpointInv == TypeInv /\ SeriesInv /\ TextInv

LEMMA InitText == CheckpointInit => CheckpointInv
<1> SUFFICES ASSUME CheckpointInit PROVE CheckpointInv
  OBVIOUS
<1>1. Init /\ text = AsMade
  BY DEF CheckpointInit
<1>2. TypeInv /\ SeriesInv /\ spec \in Specs /\ index = 0
  BY <1>1, InitType, InitSeries DEF Init
<1>3. Num(spec, 0) = 0 /\ Den(spec, 0) = 1
  BY <1>2, SumFacts
<1> QED
  BY <1>1, <1>2, <1>3 DEF CheckpointInv, TextInv, AsMade, Machine

LEMMA TermsOnlyGrow ==
  ASSUME TypeOK, [Next]_vars
  PROVE  /\ index' = index \/ (index' = index + 1 /\ StepTerm)
         /\ UNCHANGED kind
<1>1. CASE StepTerm /\ UNCHANGED kind
  BY <1>1 DEF StepTerm
<1>2. CASE ~(StepTerm /\ UNCHANGED kind)
  BY <1>2, OnlyTermsStep DEF vm
<1> QED
  BY <1>1, <1>2

(* A resumed machine is one that the program was in. *)
LEMMA RestartSound ==
  ASSUME CheckpointInv, Restart
  PROVE  /\ CheckpointInv' /\ UNCHANGED kind
         /\ index' = text.index /\ index' <= index
<1>1. /\ text.spec_name = spec /\ text.base = base
      /\ text.num = Num(spec, text.index) /\ text.den = Den(spec, text.index)
      /\ text.index \in 0..index
  BY DEF CheckpointInv, TextInv, Machine
<1>2. /\ spec' = spec /\ base' = base /\ index' = text.index
      /\ num' = Num(spec, text.index) /\ den' = Den(spec, text.index)
      /\ text' = text
  BY <1>1 DEF Restart, Loaded
<1>3. /\ spec \in Specs /\ base \in Bases /\ index \in 0..MaxTerms[spec]
      /\ MaxTerms[spec] \in Nat /\ MaxDigits \in Nat /\ Word \in Nat
  BY BoundsAssumption DEF CheckpointInv, TypeInv, TypeOK
<1>4. index' \in 0..MaxTerms[spec] /\ index' <= index /\ index' \in 0..index'
  BY <1>1, <1>2, <1>3
<1>5. num' \in Int /\ den' \in Nat \ {0}
  BY <1>2, <1>3, <1>4, SumFacts
<1>6. Err' \in Nat
  <2>1. Err' = Rest(spec, index')
    BY <1>2 DEF Err, Rest
  <2> QED
    BY <1>3, <1>4, <2>1, SumFacts
<1>7. /\ prefix' = 0 /\ consumed' = 0 /\ emitted' = <<>> /\ pc' = "idle"
      /\ iter' = 0 /\ target' = 0
      /\ lo' = num' /\ hi' = num' + Err' /\ scale' = den'
  BY DEF Restart, ExtractorMade
<1>8. TypeInv'
  BY <1>2, <1>3, <1>4, <1>5, <1>6, <1>7 DEF TypeInv, TypeOK
<1>9. SeriesInv'
  BY <1>2 DEF SeriesInv
<1>10. TextInv'
  BY <1>2, <1>4 DEF CheckpointInv, TextInv, Machine
<1> QED
  BY <1>2, <1>4, <1>8, <1>9, <1>10 DEF CheckpointInv, kind

LEMMA NextText ==
  ASSUME CheckpointInv, [CheckpointNext]_cvars
  PROVE  CheckpointInv'
<1>1. CASE Restart
  BY <1>1, RestartSound
<1>2. CASE Save
  <2>1. /\ text' = Machine(index, <<num, den>>) /\ UNCHANGED vars
    BY <1>2 DEF Save
  <2>2. UNCHANGED <<kind, vm>> /\ TypeInv' /\ SeriesInv'
    BY <2>1, NextType, NextSeries DEF CheckpointInv, vars
  <2>3. index \in Nat
    BY BoundsAssumption DEF CheckpointInv, TypeInv, TypeOK
  <2>4. TextInv'
    BY <2>1, <2>2, <2>3 DEF CheckpointInv, SeriesInv, TextInv, Machine, kind, vm
  <2> QED
    BY <2>2, <2>4 DEF CheckpointInv
<1>3. CASE SaveNumber
  <2>1. text' = AsMade /\ UNCHANGED vars
    BY <1>3 DEF SaveNumber
  <2>2. UNCHANGED <<kind, vm>> /\ TypeInv' /\ SeriesInv'
    BY <2>1, NextType, NextSeries DEF CheckpointInv, vars
  <2>3. index \in Nat /\ spec \in Specs
    BY BoundsAssumption DEF CheckpointInv, TypeInv, TypeOK
  <2>4. Num(spec, 0) = 0 /\ Den(spec, 0) = 1
    BY <2>3, SumFacts
  <2>5. TextInv'
    BY <2>1, <2>2, <2>3, <2>4 DEF TextInv, AsMade, Machine, kind, vm
  <2> QED
    BY <2>2, <2>5 DEF CheckpointInv
<1>4. CASE [Next]_vars /\ UNCHANGED text
  <2>1. TypeInv' /\ SeriesInv'
    BY <1>4, NextType, NextSeries DEF CheckpointInv
  <2>2. UNCHANGED kind /\ index' \in {index, index + 1} /\ index \in Nat
    BY <1>4, TermsOnlyGrow, BoundsAssumption DEF CheckpointInv, TypeInv, TypeOK
  <2>3. TextInv'
    BY <1>4, <2>2 DEF CheckpointInv, TextInv, Machine, kind
  <2> QED
    BY <2>1, <2>3 DEF CheckpointInv
<1> QED
  BY <1>1, <1>2, <1>3, <1>4 DEF CheckpointNext, Call, cvars

(* So does one that is saved and resumed, and its text holds an earlier    *)
(* place of it.                                                            *)
THEOREM CheckpointInvariant == CheckpointSpec => []CheckpointInv
<1>1. CheckpointInv /\ [CheckpointNext]_cvars => CheckpointInv'
  BY NextText
<1> QED
  BY <1>1, InitText, PTL DEF CheckpointSpec

(* The registers keep their types through every save and restart. *)
THEOREM CheckpointTypeCorrect == CheckpointSpec => []TypeOK
<1>1. CheckpointInv => TypeOK
  BY DEF CheckpointInv, TypeInv
<1> QED
  BY <1>1, CheckpointInvariant, PTL

(* The tail oracles keep their promise at the depths a restart resumes     *)
(* from, too.                                                              *)
THEOREM ResumedTailsCertify ==
  ASSUME \A s \in Specs : Converges(s)
  PROVE  CheckpointSpec => []TailCertificate
<1>1. CheckpointInv => TailCertificate
  BY StateCertified DEF CheckpointInv, TypeInv
<1> QED
  BY <1>1, CheckpointInvariant, PTL

(* From the first term on no term that is summed makes a bound larger,     *)
(* series.hpp's "monotone non-increasing as index grows", of all five.     *)
THEOREM BoundsShrink == CheckpointSpec => TailMonotoneOnceStarted
<1>1. CheckpointInv /\ [CheckpointNext]_cvars
        => [index > 0 /\ index' >= index => BoundShrinks]_vars
  <2> SUFFICES ASSUME CheckpointInv, [CheckpointNext]_cvars,
                      index > 0, index' >= index
               PROVE  BoundShrinks
    OBVIOUS
  <2>1. index \in Nat /\ TypeOK /\ SeriesInv
    BY BoundsAssumption DEF CheckpointInv, TypeInv, TypeOK
  <2>2. CASE StepTerm /\ UNCHANGED kind
    BY <2>1, <2>2, StateFalls
  <2>3. CASE UNCHANGED <<kind, vm>>
    <3>1. Err' = Err /\ den' = den
      BY <2>3 DEF Err, kind, vm
    <3>2. Err * den \in Int
      BY <2>1, ErrType DEF TypeOK
    <3> QED
      BY <3>1, <3>2 DEF BoundShrinks
  <2>4. CASE Restart
    <3>1. SeriesInv' /\ index' = index /\ UNCHANGED kind
      BY <2>1, <2>4, RestartSound DEF CheckpointInv, TextInv
    <3> QED
      BY <2>1, <2>3, <3>1 DEF SeriesInv, kind, vm
  <2>5. CASE [Next]_vars
    BY <2>2, <2>3, <2>5, OnlyTermsStep
  <2> QED
    BY <2>4, <2>5 DEF CheckpointNext, Call, Save, SaveNumber, cvars
<1> QED
  BY <1>1, CheckpointInvariant, PTL DEF CheckpointSpec, TailMonotoneOnceStarted

-----------------------------------------------------------------------------
(* A restarted program repeats its digits *)

(* The value of e or ln 2 truncated to n digits, and the digit handed out  *)
(* between two truncations.                                                *)
Trunc(n) == (P * BigPow(base, n)) \div Q
TrueDigit(n) == (Trunc(n) - (IF n = 1 THEN 0 ELSE Trunc(n - 1)) * base) % Word
TrueDigits(digits) == \A i \in DOMAIN digits : digits[i] = TrueDigit(i)

(* What has been handed out, before the last restart and since, are the    *)
(* true digits, however deep the sums were that they were read from.       *)
AgreeInv ==
  spec \in {"e", "ln2"} =>
    /\ prefix = IF consumed = 0 THEN 0 ELSE Trunc(consumed)
    /\ Len(emitted) = consumed
    /\ TrueDigits(emitted)
    /\ handed \in Seq(0..(Word - 1)) /\ TrueDigits(handed)

LEMMA InitAgrees == CheckpointInit => AgreeInv
<1> SUFFICES ASSUME CheckpointInit PROVE AgreeInv
  OBVIOUS
<1>1. consumed = 0 /\ prefix = 0 /\ emitted = <<>> /\ handed = <<>>
  BY DEF CheckpointInit, Init
<1> QED
  BY <1>1 DEF AgreeInv, TrueDigits

LEMMA SameTruth ==
  ASSUME UNCHANGED kind
  PROVE  /\ \A n : Trunc(n)' = Trunc(n) /\ TrueDigit(n)' = TrueDigit(n)
         /\ P' = P /\ Q' = Q
  BY DEF Trunc, TrueDigit, P, Q, kind

(* A commit extends the truncation by one digit. *)
LEMMA CommitAgrees ==
  ASSUME TypeInv, SeriesInv, AgreeInv, CommitDigit, spec \in {"e", "ln2"},
         Converges(spec)
  PROVE  /\ prefix' = Trunc(consumed') /\ Len(emitted') = consumed'
         /\ consumed' # 0
         /\ \A i \in DOMAIN emitted' : emitted'[i] = TrueDigit(i)
<1> DEFINE d == DigitLo
           c == prefix * base + d
           n == consumed + 1
<1>1. /\ prefix' = c /\ consumed' = n
      /\ emitted' = Append(emitted, d % Word)
  BY DEF CommitDigit
<1>2. /\ base \in Nat \ {0} /\ Shift \in Nat \ {0} /\ consumed \in Nat
      /\ prefix \in Int /\ d \in Int /\ P \in Nat /\ Q \in Nat \ {0}
      /\ Word \in Nat \ {0} /\ emitted \in Seq(0..(Word - 1))
  BY BasesAssumption, BoundsAssumption, ShiftType, DigitType, ValueType
     DEF TypeInv, TypeOK
<1>3. Encloses
  BY StateEncloses DEF TypeInv
<1>4. c * Q <= P * (base * Shift) /\ P * (base * Shift) < (c + 1) * Q
  BY <1>3, CommitIsTrue
<1>5. BigPow(base, n) = base * Shift
  BY NextShift DEF TypeInv, CommitDigit
<1>6. c \in Int /\ P * (base * Shift) \in Int /\ n \in Nat /\ n # 0 /\ n - 1 = consumed
  BY <1>2
<1>7. Trunc(n) = c
  <2> HIDE DEF c, n
  <2>1. (P * (base * Shift)) \div Q = c
    BY <1>2, <1>4, <1>6, DivUnique
  <2> QED
    BY <1>5, <2>1 DEF Trunc
<1>8. Len(emitted) = consumed /\ TrueDigits(emitted)
      /\ prefix = IF consumed = 0 THEN 0 ELSE Trunc(consumed)
  BY DEF AgreeInv
<1>9. prefix = IF n = 1 THEN 0 ELSE Trunc(n - 1)
  BY <1>2, <1>8
<1>10. TrueDigit(n) = d % Word
  <2>1. Trunc(n) - prefix * base = d
    BY <1>2, <1>7
  <2> QED
    BY <1>9, <2>1 DEF TrueDigit
<1> HIDE DEF d, c, n
<1>11. /\ Len(emitted') = n /\ DOMAIN emitted' = 1..n
       /\ emitted'[n] = d % Word
       /\ \A i \in 1..consumed : emitted'[i] = emitted[i] /\ i \in DOMAIN emitted
  BY <1>1, <1>2, <1>8 DEF n
<1>12. ASSUME NEW i \in DOMAIN emitted' PROVE emitted'[i] = TrueDigit(i)
  <2>1. i = n \/ i \in 1..consumed
    BY <1>2, <1>11 DEF n
  <2> QED
    BY <1>8, <1>10, <1>11, <2>1 DEF TrueDigits
<1> QED
  BY <1>1, <1>6, <1>7, <1>11, <1>12

LEMMA NextAgrees ==
  ASSUME \A s \in Specs : s \in {"e", "ln2"} => Converges(s),
         CheckpointInv, AgreeInv, [CheckpointNext]_cvars
  PROVE  AgreeInv'
<1>1. UNCHANGED kind
  BY RestartSound, TermsOnlyGrow
     DEF CheckpointNext, Call, Save, SaveNumber, cvars, vars,
         CheckpointInv, TypeInv
<1>2. SUFFICES ASSUME spec \in {"e", "ln2"} PROVE AgreeInv'
  BY <1>1 DEF AgreeInv, kind
<1>3. /\ prefix = IF consumed = 0 THEN 0 ELSE Trunc(consumed)
      /\ Len(emitted) = consumed /\ TrueDigits(emitted)
      /\ handed \in Seq(0..(Word - 1)) /\ TrueDigits(handed)
  BY <1>2 DEF AgreeInv
<1>4. /\ \A n : Trunc(n)' = Trunc(n) /\ TrueDigit(n)' = TrueDigit(n)
  BY <1>1, SameTruth
<1>5. CASE CommitDigit /\ UNCHANGED handed
  <2>1. Converges(spec)
    BY <1>2 DEF CheckpointInv, TypeInv, TypeOK
  <2>2. /\ prefix' = Trunc(consumed') /\ Len(emitted') = consumed'
        /\ consumed' # 0
        /\ \A i \in DOMAIN emitted' : emitted'[i] = TrueDigit(i)
    BY <1>2, <1>5, <2>1, CommitAgrees DEF CheckpointInv
  <2>3. Trunc(consumed)' = Trunc(consumed')
    BY <1>1 DEF Trunc, P, Q, kind
  <2>4. TrueDigits(emitted)'
    BY <1>4, <2>2 DEF TrueDigits
  <2>5. TrueDigits(handed)'
    BY <1>3, <1>4, <1>5 DEF TrueDigits
  <2> QED
    BY <1>3, <1>5, <2>2, <2>3, <2>4, <2>5 DEF AgreeInv
<1>6. CASE UNCHANGED <<committed, handed>>
  <2>1. Trunc(consumed)' = Trunc(consumed)
    BY <1>1, <1>6 DEF Trunc, P, Q, kind, committed
  <2>2. TrueDigits(emitted)' /\ TrueDigits(handed)'
    BY <1>3, <1>4, <1>6 DEF TrueDigits, committed
  <2> QED
    BY <1>3, <1>6, <2>1, <2>2 DEF AgreeInv, committed
<1>7. CASE Restart
  <2>1. /\ prefix' = 0 /\ consumed' = 0 /\ emitted' = <<>>
        /\ handed' \in {emitted, handed}
    BY <1>7 DEF Restart, ExtractorMade
  <2>2. emitted \in Seq(0..(Word - 1))
    BY DEF CheckpointInv, TypeInv, TypeOK
  <2>3. TrueDigits(handed)'
    BY <1>3, <1>4, <2>1 DEF TrueDigits
  <2>4. TrueDigits(emitted)' /\ Len(emitted') = consumed'
    BY <2>1 DEF TrueDigits
  <2> QED
    BY <1>3, <2>1, <2>2, <2>3, <2>4 DEF AgreeInv
<1>8. [Next]_vars /\ ~CommitDigit => UNCHANGED committed
  BY OnlyCommitsCommit
<1> QED
  BY <1>5, <1>6, <1>7, <1>8
     DEF CheckpointNext, Call, Save, SaveNumber, cvars, vars

(* json.hpp:10, "a deserialized VM resumes byte-identically": the digits   *)
(* given after a restart repeat those given before, though they are read   *)
(* from deeper sums, for e and for ln 2, in every base.                    *)
THEOREM RestartRepeatsDigits ==
  ASSUME \A s \in Specs : s \in {"e", "ln2"} => Converges(s)
  PROVE  CheckpointSpec => []DigitsAgree
<1>1. CheckpointInv /\ AgreeInv /\ [CheckpointNext]_cvars
        => (CheckpointInv /\ AgreeInv)'
  BY NextText, NextAgrees
<1>2. CheckpointInit => CheckpointInv /\ AgreeInv
  BY InitText, InitAgrees
<1>3. AgreeInv => DigitsAgree
  BY DEF AgreeInv, TrueDigits, DigitsAgree, RestartAgrees
<1> QED
  BY <1>1, <1>2, <1>3, PTL DEF CheckpointSpec

-----------------------------------------------------------------------------
(* The accumulators are the sum of the terms *)

LEMMA FactorialStepwise ==
  /\ Factorial \in [Nat -> Nat \ {0}]
  /\ Factorial[0] = 1
  /\ \A n \in Nat : Factorial[n + 1] = (n + 1) * Factorial[n]
<1> DEFINE A == Nat \ {0}
           F == [n \in Nat |-> [x \in A |-> (n + 1) * x]]
           Solves(f) == f = [n \in Nat |-> IF n = 0 THEN 1 ELSE n * f[n - 1]]
<1>1. \A n \in Nat, x \in A : (n + 1) * x \in A
  BY MulType
<1>2. 1 \in A /\ F \in [Nat -> [A -> A]]
  BY <1>1
<1>3. PICK g \in [Nat -> A] : Runs(g, 1, F)
  <2> HIDE DEF A, F
  <2> QED
    BY <1>2, PrimitiveRecursion
<1>4. g[0] = 1 /\ \A n \in Nat : g[n + 1] = (n + 1) * g[n]
  <2>1. ASSUME NEW n \in Nat PROVE g[n + 1] = (n + 1) * g[n]
    <3>1. g[n + 1] = F[n][g[n]] /\ g[n] \in A
      BY <1>3 DEF Runs
    <3> HIDE DEF A
    <3> QED
      BY <3>1
  <2> QED
    BY <1>3, <2>1 DEF Runs
<1>5. Solves(g)
  <2>1. ASSUME NEW n \in Nat
        PROVE  g[n] = IF n = 0 THEN 1 ELSE n * g[n - 1]
    <3>1. CASE n = 0
      BY <1>4, <3>1
    <3>2. CASE n # 0
      <4>1. n - 1 \in Nat /\ (n - 1) + 1 = n
        BY <3>2
      <4>2. g[(n - 1) + 1] = ((n - 1) + 1) * g[n - 1]
        BY <1>4, <4>1
      <4> QED
        BY <3>2, <4>1, <4>2
    <3> QED
      BY <3>1, <3>2
  <2> QED
    BY <2>1
<1>6. Solves(Factorial)
  <2>1. Factorial = CHOOSE f : Solves(f)
    BY DEF Factorial
  <2> HIDE DEF Solves
  <2> QED
    BY <1>5, <2>1
<1> DEFINE S == Factorial
<1>7. S = [n \in Nat |-> IF n = 0 THEN 1 ELSE n * S[n - 1]]
  BY <1>6
<1> HIDE DEF S
<1>8. S[0] = 1
  BY <1>7
<1>9. ASSUME NEW n \in Nat PROVE S[n + 1] = (n + 1) * S[n]
  <2>1. n + 1 \in Nat /\ n + 1 # 0 /\ (n + 1) - 1 = n
    OBVIOUS
  <2> QED
    BY <1>7, <2>1
<1>10. \A n \in Nat : S[n] \in A
  <2> DEFINE T == {n \in Nat : S[n] \in A}
  <2>1. 0 \in T
    BY <1>2, <1>8
  <2>2. ASSUME NEW n \in Nat, n \in T PROVE n + 1 \in T
    <3>1. S[n] \in A /\ S[n + 1] = (n + 1) * S[n]
      BY <1>9, <2>2
    <3>2. (n + 1) * S[n] \in A
      BY <1>1, <3>1
    <3> QED
      BY <3>1, <3>2
  <2>3. \A n \in Nat : n \in T
    <3> HIDE DEF T
    <3> QED
      BY <2>1, <2>2, SetInduction
  <2> QED
    BY <2>3
<1>11. S \in [Nat -> A]
  BY <1>7, <1>10
<1> QED
  BY <1>8, <1>9, <1>11 DEF S

LEMMA PowersStepwise ==
  ASSUME NEW b \in Nat \ {0}
  PROVE  /\ Powers(b) \in [Nat -> Nat \ {0}]
         /\ Powers(b)[0] = 1
         /\ \A n \in Nat : Powers(b)[n + 1] = b * Powers(b)[n]
<1> DEFINE A == Nat \ {0}
           F == [n \in Nat |-> [x \in A |-> b * x]]
           Solves(f) == f = [n \in Nat |-> IF n = 0 THEN 1 ELSE b * f[n - 1]]
<1>1. \A x \in A : b * x \in A
  BY MulType
<1>2. 1 \in A /\ F \in [Nat -> [A -> A]]
  BY <1>1
<1>3. PICK g \in [Nat -> A] : Runs(g, 1, F)
  <2> HIDE DEF A, F
  <2> QED
    BY <1>2, PrimitiveRecursion
<1>4. g[0] = 1 /\ \A n \in Nat : g[n + 1] = b * g[n]
  <2>1. ASSUME NEW n \in Nat PROVE g[n + 1] = b * g[n]
    <3>1. g[n + 1] = F[n][g[n]] /\ g[n] \in A
      BY <1>3 DEF Runs
    <3> HIDE DEF A
    <3> QED
      BY <3>1
  <2> QED
    BY <1>3, <2>1 DEF Runs
<1>5. Solves(g)
  <2>1. ASSUME NEW n \in Nat
        PROVE  g[n] = IF n = 0 THEN 1 ELSE b * g[n - 1]
    <3>1. CASE n = 0
      BY <1>4, <3>1
    <3>2. CASE n # 0
      <4>1. n - 1 \in Nat /\ (n - 1) + 1 = n
        BY <3>2
      <4>2. g[(n - 1) + 1] = b * g[n - 1]
        BY <1>4, <4>1
      <4> QED
        BY <3>2, <4>1, <4>2
    <3> QED
      BY <3>1, <3>2
  <2> QED
    BY <2>1
<1>6. Solves(Powers(b))
  <2>1. Powers(b) = CHOOSE f : Solves(f)
    BY DEF Powers
  <2> HIDE DEF Solves
  <2> QED
    BY <1>5, <2>1
<1> DEFINE S == Powers(b)
<1>7. S = [n \in Nat |-> IF n = 0 THEN 1 ELSE b * S[n - 1]]
  BY <1>6
<1> HIDE DEF S
<1>8. S[0] = 1
  BY <1>7
<1>9. ASSUME NEW n \in Nat PROVE S[n + 1] = b * S[n]
  <2>1. n + 1 \in Nat /\ n + 1 # 0 /\ (n + 1) - 1 = n
    OBVIOUS
  <2> QED
    BY <1>7, <2>1
<1>10. \A n \in Nat : S[n] \in A
  <2> DEFINE T == {n \in Nat : S[n] \in A}
  <2>1. 0 \in T
    BY <1>2, <1>8
  <2>2. ASSUME NEW n \in Nat, n \in T PROVE n + 1 \in T
    BY <1>1, <1>9, <2>2
  <2>3. \A n \in Nat : n \in T
    <3> HIDE DEF T
    <3> QED
      BY <2>1, <2>2, SetInduction
  <2> QED
    BY <2>3
<1>11. S \in [Nat -> A]
  BY <1>7, <1>10
<1> QED
  BY <1>8, <1>9, <1>11 DEF S

(* As far as it is raised, big_pow is the power. *)
LEMMA PowIsPower ==
  ASSUME NEW s \in Specs, NEW b \in {2, 3}
  PROVE  \A n \in 0..(2 * MaxTerms[s] + 1) : BigPow(b, n) = Powers(b)[n]
<1> DEFINE m == 2 * MaxTerms[s] + 1
           T == {n \in Nat : BigPow(b, n) = Powers(b)[n]}
<1>1. m \in Nat /\ b \in Nat \ {0}
  BY BoundsAssumption
<1>2. 0 \in T
  BY <1>1, PowAssumption, PowersStepwise
<1>3. ASSUME NEW n \in Nat, n < m, n \in T PROVE n + 1 \in T
  <2>1. n \in 0..m
    BY <1>1, <1>3
  <2>2. BigPow(b, n + 1) = b * BigPow(b, n)
    BY <2>1, PowAssumption
  <2>3. Powers(b)[n + 1] = b * Powers(b)[n]
    BY <1>1, PowersStepwise
  <2> QED
    BY <1>3, <2>2, <2>3
<1>4. \A n \in 0..m : n \in T
  <2> HIDE DEF T, m
  <2> QED
    BY <1>1, <1>2, <1>3, BoundedInduction
<1> QED
  BY <1>4

(* A term is a whole number over a positive one. *)
LEMMA TermType ==
  ASSUME NEW s \in Specs, NEW k \in Nat
  PROVE  Term(s, k).top \in Int /\ Term(s, k).bottom \in Nat \ {0}
<1> DEFINE odd == 2 * k + 1
           two == Powers(2)
           three == Powers(3)
<1>1. /\ odd \in Nat \ {0} /\ k + 1 \in Nat \ {0} /\ Sign(k) \in Int
      /\ s \in SpecNames
  BY SignType, SpecsAssumption
<1>2. /\ two[k + 1] \in Nat \ {0} /\ two[odd] \in Nat \ {0} /\ three[odd] \in Nat \ {0}
      /\ Factorial[k] \in Nat \ {0}
  <2>1. 2 \in Nat \ {0} /\ 3 \in Nat \ {0}
    OBVIOUS
  <2>2. two \in [Nat -> Nat \ {0}]
    BY <2>1, PowersStepwise
  <2>3. three \in [Nat -> Nat \ {0}]
    BY <2>1, PowersStepwise
  <2> HIDE DEF two, three
  <2> QED
    BY <1>1, <2>2, <2>3, FactorialStepwise
<1> HIDE DEF odd, two, three
<1>3. /\ (k + 1) * two[k + 1] \in Nat \ {0} /\ odd * odd \in Nat \ {0}
      /\ two[odd] * three[odd] \in Nat \ {0}
  BY <1>1, <1>2, MulType
<1>4. odd * (two[odd] * three[odd]) \in Nat \ {0}
  BY <1>1, <1>3, MulType
<1>5. Sign(k) * (two[odd] + three[odd]) \in Int
  BY <1>1, <1>2
<1>6. CASE s = "e"
  BY <1>2, <1>6 DEF Term
<1>7. CASE s = "ln2"
  BY <1>3, <1>7 DEF Term, two
<1>8. CASE s = "1/e"
  BY <1>1, <1>2, <1>8 DEF Term
<1>9. CASE s = "pi/4"
  BY <1>4, <1>5, <1>9 DEF Term, two, three, odd
<1>10. CASE s = "catalan"
  BY <1>1, <1>3, <1>10 DEF Term, odd
<1> QED
  BY <1>1, <1>6, <1>7, <1>8, <1>9, <1>10 DEF SpecNames

Top(s, k) == Term(s, k).top
Bottom(s, k) == Term(s, k).bottom

LEMMA SumOverStepwise ==
  ASSUME NEW s \in Specs, NEW d \in Nat \ {0}
  PROVE  /\ SumOver(s, d) \in [Nat -> Int]
         /\ SumOver(s, d)[0] = 0
         /\ \A n \in Nat :
              SumOver(s, d)[n + 1] = SumOver(s, d)[n] + Top(s, n) * (d \div Bottom(s, n))
<1> DEFINE G(n) == Top(s, n) * (d \div Bottom(s, n))
           F == [n \in Nat |-> [x \in Int |-> x + G(n)]]
           Solves(f) == f = [n \in Nat |-> IF n = 0 THEN 0
                                           ELSE f[n - 1] + G(n - 1)]
<1>1. ASSUME NEW n \in Nat PROVE G(n) \in Int
  <2>1. Top(s, n) \in Int /\ Bottom(s, n) \in Nat \ {0}
    BY TermType DEF Top, Bottom
  <2>2. d \div Bottom(s, n) \in Int
    BY <2>1, DivType
  <2> QED
    BY <2>1, <2>2
<1>2. SumOver(s, d) = CHOOSE f : Solves(f)
  BY DEF SumOver, Top, Bottom
<1> HIDE DEF G
<1>3. F \in [Nat -> [Int -> Int]] /\ 0 \in Int
  BY <1>1
<1>4. PICK g \in [Nat -> Int] : Runs(g, 0, F)
  <2> HIDE DEF F
  <2> QED
    BY <1>3, PrimitiveRecursion
<1>5. g[0] = 0 /\ \A n \in Nat : g[n + 1] = g[n] + G(n)
  <2>1. ASSUME NEW n \in Nat PROVE g[n + 1] = g[n] + G(n)
    BY <1>4 DEF Runs
  <2> QED
    BY <1>4, <2>1 DEF Runs
<1>6. Solves(g)
  <2>1. ASSUME NEW n \in Nat
        PROVE  g[n] = IF n = 0 THEN 0 ELSE g[n - 1] + G(n - 1)
    <3>1. CASE n = 0
      BY <1>5, <3>1
    <3>2. CASE n # 0
      <4>1. n - 1 \in Nat /\ (n - 1) + 1 = n
        BY <3>2
      <4>2. g[(n - 1) + 1] = g[n - 1] + G(n - 1)
        BY <1>5, <4>1
      <4> QED
        BY <3>2, <4>1, <4>2
    <3> QED
      BY <3>1, <3>2
  <2> QED
    BY <2>1
<1>7. Solves(SumOver(s, d))
  <2> HIDE DEF Solves
  <2> QED
    BY <1>2, <1>6
<1> DEFINE S == SumOver(s, d)
<1>8. S = [n \in Nat |-> IF n = 0 THEN 0 ELSE S[n - 1] + G(n - 1)]
  BY <1>7
<1> HIDE DEF S
<1>9. S[0] = 0
  BY <1>8
<1>10. ASSUME NEW n \in Nat PROVE S[n + 1] = S[n] + G(n)
  <2>1. n + 1 \in Nat /\ n + 1 # 0 /\ (n + 1) - 1 = n
    OBVIOUS
  <2> QED
    BY <1>8, <2>1
<1>11. \A n \in Nat : S[n] \in Int
  <2> DEFINE T == {n \in Nat : S[n] \in Int}
  <2>1. 0 \in T
    BY <1>9
  <2>2. ASSUME NEW n \in Nat, n \in T PROVE n + 1 \in T
    BY <1>1, <1>10, <2>2
  <2>3. \A n \in Nat : n \in T
    <3> HIDE DEF T
    <3> QED
      BY <2>1, <2>2, SetInduction
  <2> QED
    BY <2>3
<1>12. S \in [Nat -> Int]
  BY <1>8, <1>11
<1> QED
  BY <1>9, <1>10, <1>12 DEF S, G

(* The next term is t over the next denominator, t times its own, and the  *)
(* sum so far is moved to that denominator.                                *)
Summed(s, n, f, t) ==
  /\ f \in Nat \ {0} /\ t \in Nat
  /\ Den(s, n + 1) = Den(s, n) * f
  /\ Den(s, n + 1) = t * Bottom(s, n)
  /\ Num(s, n + 1) = Num(s, n) * f + Top(s, n) * t

LEMMA ESummed ==
  ASSUME "e" \in Specs, NEW n \in 0..(MaxTerms["e"] - 1)
  PROVE  \E f, t : Summed("e", n, f, t)
<1> DEFINE m == MaxTerms["e"]
           T == {k \in Nat : k < m => Den("e", k + 1) = Factorial[k]}
<1>1. m \in Nat /\ n \in Nat
  BY SumFacts
<1>2. 0 \in T
  <2>1. ASSUME 0 < m PROVE Den("e", 0 + 1) = Factorial[0]
    <3>1. 0 \in 0..(m - 1)
      BY <1>1, <2>1
    <3>2. Den("e", 1) = 1
      BY <3>1, ETerms
    <3> QED
      BY <3>2, FactorialStepwise
  <2> QED
    BY <2>1
<1>3. ASSUME NEW k \in Nat, k \in T PROVE k + 1 \in T
  <2>1. ASSUME k + 1 < m PROVE Den("e", (k + 1) + 1) = Factorial[k + 1]
    <3>1. k + 1 \in 0..(m - 1) /\ k + 1 # 0 /\ k < m
      BY <1>1, <2>1
    <3>2. Den("e", (k + 1) + 1) = Den("e", k + 1) * (k + 1)
      BY <3>1, ETerms
    <3>3. Factorial[k + 1] = (k + 1) * Factorial[k] /\ Factorial[k] \in Nat
      BY FactorialStepwise
    <3> QED
      BY <1>3, <3>1, <3>2, <3>3
  <2> QED
    BY <2>1
<1>4. \A k \in Nat : k \in T
  <2> HIDE DEF T
  <2> QED
    BY <1>2, <1>3, SetInduction
<1>5. Den("e", n + 1) = Factorial[n] /\ Factorial[n] \in Nat
  <2>1. n < m
    BY <1>1
  <2>2. Factorial[n] \in Nat
    BY <1>1, FactorialStepwise
  <2> QED
    BY <1>1, <1>4, <2>1, <2>2
<1>6. Top("e", n) = 1 /\ Bottom("e", n) = Factorial[n]
  BY DEF Top, Bottom, Term
<1>7. CASE n = 0
  <2>1. Num("e", 1) = 1 /\ Den("e", 1) = 1 /\ Num("e", 0) = 0 /\ Den("e", 0) = 1
    BY <1>7, ETerms, SumFacts
  <2>2. Summed("e", n, 1, 1)
    BY <1>5, <1>6, <1>7, <2>1 DEF Summed
  <2> QED
    BY <2>2
<1>8. CASE n # 0
  <2>1. Num("e", n + 1) = Num("e", n) * n + 1 /\ Den("e", n + 1) = Den("e", n) * n
    BY <1>8, ETerms
  <2>2. Summed("e", n, n, 1)
    <3>1. Factorial[n] = 1 * Factorial[n] /\ 1 = 1 * 1
      BY <1>5
    <3> QED
      BY <1>1, <1>5, <1>6, <1>8, <2>1, <3>1 DEF Summed
  <2> QED
    BY <2>2
<1> QED
  BY <1>7, <1>8

LEMMA OneOverESummed ==
  ASSUME "1/e" \in Specs, NEW n \in 0..(MaxTerms["1/e"] - 1)
  PROVE  \E f, t : Summed("1/e", n, f, t)
<1> DEFINE m == MaxTerms["1/e"]
           T == {k \in Nat : k < m => Den("1/e", k + 1) = Factorial[k]}
<1>1. m \in Nat /\ n \in Nat
  BY SumFacts
<1>2. 0 \in T
  <2>1. ASSUME 0 < m PROVE Den("1/e", 0 + 1) = Factorial[0]
    <3>1. 0 \in 0..(m - 1)
      BY <1>1, <2>1
    <3>2. Den("1/e", 0 + 1) = Den("1/e", 0) * 1 /\ Den("1/e", 0) = 1
      BY <3>1, OneOverESteps, SumFacts DEF Steps
    <3> QED
      BY <3>2, FactorialStepwise
  <2> QED
    BY <2>1
<1>3. ASSUME NEW k \in Nat, k \in T PROVE k + 1 \in T
  <2>1. ASSUME k + 1 < m PROVE Den("1/e", (k + 1) + 1) = Factorial[k + 1]
    <3>1. k + 1 \in 0..(m - 1) /\ k + 1 # 0 /\ k < m
      BY <1>1, <2>1
    <3>2. Den("1/e", (k + 1) + 1) = Den("1/e", k + 1) * (k + 1)
      BY <3>1, OneOverESteps DEF Steps
    <3>3. Factorial[k + 1] = (k + 1) * Factorial[k] /\ Factorial[k] \in Nat
      BY FactorialStepwise
    <3> QED
      BY <1>3, <3>1, <3>2, <3>3
  <2> QED
    BY <2>1
<1>4. \A k \in Nat : k \in T
  <2> HIDE DEF T
  <2> QED
    BY <1>2, <1>3, SetInduction
<1>5. Den("1/e", n + 1) = Factorial[n] /\ Factorial[n] \in Nat
  <2>1. n < m
    BY <1>1
  <2>2. Factorial[n] \in Nat
    BY <1>1, FactorialStepwise
  <2> QED
    BY <1>1, <1>4, <2>1, <2>2
<1>6. Top("1/e", n) = Sign(n) /\ Bottom("1/e", n) = Factorial[n]
  BY DEF Top, Bottom, Term
<1> DEFINE f == IF n = 0 THEN 1 ELSE n
<1>7. Steps("1/e", n, f, 1)
  BY OneOverESteps
<1> HIDE DEF f
<1>8. Summed("1/e", n, f, 1)
  <2>1. Factorial[n] = 1 * Factorial[n]
    BY <1>5
  <2> QED
    BY <1>5, <1>6, <1>7, <2>1 DEF Steps, Summed
<1> QED
  BY <1>8

LEMMA Ln2Summed ==
  ASSUME "ln2" \in Specs, NEW n \in 0..(MaxTerms["ln2"] - 1)
  PROVE  \E f, t : Summed("ln2", n, f, t)
<1> DEFINE k == n + 1
           p == BigPow(2, n)
           b == Den("ln2", n)
<1>1. /\ n \in Nat /\ k \in Nat \ {0} /\ MaxTerms["ln2"] \in Nat
      /\ n \in 0..MaxTerms["ln2"] /\ k \in 0..(2 * MaxTerms["ln2"] + 1)
      /\ n \in 0..(2 * MaxTerms["ln2"] + 1)
  BY SumFacts
<1>2. PICK F \in Nat \ {0} : b = F * p /\ Rest("ln2", n) = F
  BY <1>1, Ln2Fit DEF Ln2Fits
<1>3. /\ Den("ln2", k) = b * (2 * k)
      /\ Num("ln2", k) = Num("ln2", n) * (2 * k) + F
  BY <1>1, <1>2, Ln2Fit, Ln2Step
<1>4. p \in Nat /\ BigPow(2, k) = 2 * p /\ BigPow(2, k) = Powers(2)[k]
  BY <1>1, PowAssumption, PowIsPower
<1>5. Top("ln2", n) = 1 /\ Bottom("ln2", n) = k * (2 * p)
  BY <1>4 DEF Top, Bottom, Term
<1> HIDE DEF p, b
<1>6. b * (2 * k) = F * (k * (2 * p)) /\ 2 * k \in Nat \ {0} /\ F = 1 * F
  BY <1>1, <1>2, <1>4
<1>7. Summed("ln2", n, 2 * k, F)
  BY <1>2, <1>3, <1>5, <1>6 DEF Summed, b
<1> QED
  BY <1>7

LEMMA PiSummed ==
  ASSUME "pi/4" \in Specs, NEW n \in 0..(MaxTerms["pi/4"] - 1)
  PROVE  \E f, t : Summed("pi/4", n, f, t)
<1> DEFINE odd == 2 * n + 1
           m == 2 * MaxTerms["pi/4"] + 1
<1>1. /\ n \in Nat /\ odd \in Nat \ {0} /\ MaxTerms["pi/4"] \in Nat
      /\ odd \in 0..m
  BY SumFacts
<1>2. BigPow(2, odd) = Powers(2)[odd] /\ BigPow(3, odd) = Powers(3)[odd]
  BY <1>1, PowIsPower
<1>3. /\ Top("pi/4", n) = Sign(n) * (BigPow(2, odd) + BigPow(3, odd))
      /\ Bottom("pi/4", n) = odd * (BigPow(2, odd) * BigPow(3, odd))
  BY <1>2 DEF Top, Bottom, Term
<1>4. Sign(n) \in {1, -1}
  BY <1>1, SignType
<1>5. CASE n = 0
  <2>1. Steps("pi/4", 0, 6, 5) /\ PiFits(1, 2, 3, 1)
    BY <1>1, <1>5, PiFirst
  <2>2. odd = 1 /\ BigPow(2, 2 * 1 - 1) = 2 /\ BigPow(3, 2 * 1 - 1) = 3 /\ 2 * 1 - 1 = 1
    BY <1>5, <2>1 DEF PiFits
  <2>3. BigPow(2, odd) = 2 /\ BigPow(3, odd) = 3
    BY <2>2
  <2>4. Top("pi/4", 0) = Sign(0) * 5 /\ Bottom("pi/4", 0) = 6
    BY <1>3, <1>5, <2>2, <2>3
  <2>5. Den("pi/4", 0) = 1 /\ 0 + 1 = 1
    BY SumFacts
  <2>6. Summed("pi/4", 0, 6, 1)
    BY <1>4, <1>5, <2>1, <2>4, <2>5 DEF Steps, Summed
  <2> QED
    BY <1>5, <2>6
<1>6. CASE n # 0
  <2>1. n \in 1..MaxTerms["pi/4"] /\ n \in 1..(MaxTerms["pi/4"] - 1)
    BY <1>1, <1>6
  <2>2. PICK x, y, z : PiFits(n, x, y, z)
    BY <2>1, PiFit
  <2>3. /\ PiFits(n + 1, 4 * x, 9 * y, odd * z)
        /\ Steps("pi/4", n, 36 * odd, 9 * (y * z) + 4 * (x * z))
    BY <2>1, <2>2, PiStep
  <2>4. /\ x \in Nat /\ y \in Nat /\ z \in Nat
    BY <2>2 DEF PiFits
  <2>5. BigPow(2, odd) = 4 * x /\ BigPow(3, odd) = 9 * y
        /\ Den("pi/4", n + 1) = (4 * x) * (9 * y) * (odd * z)
    <3>1. 2 * (n + 1) - 1 = odd
      BY <1>1
    <3> QED
      BY <2>3, <3>1 DEF PiFits
  <2> HIDE DEF odd
  <2>6. (4 * x) * (9 * y) * (odd * z) = z * (odd * ((4 * x) * (9 * y)))
    BY <1>1, <2>4
  <2>7. Sign(n) * (9 * (y * z) + 4 * (x * z)) = (Sign(n) * (4 * x + 9 * y)) * z
    <3>1. CASE Sign(n) = 1
      <4>1. 1 * (9 * (y * z) + 4 * (x * z)) = (1 * (4 * x + 9 * y)) * z
        BY <2>4
      <4> QED
        BY <3>1, <4>1
    <3>2. CASE Sign(n) = -1
      <4>1. (-1) * (9 * (y * z) + 4 * (x * z)) = ((-1) * (4 * x + 9 * y)) * z
        BY <2>4
      <4> QED
        BY <3>2, <4>1
    <3> QED
      BY <1>4, <3>1, <3>2
  <2>8. Summed("pi/4", n, 36 * odd, z)
    BY <1>3, <2>3, <2>4, <2>5, <2>6, <2>7 DEF Steps, Summed
  <2> QED
    BY <2>8
<1> QED
  BY <1>5, <1>6

LEMMA CatalanSummed ==
  ASSUME "catalan" \in Specs, NEW n \in 0..(MaxTerms["catalan"] - 1)
  PROVE  \E f, t : Summed("catalan", n, f, t)
<1> DEFINE f == (2 * n + 1) * (2 * n + 1)
           b == Den("catalan", n)
<1>1. Steps("catalan", n, f, b)
  BY CatalanSteps
<1>2. Top("catalan", n) = Sign(n) /\ Bottom("catalan", n) = f
  BY DEF Top, Bottom, Term
<1> HIDE DEF f
<1>3. Summed("catalan", n, f, b)
  BY <1>1, <1>2 DEF Steps, Summed
<1> QED
  BY <1>3

LEMMA AlwaysSummed ==
  ASSUME NEW s \in Specs, NEW n \in 0..(MaxTerms[s] - 1)
  PROVE  \E f, t : Summed(s, n, f, t)
<1>1. s \in SpecNames
  BY SpecsAssumption
<1> QED
  BY <1>1, ESummed, Ln2Summed, OneOverESummed, PiSummed, CatalanSummed DEF SpecNames

(* A denominator that the terms' own divide, f times over: so do they      *)
(* divide the product, and the sum over it is f times as large.            *)
Divided(s, n, d) == \A k \in 0..(n - 1) : \E t \in Nat : d = t * Bottom(s, k)

LEMMA ExactQuotient ==
  ASSUME NEW t \in Nat, NEW b \in Nat \ {0}
  PROVE  (t * b) \div b = t /\ (t * b) % b = 0
<1> DEFINE a == t * b
<1>1. a \in Int /\ t * b < (t + 1) * b
  OBVIOUS
<1>2. a \div b = t
  <2>1. t * b <= a /\ a < (t + 1) * b
    BY <1>1
  <2> HIDE DEF a
  <2> QED
    BY <1>1, <2>1, DivUnique
<1>3. a = b * (a \div b) + (a % b)
  <2> HIDE DEF a
  <2> QED
    BY <1>1
<1>4. a % b \in Int
  <2> HIDE DEF a
  <2> QED
    BY <1>1
<1>5. b * t = t * b /\ b * t \in Int
  OBVIOUS
<1> QED
  BY <1>2, <1>3, <1>4, <1>5

LEMMA SumScales ==
  ASSUME NEW s \in Specs, NEW d \in Nat \ {0}, NEW f \in Nat \ {0},
         NEW m \in Nat, Divided(s, m, d)
  PROVE  /\ Divided(s, m, d * f)
         /\ SumOver(s, d * f)[m] = SumOver(s, d)[m] * f
<1> DEFINE e == d * f
           S == SumOver(s, d)
           U == SumOver(s, e)
<1>1. e \in Nat \ {0}
  BY MulType
<1> HIDE DEF e
<1>2. /\ S \in [Nat -> Int] /\ S[0] = 0
      /\ \A n \in Nat : S[n + 1] = S[n] + Top(s, n) * (d \div Bottom(s, n))
  BY SumOverStepwise
<1>3. /\ U \in [Nat -> Int] /\ U[0] = 0
      /\ \A n \in Nat : U[n + 1] = U[n] + Top(s, n) * (e \div Bottom(s, n))
  BY <1>1, SumOverStepwise
<1> HIDE DEF S, U
<1>4. ASSUME NEW k \in 0..(m - 1)
      PROVE  \E t \in Nat : /\ d = t * Bottom(s, k) /\ d \div Bottom(s, k) = t
                            /\ e = (t * f) * Bottom(s, k) /\ e \div Bottom(s, k) = t * f
                            /\ t * f \in Nat
  <2> DEFINE b == Bottom(s, k)
  <2>1. PICK t \in Nat : d = t * b
    BY DEF Divided
  <2>2. b \in Nat \ {0}
    BY TermType DEF Bottom
  <2> HIDE DEF b
  <2>3. e = (t * f) * b /\ t * f \in Nat
    BY <2>1, <2>2 DEF e
  <2>4. (t * b) \div b = t
    BY <2>2, ExactQuotient
  <2>5. ((t * f) * b) \div b = t * f
    <3> DEFINE u == t * f
    <3>1. u \in Nat
      BY <2>3
    <3> HIDE DEF u
    <3>2. (u * b) \div b = u
      BY <2>2, <3>1, ExactQuotient
    <3> QED
      BY <3>2 DEF u
  <2> QED
    BY <2>1, <2>3, <2>4, <2>5 DEF b
<1>5. Divided(s, m, e)
  BY <1>4 DEF Divided
<1> DEFINE T == {n \in Nat : U[n] = S[n] * f}
<1>6. 0 \in T
  BY <1>2, <1>3
<1>7. ASSUME NEW n \in Nat, n < m, n \in T PROVE n + 1 \in T
  <2>1. n \in 0..(m - 1)
    BY <1>7
  <2>2. PICK t \in Nat : /\ d \div Bottom(s, n) = t /\ e \div Bottom(s, n) = t * f
    BY <1>4, <2>1
  <2>3. S[n + 1] = S[n] + Top(s, n) * t /\ U[n + 1] = S[n] * f + Top(s, n) * (t * f)
    BY <1>2, <1>3, <1>7, <2>2
  <2>4. S[n] \in Int /\ Top(s, n) \in Int
    BY <1>2, TermType DEF Top
  <2>5. (S[n] + Top(s, n) * t) * f = S[n] * f + Top(s, n) * (t * f)
    BY <2>4
  <2> QED
    BY <2>3, <2>5
<1>8. \A n \in 0..m : n \in T
  <2> HIDE DEF T
  <2> QED
    BY <1>6, <1>7, BoundedInduction
<1> QED
  BY <1>5, <1>8 DEF e, S, U

(* The accumulators after n terms. *)
SumIs(s, n) == /\ Divided(s, n, Den(s, n))
               /\ Num(s, n) = SumOver(s, Den(s, n))[n]

LEMMA SumIsNext ==
  ASSUME NEW s \in Specs, NEW n \in 0..(MaxTerms[s] - 1), SumIs(s, n)
  PROVE  SumIs(s, n + 1)
<1> DEFINE d == Den(s, n)
           e == Den(s, n + 1)
           b == Bottom(s, n)
<1>1. /\ n \in Nat /\ n \in 0..MaxTerms[s] /\ n + 1 \in 0..MaxTerms[s]
      /\ d \in Nat \ {0} /\ e \in Nat \ {0} /\ b \in Nat \ {0}
  BY SumFacts, TermType DEF Bottom
<1>2. PICK f, t : Summed(s, n, f, t)
  BY AlwaysSummed
<1>3. /\ f \in Nat \ {0} /\ t \in Nat /\ e = d * f /\ e = t * b
      /\ Num(s, n + 1) = Num(s, n) * f + Top(s, n) * t
  BY <1>2 DEF Summed
<1>4. Divided(s, n, d) /\ Num(s, n) = SumOver(s, d)[n]
  BY DEF SumIs
<1> HIDE DEF d, e, b
<1>5. Divided(s, n, e) /\ SumOver(s, e)[n] = SumOver(s, d)[n] * f
  BY <1>1, <1>3, <1>4, SumScales
<1>6. e \div b = t
  BY <1>1, <1>3, ExactQuotient
<1>7. SumOver(s, e)[n + 1] = SumOver(s, e)[n] + Top(s, n) * t
  BY <1>1, <1>6, SumOverStepwise DEF b
<1>8. Num(s, n + 1) = SumOver(s, e)[n + 1]
  BY <1>3, <1>4, <1>5, <1>7
<1>9. Divided(s, n + 1, e)
  <2> SUFFICES ASSUME NEW k \in 0..((n + 1) - 1)
               PROVE  \E u \in Nat : e = u * Bottom(s, k)
    BY DEF Divided
  <2>1. k = n \/ k \in 0..(n - 1)
    BY <1>1
  <2> QED
    BY <1>3, <1>5, <2>1 DEF Divided, b
<1> QED
  BY <1>8, <1>9 DEF SumIs, e

LEMMA AlwaysSum ==
  ASSUME NEW s \in Specs
  PROVE  \A n \in 0..MaxTerms[s] : SumIs(s, n)
<1> DEFINE m == MaxTerms[s]
           T == {n \in Nat : SumIs(s, n)}
<1>1. m \in Nat
  BY SumFacts
<1>2. 0 \in T
  <2>1. Num(s, 0) = 0 /\ Den(s, 0) = 1
    BY SumFacts
  <2>2. SumOver(s, 1)[0] = 0
    <3>1. 1 \in Nat \ {0}
      OBVIOUS
    <3> QED
      BY <3>1, SumOverStepwise
  <2>3. Divided(s, 0, 1)
    BY DEF Divided
  <2> QED
    BY <2>1, <2>2, <2>3 DEF SumIs
<1>3. ASSUME NEW n \in Nat, n < m, n \in T PROVE n + 1 \in T
  <2>1. n \in 0..(m - 1)
    BY <1>1, <1>3
  <2> QED
    BY <1>3, <2>1, SumIsNext
<1>4. \A n \in 0..m : n \in T
  <2> HIDE DEF T, m
  <2> QED
    BY <1>1, <1>2, <1>3, BoundedInduction
<1> QED
  BY <1>4

LEMMA StateSums ==
  ASSUME TypeOK, SeriesInv
  PROVE  SumsTheSeries
<1>1. SumIs(spec, index) /\ spec \in Specs /\ index \in Nat
  BY AlwaysSum, BoundsAssumption DEF TypeOK
<1>2. num = SumOver(spec, den)[index]
  BY <1>1 DEF SumIs, SeriesInv
<1>3. ASSUME NEW k \in 0..(index - 1) PROVE den % Term(spec, k).bottom = 0
  <2> DEFINE b == Bottom(spec, k)
  <2>1. PICK t \in Nat : den = t * b
    BY <1>1 DEF SumIs, Divided, SeriesInv
  <2>2. b \in Nat \ {0}
    BY <1>1, TermType DEF Bottom
  <2> HIDE DEF b
  <2>3. (t * b) % b = 0
    BY <2>2, ExactQuotient
  <2> QED
    BY <2>1, <2>3 DEF b, Bottom
<1> QED
  BY <1>2, <1>3 DEF SumsTheSeries

(* series.hpp:36, "exact rational num/den": at every depth, and after any  *)
(* chain of saves and restarts, the accumulators are the sum of the first  *)
(* index terms of the series as its definition has them, and no division   *)
(* on the common denominator has rounded any of them.                      *)
THEOREM AccumulatorsSum == CheckpointSpec => []SumsTheSeries
<1>1. CheckpointInv => SumsTheSeries
  BY StateSums DEF CheckpointInv, TypeInv
<1> QED
  BY <1>1, CheckpointInvariant, PTL
=============================================================================
