----------------------------- MODULE RationalVM -----------------------------
(***************************************************************************)
(* The rational digit machine (rational.hpp), its skip-ahead (skip.hpp),   *)
(* its change of base (codec.hpp) and the comparison of two machines that  *)
(* share a number space (compare.hpp).                                     *)
(*                                                                         *)
(* A machine holds a remainder r of its denominator q.  A step is one      *)
(* digit of the long division; a skip finds the cycle the remainders fall  *)
(* into and lands at a phase of it; a base change leaves the machine as it *)
(* is.  first, prefix and scale are auxiliary: the remainder a machine was *)
(* built with, and the digits gone by since, as a numerator over the       *)
(* product of the bases they were read in.                                 *)
(***************************************************************************)
EXTENDS Integers

CONSTANTS Fractions,    \* the numbers: [p, q] with q > 0 or q = 0
          Bases,        \* the bases of the number space
          Word,         \* 2^64, the width of r * base
          SafetyBound,  \* the remainders rational_period looks at
          MaxSkip,      \* bound: digits skipped at once
          MaxLook,      \* bound: digits a comparison looks at
          MaxScale      \* bound: where digits stop being asked for

ASSUME RationalAssumption ==
    /\ Fractions \subseteq [p : Nat, q : Nat]
    /\ Bases \subseteq Nat \ {0, 1}
    /\ Word \in Nat \ {0} /\ SafetyBound \in Nat
    /\ MaxSkip \in Nat /\ MaxLook \in Nat /\ MaxScale \in Nat

\* What a power is, as far as digits are skipped or compared.
ASSUME PowAssumption ==
    \A b \in Bases : /\ b^0 = 1
                    /\ \A n \in 0..(MaxSkip + MaxLook) : b^(n + 1) = b * b^n

VARIABLES machine,  \* the register file of each number: r and q
          base,     \* the base of the shared NumberSpace
          verdict,  \* what the last comparison said, and how far it looked
          first, prefix, scale
vars == <<machine, base, verdict, first, prefix, scale>>

Numbers == {"x", "y"}
None == [said |-> "none", look |-> 0]

MakeState(f) == [r |-> IF f.q = 0 THEN 0 ELSE f.p % f.q, q |-> f.q]

Init ==
    \E f \in [Numbers -> Fractions] :
        /\ machine = [n \in Numbers |-> MakeState(f[n])]
        /\ base \in Bases
        /\ verdict = None
        /\ first = [n \in Numbers |-> MakeState(f[n]).r]
        /\ prefix = [n \in Numbers |-> 0]
        /\ scale = [n \in Numbers |-> 1]

-----------------------------------------------------------------------------
(* Rational::step: a digit and the machine after it. *)

Scaled(b, s) == (s.r * b) % Word
Digit(b, s) == IF s.q = 0 THEN 0 ELSE Scaled(b, s) \div s.q

After(b, s) == IF s.q = 0 THEN s ELSE [s EXCEPT !.r = Scaled(b, s) % s.q]

\* skip_naive, drop
Stepped(b, s, n) ==
    LET at[k \in Nat] == IF k = 0 THEN s ELSE After(b, at[k - 1]) IN at[n]

-----------------------------------------------------------------------------
(* rational_period and skip_rational. *)

\* The index at which the walk stops: a zero remainder, one seen before, or
\* the safety bound.
SeenBefore(b, s, k) ==
    {i \in 0..(k - 1) : Stepped(b, s, i).r = Stepped(b, s, k).r}
Stops(b, s) ==
    {k \in 0..SafetyBound : Stepped(b, s, k).r = 0 \/ SeenBefore(b, s, k) # {}}
Least(K) == CHOOSE k \in K : \A j \in K : k <= j

\* <<preperiod, period>>; period 0 stands for "terminates"
Period(b, s) ==
    IF Stops(b, s) = {} THEN <<SafetyBound + 1, 0>>
    ELSE LET k == Least(Stops(b, s))
         IN IF Stepped(b, s, k).r = 0 THEN <<k, 0>>
            ELSE LET i == Least(SeenBefore(b, s, k)) IN <<i, k - i>>

\* mutant: the phase is taken from the start of the number, not of the cycle
SkippedPhase(b, s, n) ==
    LET pre == Period(b, s)[1]
        per == Period(b, s)[2]
    IN CASE n <= pre -> Stepped(b, s, n)
         [] n > pre /\ per = 0 -> Stepped(b, s, pre)
         [] n > pre /\ per > 0 -> Stepped(b, Stepped(b, s, pre), n % per)

\* skip_rational: past the preperiod only the phase in the cycle counts.
Skipped(b, s, n) ==
    LET pre == Period(b, s)[1]
        per == Period(b, s)[2]
    IN CASE n <= pre -> Stepped(b, s, n)
         [] n > pre /\ per = 0 -> Stepped(b, s, pre)
         [] n > pre /\ per > 0 -> Stepped(b, Stepped(b, s, pre), (n - pre) % per)

-----------------------------------------------------------------------------
(* definitely_less_than and compare: the first digit that differs decides. *)

Differ(b, x, y, k) == Digit(b, Stepped(b, x, k)) # Digit(b, Stepped(b, y, k))
Differences(b, x, y, n) == {k \in 0..(n - 1) : Differ(b, x, y, k)}

\* mutant: the last digit that differs decides
ComparedLast(b, x, y, n) ==
    LET D == Differences(b, x, y, n) IN
    IF D = {} THEN "indistinguishable"
    ELSE LET k == CHOOSE k \in D : \A j \in D : j <= k
         IN IF Digit(b, Stepped(b, x, k)) < Digit(b, Stepped(b, y, k))
            THEN "less" ELSE "greater"

Compared(b, x, y, n) ==
    LET D == Differences(b, x, y, n) IN
    IF D = {} THEN "indistinguishable"
    ELSE LET k == Least(D)
         IN IF Digit(b, Stepped(b, x, k)) < Digit(b, Stepped(b, y, k))
            THEN "less" ELSE "greater"

-----------------------------------------------------------------------------
(* What a caller does with the two machines. *)

Step(n) ==
    /\ scale[n] * base <= MaxScale
    /\ machine' = [machine EXCEPT ![n] = After(base, @)]
    /\ prefix' = [prefix EXCEPT ![n] = @ * base + Digit(base, machine[n])]
    /\ scale' = [scale EXCEPT ![n] = @ * base]
    /\ verdict' = None
    /\ UNCHANGED <<base, first>>

\* The digits gone by are those of the exact number: nobody reads them.
Skip(n, k) ==
    /\ scale[n] * base^k <= MaxScale
    /\ machine' = [machine EXCEPT ![n] = Skipped(base, @, k)]
    /\ scale' = [scale EXCEPT ![n] = @ * base^k]
    /\ prefix' = [prefix EXCEPT ![n] =
                     IF machine[n].q = 0 THEN 0
                     ELSE (first[n] * scale'[n]) \div machine[n].q]
    /\ verdict' = None
    /\ UNCHANGED <<base, first>>

\* rational_in_base: the machines stay as they are.
InBase(b) ==
    /\ base' = b
    /\ verdict' = None
    /\ UNCHANGED <<machine, first, prefix, scale>>

Compare(n) ==
    /\ verdict' = [said |-> Compared(base, machine["x"], machine["y"], n),
                   look |-> n]
    /\ UNCHANGED <<machine, base, first, prefix, scale>>

Next ==
    \/ \E n \in Numbers : Step(n)
    \/ \E n \in Numbers, k \in 1..MaxSkip : Skip(n, k)
    \/ \E b \in Bases : InBase(b)
    \/ \E n \in 1..MaxLook : Compare(n)

Spec == Init /\ [][Next]_vars

-----------------------------------------------------------------------------
(* What it promises. *)

TypeOK ==
    /\ machine \in [Numbers -> [r : Nat, q : Nat]]
    /\ \A n \in Numbers : machine[n].q > 0 => machine[n].r < machine[n].q
    /\ base \in Bases
    /\ prefix \in [Numbers -> Nat] /\ scale \in [Numbers -> Nat \ {0}]

\* A machine never drifts: the digits gone by and the remainder still held make
\* up the number exactly, whatever steps, skips and base changes came between.
\* "must be EXACT" (tests/all_tests.cpp:301): a skip lands where stepping would.
RemainderExact ==
    \A n \in Numbers :
        first[n] * scale[n] = prefix[n] * machine[n].q + machine[n].r

\* A verdict is true of what is left of the two numbers: an order is their
\* order, and indistinguishable numbers are closer than the last digit looked at.
Left(n) == first[n] * scale[n] - prefix[n] * machine[n].q
VerdictTrue ==
    LET qx == machine["x"].q
        qy == machine["y"].q
        gap == Left("x") * qy - Left("y") * qx
    IN qx * qy # 0 =>
       CASE verdict.said = "none" -> TRUE
         [] verdict.said = "less" -> gap < 0
         [] verdict.said = "greater" -> gap > 0
         [] verdict.said = "indistinguishable" ->
                /\ gap * base^verdict.look < qx * qy
                /\ -gap * base^verdict.look < qx * qy
=============================================================================
