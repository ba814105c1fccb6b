------------------------------- MODULE PAdicVM -------------------------------
(***************************************************************************)
(* The p-adic digit machine (padic.hpp) and the p-adic metric of two of    *)
(* them in lockstep (metric.hpp).  A machine holds a numerator a over a    *)
(* denominator b; a step emits the residue of a/b, takes it out of a and   *)
(* divides what is left by the base.  first, sum and scale are auxiliary:  *)
(* the numerator a machine was built with, the value of the digits gone by *)
(* and the product of the bases they were read in.                         *)
(***************************************************************************)
EXTENDS Integers

CONSTANTS Fractions,  \* the numbers: [a, b] with b # 0
          Primes,     \* the bases of the number space
          Checked,    \* are only bases given in which the numbers exist?
          SafetyCap,  \* the steps padic_period looks at
          MaxLook,    \* bound: digits the metric looks at
          MaxScale    \* bound: where digits stop being asked for

PAdicAssumption ==
    /\ Fractions \subseteq [a : Int, b : Int \ {0}]
    /\ Primes \subseteq Nat \ {0, 1}
    /\ Checked \in BOOLEAN
    /\ SafetyCap \in Nat /\ MaxLook \in Nat /\ MaxScale \in Nat
    /\ \A p \in Primes : p^0 = 1 /\ \A n \in 0..MaxLook : p^(n + 1) = p * p^n

VARIABLES machine,  \* the register file of each number: a and b
          base,     \* the base of the shared NumberSpace
          answer,   \* the place the metric found, and how far it looked
          first, sum, scale
vars == <<machine, base, answer, first, sum, scale>>

Numbers == {"x", "y"}
Pending == -1
Unasked == [place |-> Pending, look |-> 0]

-----------------------------------------------------------------------------
(* Integer helpers of padic.hpp. *)

\* C++ division of n by a positive p: toward zero.
Quotient(n, p) == IF n >= 0 THEN n \div p ELSE -((-n) \div p)

\* The loop of mod_inverse: Bezout coefficients and remainders.
Loops == [t : Int, newt : Int, r : Nat, newr : Nat]
Euclid[s \in Loops] ==
    IF s.newr = 0 THEN s
    ELSE Euclid[[t |-> s.newt, newt |-> s.t - (s.r \div s.newr) * s.newt,
                 r |-> s.newr, newr |-> s.r % s.newr]]
Looped(b, p) == Euclid[[t |-> 0, newt |-> 1, r |-> p, newr |-> b % p]]

\* mutant: the inverse is not brought back into the residues
ModInverseRaw(b, p) == IF Looped(b, p).r > 1 THEN 0 ELSE -Looped(b, p).t

\* mod_inverse: 0 stands for "not invertible"
ModInverse(b, p) == IF Looped(b, p).r > 1 THEN 0 ELSE Looped(b, p).t % p

Coprime(b, p) == Looped(b, p).r = 1

\* p_valuation, of a number other than 0
Valuation[s \in (Int \ {0}) \X (Nat \ {0, 1})] ==
    IF s[1] % s[2] # 0 THEN 0 ELSE 1 + Valuation[<<s[1] \div s[2], s[2]>>]

-----------------------------------------------------------------------------
(* PAdic::step: a digit and the machine after it. *)

Digit(p, s) == ((s.a % p) * ModInverse(s.b, p)) % p

After(p, s) == [s EXCEPT !.a = Quotient(@ - Digit(p, s) * s.b, p)]

Stepped(p, s, n) ==
    LET at[k \in Nat] == IF k = 0 THEN s ELSE After(p, at[k - 1]) IN at[n]

Seen(p, s, k) == {i \in 0..(k - 1) : Stepped(p, s, i) = Stepped(p, s, k)}
Least(K) == CHOOSE k \in K : \A j \in K : k <= j

\* mutant: the cycle is counted from the start, its lead-in with it
PeriodFromStart(p, s) ==
    LET Stops == {k \in 0..SafetyCap : Seen(p, s, k) # {}} IN
    IF Stops = {} THEN <<SafetyCap + 1, 0>>
    ELSE LET k == Least(Stops)
             i == Least(Seen(p, s, k))
         IN <<i, k>>

\* padic_period: the first numerator seen before, or the safety cap.
Period(p, s) ==
    LET Stops == {k \in 0..SafetyCap : Seen(p, s, k) # {}} IN
    IF Stops = {} THEN <<SafetyCap + 1, 0>>
    ELSE LET k == Least(Stops)
             i == Least(Seen(p, s, k))
         IN <<i, k - i>>

\* mutant: the number of digits looked at, not the place of the difference
DifferenceLate(p, x, y, n) ==
    LET D == {k \in 0..(n - 1) :
                 Digit(p, Stepped(p, x, k)) # Digit(p, Stepped(p, y, k))}
    IN IF D = {} THEN Pending ELSE Least(D) + 1

\* padic_valuation_of_difference: the place of the first digit that differs.
DifferencePlace(p, x, y, n) ==
    LET D == {k \in 0..(n - 1) :
                 Digit(p, Stepped(p, x, k)) # Digit(p, Stepped(p, y, k))}
    IN IF D = {} THEN Pending ELSE Least(D)

-----------------------------------------------------------------------------
Init ==
    /\ base \in Primes
    /\ machine \in [Numbers -> {f \in Fractions : Coprime(f.b, base)}]
    /\ answer = Unasked
    /\ first = [n \in Numbers |-> machine[n].a]
    /\ sum = [n \in Numbers |-> 0]
    /\ scale = [n \in Numbers |-> 1]

Step(n) ==
    /\ scale[n] * base <= MaxScale
    /\ machine' = [machine EXCEPT ![n] = After(base, @)]
    /\ sum' = [sum EXCEPT ![n] = @ + Digit(base, machine[n]) * scale[n]]
    /\ scale' = [scale EXCEPT ![n] = @ * base]
    /\ answer' = Unasked
    /\ UNCHANGED <<base, first>>

\* NumberSpace::in_base: the machines stay as they are, and nothing looks
\* whether their denominators have an inverse in the new base, as those that
\* make_padic_state is given must.
Invertible(p) == \A n \in Numbers : Coprime(machine[n].b, p)
InBase(p) ==
    /\ Checked => Invertible(p)
    /\ base' = p
    /\ answer' = Unasked
    /\ UNCHANGED <<machine, first, sum, scale>>

Measure(k) ==
    /\ answer' = [place |-> DifferencePlace(base, machine["x"], machine["y"], k),
                  look |-> k]
    /\ UNCHANGED <<machine, base, first, sum, scale>>

Next ==
    \/ \E n \in Numbers : Step(n)
    \/ \E p \in Primes : InBase(p)
    \/ \E k \in 1..MaxLook : Measure(k)

Spec == Init /\ [][Next]_vars

-----------------------------------------------------------------------------
(* What it promises. *)

\* The digits gone by and the numerator still held make up the number exactly:
\* each division by the base is exact, and a change of base "changes the
\* projection, not the number" (number_space.hpp:47-48).
NumeratorExact ==
    \A n \in Numbers :
        first[n] = sum[n] * machine[n].b + machine[n].a * scale[n]

\* The first differing digit index IS the valuation of the difference
\* (metric.hpp:5-6), and pending numbers are as close as the digits looked at.
Cross == machine["x"].a * machine["y"].b - machine["y"].a * machine["x"].b
MetricTrue ==
    IF answer.place = Pending THEN Cross % (base^answer.look) = 0
    ELSE Cross # 0 /\ answer.place = Valuation[<<Cross, base>>]

\* A machine has finitely many states ahead: padic_period finds its cycle, and
\* the digits repeat with it.
PeriodFound ==
    \A n \in Numbers :
        LET found == Period(base, machine[n])
        IN /\ found[2] > 0
           /\ Stepped(base, machine[n], found[1] + found[2])
                = Stepped(base, machine[n], found[1])
=============================================================================
