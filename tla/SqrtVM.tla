------------------------------- MODULE SqrtVM -------------------------------
(***************************************************************************)
(* The square-root digit machine (algebraic.hpp) over the fixed-width      *)
(* registers of bounded_int.hpp: the root prefix P in one word, the        *)
(* remainder R in two, and the arithmetic of both wraps around.  scale is  *)
(* auxiliary: the product of the bases the digits were read in, so that P  *)
(* should be the integer part of scale * sqrt(D).                          *)
(***************************************************************************)
EXTENDS Integers

CONSTANTS Radicands,  \* the numbers D under the root
          Bases,      \* the bases of the number space
          Half,       \* 2^32, half a word
          MaxScale    \* bound: where digits stop being asked for

SqrtAssumption ==
    /\ Radicands \subseteq Nat /\ Bases \subseteq Nat \ {0, 1}
    /\ Half \in Nat \ {0} /\ MaxScale \in Nat

VARIABLES D, P, R, base, scale
vars == <<D, P, R, base, scale>>

\* BoundedInt: two words, lo and hi.  operator- wraps around; mul_small takes the
\* low word by halves, and is the product while the factor fits a half.
Single == Half * Half
Double == Single * Single

MulSmall(n, f) ==
    LET lo == n % Single
        p0 == ((lo % Half) * f) % Single
        p1 == ((lo \div Half) * f) % Single
        low == (p0 + p1 * Half) % Single
        carry == IF low < p0 THEN 1 ELSE 0
    IN ((p1 \div Half + carry + (n \div Single) * f) % Single) * Single + low
Minus(m, n) == (m - n) % Double

\* make_sqrt_state
Root(d) == CHOOSE n \in 0..d : n * n <= d /\ d < (n + 1) * (n + 1)

Init ==
    /\ D \in Radicands
    /\ P = Root(D)
    /\ R = D - Root(D) * Root(D)
    /\ base \in Bases
    /\ scale = 1

-----------------------------------------------------------------------------
\* The digit taken out of a state s = [P, R] in base b is the last x the loop of
\* step passes: the remainder must cover (2 P b + x) x, with 2 P b in a word.
Taken(b, s, x) == MulSmall((((2 * s.P * b) % Single) + x) % Single, x)

\* mutant: one digit of the radicand is brought down, not two
BroughtDownOne(b, s) == MulSmall(s.R, b)

BroughtDown(b, s) == MulSmall(s.R, b * b)

Fits(b, s, x) == Taken(b, s, x) <= BroughtDown(b, s)
Digit(b, s) == CHOOSE x \in 0..(b - 1) : /\ x + 1 = b \/ ~Fits(b, s, x + 1)
                                         /\ \A y \in 1..x : Fits(b, s, y)

\* Sqrt::step
After(b, s) == LET x == Digit(b, s)
               IN [P |-> (s.P * b + x) % Single,
                   R |-> Minus(BroughtDown(b, s), Taken(b, s, x))]

Stepped(b, s, n) ==
    LET at[k \in Nat] == IF k = 0 THEN s ELSE After(b, at[k - 1]) IN at[n]

Live == [P |-> P, R |-> R]

Step ==
    /\ scale * base <= MaxScale
    /\ LET next == After(base, Live) IN P' = next.P /\ R' = next.R
    /\ scale' = scale * base
    /\ UNCHANGED <<D, base>>

\* NumberSpace::in_base: the registers stay as they are.
InBase(b) == base' = b /\ UNCHANGED <<D, P, R, scale>>

Next == Step \/ \E b \in Bases : InBase(b)

Spec == Init /\ [][Next]_vars

-----------------------------------------------------------------------------
(* What it promises. *)

\* The prefix is the integer part of the scaled root: every digit committed is
\* a digit of sqrt(D), also across a change of base.  "the digit stream is
\* exact to arbitrary length" (docs/algebraic_hpp.md:81-83).
RootExact ==
    LET target == D * scale * scale
    IN P * P <= target /\ target < (P + 1) * (P + 1)

\* "maintains R = (target * b^{2k}) - P^2 as an exact integer invariant"
\* (docs/algebraic_hpp.md:80-81).
RemainderExact == R = D * scale * scale - P * P
=============================================================================
