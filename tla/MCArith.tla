------------------------------ MODULE MCArith ------------------------------
\* Instances of Arith: every fraction up to a given denominator.
EXTENDS Arith

Fractions(n) ==
    {v \in [num : 0..(n - 1), den : 1..n, base : {Base}] : v.num < v.den}
\* in lowest terms
MCUpTo4 == {v \in Fractions(4) : Gcd[<<v.num, v.den>>] = 1}
\* 1/2 + 1/16: in base 2, two zeros between its two ones
MCGap == {[num |-> 9, den |-> 16, base |-> Base], [num |-> 0, den |-> 1, base |-> Base]}
\* 1/3 in the base of the result, 1/3 in another
MCMixed == {[num |-> 1, den |-> 3, base |-> b] : b \in {Base, Base + 1}}
=============================================================================
