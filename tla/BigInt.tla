------------------------------- MODULE BigInt -------------------------------
(***************************************************************************)
(* The integers under every series and arithmetic stream (big_int.hpp):    *)
(* a sign and a little-endian sequence of limbs, with the carry, borrow    *)
(* and shift loops of the source, and a register that a program adds to,   *)
(* multiplies and divides.  exact is auxiliary: the integer the register   *)
(* should hold.                                                            *)
(*                                                                         *)
(* A limb is 2 * HalfBits wide, 32 in the code; a sum or product of limbs  *)
(* is computed in a word of twice that, which it never leaves.             *)
(***************************************************************************)
EXTENDS Decimals, Sequences

CONSTANTS HalfBits,  \* half the bits of a limb: 16
          Operands,  \* the integers the register is combined with
          Exponents, \* the powers it is raised to
          MaxValue   \* bound: how large the register may grow

ASSUME BigIntAssumption ==
    /\ HalfBits \in Nat \ {0} /\ MaxValue \in Nat
    /\ Operands \subseteq Int /\ Exponents \subseteq Nat

VARIABLES reg, rem, op, arg, exact
vars == <<reg, rem, op, arg, exact>>

-----------------------------------------------------------------------------
(* Positional notation. *)

\* The powers of b, and the integer whose digits in base b are d, by how many
\* of them are counted.
Powers(b) == Loop(1, [i \in Nat |-> [w \in Int |-> b * w]])
Positional(b, d) == Loop(0, [i \in Nat |-> [v \in Int |-> v + d[i] * Powers(b)[i]]])

ASSUME PowAssumption ==
    /\ \A i \in 0..(2 * HalfBits) : 2^i = Powers(2)[i]
    /\ \A n \in Exponents \ {0}, x \in (-MaxValue)..MaxValue : x^n = Powers(x)[n]

Bits == 2 * HalfBits
Limb == 2^Bits
Half == 2^HalfBits

-----------------------------------------------------------------------------
(* Magnitudes: limbs from the least significant, none of them leading zeros. *)

Magnitudes == {a \in Seq(0..(Limb - 1)) : Len(a) > 0 => a[Len(a)] # 0}

At(a, i) == IF i \in 0..(Len(a) - 1) THEN a[i + 1] ELSE 0
Longer(a, b) == IF Len(a) < Len(b) THEN Len(b) ELSE Len(a)

\* while (!r.empty() && r.back() == 0) r.pop_back()
Strip(a) ==
    LET n == CHOOSE n \in 0..Len(a) :
                 /\ \A i \in (n + 1)..Len(a) : a[i] = 0
                 /\ n > 0 => a[n] # 0
    IN SubSeq(a, 1, n)

\* cmp_mag: shorter is smaller; the top limb that differs decides.
LessMag(a, b) ==
    \/ Len(a) < Len(b)
    \/ /\ Len(a) = Len(b)
       /\ \E i \in 1..Len(a) : a[i] < b[i] /\ \A j \in (i + 1)..Len(a) : a[j] = b[j]

Carry(a, b) ==
    Loop(0, [i \in Nat |-> [c \in Nat |-> (At(a, i) + At(b, i) + c) \div Limb]])
Sums(a, b) ==
    [i \in 1..Longer(a, b) |-> (At(a, i - 1) + At(b, i - 1) + Carry(a, b)[i - 1]) % Limb]

\* mutant: the carry out of the top limb is dropped
AddMagNoCarry(a, b) == Sums(a, b)

\* add_mag
AddMag(a, b) ==
    LET c == Carry(a, b)[Longer(a, b)]
    IN Sums(a, b) \o (IF c # 0 THEN <<c>> ELSE <<>>)

Borrow(a, b) ==
    Loop(0, [i \in Nat |-> [c \in {0, 1} |->
                IF At(a, i) - c - At(b, i) < 0 THEN 1 ELSE 0]])
Differences(a, b) ==
    [i \in 1..Len(a) |-> (At(a, i - 1) - Borrow(a, b)[i - 1] - At(b, i - 1)) % Limb]

\* mutant: the limbs borrowed down to zero stay
SubMagUnstripped(a, b) == Differences(a, b)

\* sub_mag, for a no less than b
SubMag(a, b) == Strip(Differences(a, b))

\* mul_mag: row i adds a[i] * b, carrying along the row, to what is there.
RowCarry(a, b, acc, i) ==
    Loop(0, [j \in Nat |-> [c \in Nat |->
                (At(acc, i + j) + At(a, i) * At(b, j) + c) \div Limb]])
Row(a, b, acc, i) ==
    LET carry == RowCarry(a, b, acc, i)
        limb(j) ==
            CASE j < Len(b) -> (At(acc, i + j) + At(a, i) * At(b, j) + carry[j]) % Limb
              [] j = Len(b) -> At(acc, i + j) + carry[j]
              [] j > Len(b) -> At(acc, i + j)
    IN [k \in 1..i |-> At(acc, k - 1)]
           \o [k \in 1..(Len(acc) - i) |-> limb(k - 1)]
Rows(a, b) ==
    Loop([k \in 1..(Len(a) + Len(b)) |-> 0],
         [i \in Nat |-> [acc \in Seq(Nat) |-> Row(a, b, acc, i)]])
MulMag(a, b) ==
    Strip([k \in 1..(Len(a) + Len(b)) |-> Rows(a, b)[Len(a)][k] % Limb])

\* mutant: the remainder of the limb above is not taken in
ShortDivisionUncarried(a, d) ==
    LET n == Len(a)
        left == [i \in Nat |-> IF i = 0 THEN 0 ELSE At(a, n - i) % d]
    IN [quotient |-> Strip([i \in 1..n |-> (left[n - i] * Limb + a[i]) \div d]),
        rem |-> IF left[n] # 0 THEN <<left[n]>> ELSE <<>>]

\* divmod_mag by one limb: short division from the top.
Remainders(a, d) ==
    Loop(0, [i \in Nat |-> [r \in Nat |-> (r * Limb + At(a, Len(a) - 1 - i)) % d]])
ShortDivision(a, d) ==
    LET n == Len(a)
        left == Remainders(a, d)
    IN [quotient |-> Strip([i \in 1..n |-> (left[n - i] * Limb + a[i]) \div d]),
        rem |-> IF left[n] # 0 THEN <<left[n]>> ELSE <<>>]

GetBit(a, i) == (At(a, i \div Bits) \div 2^(i % Bits)) % 2
SetBit0(a, bit) ==
    IF bit = 0 THEN a ELSE IF a = <<>> THEN <<1>> ELSE [a EXCEPT ![1] = @ + 1]

\* shl1
Shl1(a) ==
    LET out == (2 * At(a, Len(a) - 1)) \div Limb
    IN [i \in 1..Len(a) |-> ((2 * a[i]) % Limb) + (2 * At(a, i - 2)) \div Limb]
       \o (IF out # 0 THEN <<out>> ELSE <<>>)

\* divmod_mag by several limbs: restoring division, a bit at a time.
Shifted(a, r, i) == SetBit0(Shl1(r), GetBit(a, i))
Restored(a, b) ==
    Loop(<<>>, [k \in Nat |-> [r \in Magnitudes |->
                   LET s == Shifted(a, r, Len(a) * Bits - 1 - k)
                   IN IF LessMag(s, b) THEN s ELSE SubMag(s, b)]])
LongDivision(a, b) ==
    LET n == Len(a) * Bits
        left == Restored(a, b)
        bit(i) == IF LessMag(Shifted(a, left[n - 1 - i], i), b) THEN 0 ELSE 1
        limb(i) == Positional(2, [j \in Nat |-> bit(i * Bits + j)])[Bits]
    IN [quotient |-> Strip([i \in 1..Len(a) |-> limb(i - 1)]), rem |-> left[n]]

DivModMag(a, b) ==
    CASE LessMag(a, b) -> [quotient |-> <<>>, rem |-> a]
      [] ~LessMag(a, b) /\ Len(b) = 1 -> ShortDivision(a, b[1])
      [] ~LessMag(a, b) /\ Len(b) > 1 -> LongDivision(a, b)

-----------------------------------------------------------------------------
(* Signed integers. *)

\* A zero has no sign.
BigInts ==
    {x \in [mag : Magnitudes, negative : BOOLEAN] : x.negative => x.mag # <<>>}
Signed(m, neg) == [mag |-> m, negative |-> neg /\ m # <<>>]
Zero == Signed(<<>>, FALSE)

\* assign_i64
Limbs[u \in Nat] == IF u = 0 THEN <<>> ELSE <<u % Limb>> \o Limbs[u \div Limb]
Of(n) == Signed(Limbs[IF n < 0 THEN -n ELSE n], n < 0)

\* the integer a register stands for
ValueOf(x) ==
    LET m == Positional(Limb, [i \in Nat |-> At(x.mag, i)])[Len(x.mag)]
    IN IF x.negative THEN -m ELSE m

Negate(x) == Signed(x.mag, ~x.negative)

\* operator+: like signs add, unlike signs take the smaller from the larger.
Plus(x, y) ==
    CASE x.negative = y.negative -> Signed(AddMag(x.mag, y.mag), x.negative)
      [] x.negative # y.negative /\ x.mag = y.mag -> Zero
      [] x.negative # y.negative /\ LessMag(y.mag, x.mag) ->
             Signed(SubMag(x.mag, y.mag), x.negative)
      [] x.negative # y.negative /\ LessMag(x.mag, y.mag) ->
             Signed(SubMag(y.mag, x.mag), y.negative)

Times(x, y) ==
    IF x.mag = <<>> \/ y.mag = <<>> THEN Zero
    ELSE Signed(MulMag(x.mag, y.mag), x.negative # y.negative)

\* divmod: toward zero, the remainder with the sign of the dividend.
DivMod(x, y) ==
    LET d == DivModMag(x.mag, y.mag)
    IN [quotient |-> Signed(d.quotient, x.negative # y.negative),
        rem |-> Signed(d.rem, x.negative)]

\* mutant: a quotient that is exact is floored too
FloorDivAlways(x, y) ==
    LET d == DivMod(x, y) IN
    IF x.negative # y.negative
    THEN [quotient |-> Plus(d.quotient, Of(-1)), rem |-> Plus(d.rem, y)]
    ELSE d

\* floordiv: toward minus infinity
FloorDiv(x, y) ==
    LET d == DivMod(x, y) IN
    IF d.rem # Zero /\ x.negative # y.negative
    THEN [quotient |-> Plus(d.quotient, Of(-1)), rem |-> Plus(d.rem, y)]
    ELSE d

\* big_pow: square and multiply until no bit of the exponent is left.
Power(x, n) ==
    LET turn == [s \in [exp : Nat, b : BigInts, result : BigInts] |->
                    IF s.exp = 0 THEN s
                    ELSE [exp |-> s.exp \div 2, b |-> Times(s.b, s.b),
                          result |-> IF s.exp % 2 = 1 THEN Times(s.result, s.b)
                                     ELSE s.result]]
    IN Loop([exp |-> n, b |-> x, result |-> Of(1)], [i \in Nat |-> turn])[n].result

\* big_gcd
Euclid[p \in Magnitudes \X Magnitudes] ==
    IF p[2] = <<>> THEN p[1] ELSE Euclid[<<p[2], DivModMag(p[1], p[2]).rem>>]
Gcd(x, y) == Signed(Euclid[<<x.mag, y.mag>>], FALSE)

\* mod_small: the limbs from the top, each taken in as two halves, after a
\* shift of the remainder that stands before them.
ModSmall(x, d) ==
    LET Shift(r, n) == (r * Half + n) % d
        left[i \in Nat] ==
            IF i = 0 THEN 0
            ELSE LET limb == x.mag[Len(x.mag) - i + 1]
                 IN Shift(Shift(Shift(left[i - 1], 0), limb \div Half), limb % Half)
    IN left[Len(x.mag)]

-----------------------------------------------------------------------------
(* The integer as text, and back. *)

Ten == Of(10)

\* to_string: the remainders by ten, from the last figure.
InFigures[m \in Magnitudes] ==
    IF m = <<>> THEN <<>>
    ELSE LET d == DivModMag(m, Ten.mag)
         IN InFigures[d.quotient] \o <<Figures[ValueOf(Signed(d.rem, FALSE)) + 1]>>
InDecimal(x) ==
    IF x.mag = <<>> THEN <<"0">>
    ELSE (IF x.negative THEN <<"-">> ELSE <<>>) \o InFigures[x.mag]

\* from_string: a sign, then figures until something else stands there.
Scanned(t) ==
    Loop(Zero, [i \in Nat |-> [x \in BigInts |->
                   IF \A j \in 1..(i + 1) : j <= Len(t) /\ t[j] \in DOMAIN FigureValue
                   THEN Plus(Times(x, Ten), Of(FigureValue[t[i + 1]])) ELSE x]])
FromString(t) ==
    LET signed == t # <<>> /\ t[1] \in {"-", "+"}
        body == IF signed THEN Tail(t) ELSE t
        n == Scanned(body)[Len(body)]
    IN IF signed /\ t[1] = "-" THEN Negate(n) ELSE n

\* from_limbs
FromLimbs(limbs, neg) == Signed(Strip(limbs), neg)

-----------------------------------------------------------------------------
(* A register under a sequence of operations. *)

Init == reg = Zero /\ rem = Zero /\ op = "none" /\ arg = 0 /\ exact = 0

Becomes(o, n, value, r) ==
    /\ op' = o /\ arg' = n
    /\ reg' = value /\ rem' = r

Quotient(n, d) ==
    LET q == (IF n < 0 THEN -n ELSE n) \div (IF d < 0 THEN -d ELSE d)
    IN IF (n < 0) # (d < 0) THEN -q ELSE q
Floor(n, d) == IF d < 0 THEN (-n) \div (-d) ELSE n \div d

Add(n) == Becomes("add", n, Plus(reg, Of(n)), Zero) /\ exact' = exact + n
Subtract(n) ==
    Becomes("sub", n, Plus(reg, Negate(Of(n))), Zero) /\ exact' = exact - n
Multiply(n) == Becomes("mul", n, Times(reg, Of(n)), Zero) /\ exact' = exact * n
Divide(n) ==
    /\ n # 0
    /\ LET d == DivMod(reg, Of(n)) IN Becomes("div", n, d.quotient, d.rem)
    /\ exact' = Quotient(exact, n)
FloorDivide(n) ==
    /\ n # 0
    /\ LET d == FloorDiv(reg, Of(n)) IN Becomes("floor", n, d.quotient, d.rem)
    /\ exact' = Floor(exact, n)

Raise(n) ==
    /\ Becomes("pow", n, Power(reg, n), Zero)
    /\ exact' = IF n = 0 THEN 1 ELSE exact^n

Next ==
    /\ \/ \E n \in Operands :
              Add(n) \/ Subtract(n) \/ Multiply(n) \/ Divide(n) \/ FloorDivide(n)
       \/ \E n \in Exponents : Raise(n)
    /\ exact' \in (-MaxValue)..MaxValue

Spec == Init /\ [][Next]_vars

-----------------------------------------------------------------------------
(* What it promises. *)

\* "no leading zeros", "negative_ is false for zero (canonical)"
\* (big_int.hpp:27-29): equality compares the limbs and the sign.
Canonical(x) ==
    /\ \A i \in 1..Len(x.mag) : x.mag[i] \in 0..(Limb - 1)
    /\ Len(x.mag) > 0 => x.mag[Len(x.mag)] # 0
    /\ x.negative => x.mag # <<>>
TypeOK == Canonical(reg) /\ Canonical(rem) /\ exact \in (-MaxValue)..MaxValue

\* No carry, borrow or shifted bit is lost, over any sequence of operations.
ValueExact == ValueOf(reg) = exact

\* Both divisions leave a remainder smaller than the divisor that makes up the
\* dividend; the floored one leaves it with the sign of the divisor, which is
\* what digit extraction needs (big_int.hpp:160-161).
Magnitude(n) == IF n < 0 THEN -n ELSE n
DivisionTrue ==
    [][\A n \in Operands :
          op' \in {"div", "floor"} /\ arg' = n =>
              /\ ValueOf(reg') * n + ValueOf(rem') = ValueOf(reg)
              /\ Magnitude(ValueOf(rem')) < Magnitude(n)
              /\ op' = "floor" /\ n > 0 => ValueOf(rem') >= 0]_vars

\* big_gcd divides both numbers, and every common divisor divides it.
GcdTrue ==
    \A n \in Operands :
        LET g == ValueOf(Gcd(reg, Of(n))) IN
        IF g = 0 THEN exact = 0 /\ n = 0
        ELSE /\ exact % g = 0 /\ n % g = 0
             /\ \A d \in 1..Magnitude(n) :
                    n % d = 0 /\ exact % d = 0 => g % d = 0

\* "Returns the value modulo a small positive divisor" (big_int.hpp:181-182).
ModSmallTrue ==
    \A d \in {n \in Operands : n > 0} :
        exact >= 0 => ModSmall(reg, d) = exact % d
=============================================================================
