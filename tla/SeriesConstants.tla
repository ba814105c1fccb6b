--------------------------- MODULE SeriesConstants ---------------------------
(***************************************************************************)
(* The series of constants.hpp.  A SeriesSpec is a pair of functions:      *)
(* "advance" maps the partial sum num/den after n terms to the one after   *)
(* n + 1 terms, and "tail_bound" gives the numerator err of the remaining  *)
(* error err/den.  Partial sums are exact rationals over a denominator     *)
(* that each step multiplies; a partial sum is written <<num, den>> here.  *)
(***************************************************************************)
EXTENDS Integers

CONSTANT BigPow(_, _)   \* big_pow of big_int.hpp: BigPow(b, e) = b to the e

SpecNames == {"e", "ln2", "1/e", "pi/4", "catalan"}

Sign(n) == IF n % 2 = 0 THEN 1 ELSE -1

-----------------------------------------------------------------------------
(* e = sum of 1/k!, over den = (n - 1)! once n terms are summed *)

EAdvanceUnscaled(n, num, den) ==        \* mutant: num not moved to the new den
  IF n = 0 THEN <<1, 1>> ELSE <<num + 1, den * n>>

EAdvance(n, num, den) ==
  IF n = 0 THEN <<1, 1>> ELSE <<num * n + 1, den * n>>

ETailGrowing(n, den) == IF n = 0 THEN 3 ELSE 2 * n       \* mutant

ETail(n, den) == IF n = 0 THEN 3 ELSE 2

(* ln 2 = sum of 1/(k 2^k), over den = n! 2^n *)

Ln2Advance(n, num, den) ==
  LET k == n + 1
      newden == den * k * 2
  IN  <<num * k * 2 + newden \div (k * BigPow(2, k)), newden>>

Ln2TailNextTerm(n, den) ==              \* mutant: one power of two too many
  IF n = 0 THEN 1 ELSE den \div BigPow(2, 2 * n)

Ln2Tail(n, den) == IF n = 0 THEN 1 ELSE den \div BigPow(2, n)

(* 1/e = sum of (-1)^k / k! *)

OneOverEAdvance(n, num, den) ==
  IF n = 0 THEN <<1, 1>> ELSE <<num * n + Sign(n), den * n>>

OneOverETail(n, den) == IF n = 0 THEN 2 ELSE 1

(* pi/4 = arctan 1/2 + arctan 1/3, the k-th terms of both series at once *)

PiQuarterAdvance(n, num, den) ==
  LET odd == 2 * n + 1
      factor == odd * 4 * 9
      newden == den * factor
  IN  IF n = 0
      THEN <<5, 6>>
      ELSE <<num * factor + Sign(n) * (  newden \div (odd * BigPow(2, odd))
                                       + newden \div (odd * BigPow(3, odd))),
             newden>>

PiQuarterTail(n, den) ==
  IF n = 0 THEN den ELSE 2 * (den \div BigPow(2, 2 * n))

(* Catalan's constant = sum of (-1)^k / (2k+1)^2; the tail is rounded up *)

CatalanAdvance(n, num, den) ==
  LET odd == 2 * n + 1
  IN  IF n = 0 THEN <<1, 1>>
      ELSE <<num * odd * odd + Sign(n) * den, den * odd * odd>>

CatalanTail(n, den) ==
  LET odd == 2 * n + 1
      bound == den \div (odd * odd)
  IN  IF n = 0 THEN den
      ELSE 2 * (IF den % (odd * odd) = 0 THEN bound ELSE bound + 1)

-----------------------------------------------------------------------------
(* The two members of the SeriesSpec named s *)

Advance(s, n, num, den) ==
  CASE s = "e"       -> EAdvance(n, num, den)
    [] s = "ln2"     -> Ln2Advance(n, num, den)
    [] s = "1/e"     -> OneOverEAdvance(n, num, den)
    [] s = "pi/4"    -> PiQuarterAdvance(n, num, den)
    [] s = "catalan" -> CatalanAdvance(n, num, den)

TailBound(s, n, den) ==
  CASE s = "e"       -> ETail(n, den)
    [] s = "ln2"     -> Ln2Tail(n, den)
    [] s = "1/e"     -> OneOverETail(n, den)
    [] s = "pi/4"    -> PiQuarterTail(n, den)
    [] s = "catalan" -> CatalanTail(n, den)
=============================================================================
