------------------------------ MODULE MCRefine ------------------------------
(* Small instances of Refine for TLC: values of the constants to a few     *)
(* decimals, and bounds that keep the exact rationals within 32 bits.      *)
EXTENDS Refine

(* big_pow of big_int.hpp: square and multiply. *)
SquareMultiply[b \in Nat, n \in Nat] ==
  IF n = 0 THEN 1
  ELSE IF n = 1 THEN b
  ELSE (IF n % 2 = 1 THEN b ELSE 1) * SquareMultiply[b * b, n \div 2]

MCBigPow(b, n) == SquareMultiply[b, n]

MCValue == [s \in SpecNames |->
  CASE s = "e"       -> <<27183, 10000>>
    [] s = "ln2"     -> <<693, 1000>>
    [] s = "1/e"     -> <<3679, 10000>>
    [] s = "pi/4"    -> <<7854, 10000>>
    [] s = "catalan" -> <<916, 1000>>]

MCMaxTerms == [s \in SpecNames |->
  CASE s = "e" -> 8 [] s = "ln2" -> 7 [] s = "1/e" -> 8
    [] s = "pi/4" -> 3 [] s = "catalan" -> 4]

(* One term less of ln 2, where a run multiplies two denominators. *)
MCShortTerms == [MCMaxTerms EXCEPT !["ln2"] = 6]
=============================================================================
