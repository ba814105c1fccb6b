------------------------------- MODULE Codec -------------------------------
(***************************************************************************)
(* codec.hpp: a change of base by reading.  reproject_digits takes a few   *)
(* digits of any machine, makes the fraction they spell in two words of    *)
(* 64 bits, and emits digits of that fraction in the target base with a    *)
(* rational machine.  What is left of the source is cut off.               *)
(***************************************************************************)
EXTENDS RationalVM, Sequences

\* mutant: the weight of the first digit is left out of the denominator
GatheredLight(digits, b) ==
    LET at[k \in 0..Len(digits)] ==
          IF k = 0 THEN [p |-> 0, q |-> 1]
          ELSE [p |-> (at[k - 1].p * b + digits[k]) % Word,
                q |-> IF k = 1 THEN 1 ELSE (at[k - 1].q * b) % Word]
    IN at[Len(digits)]

\* num and den, after the digits of the source
Gathered(digits, b) ==
    LET at[k \in 0..Len(digits)] ==
          IF k = 0 THEN [p |-> 0, q |-> 1]
          ELSE [p |-> (at[k - 1].p * b + digits[k]) % Word,
                q |-> (at[k - 1].q * b) % Word]
    IN at[Len(digits)]

Reprojected(digits, b, target, n) ==
    LET s == MakeState(Gathered(digits, b))
    IN [k \in 1..n |-> Digit(target, Stepped(target, s, k - 1))]

\* A sequence of digits as an integer.
Spelled(digits, b) ==
    LET at[k \in 0..Len(digits)] == IF k = 0 THEN 0 ELSE at[k - 1] * b + digits[k]
    IN at[Len(digits)]
=============================================================================
