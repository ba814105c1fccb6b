------------------------------ MODULE MCSource ------------------------------
(* A small instance of CachedDigitSource: five distinct digits. *)
EXTENDS CachedDigitSource

MCDigit == [i \in Indices |-> 10 + i]
MCDigits == {10 + i : i \in Indices}
=============================================================================
