------------------------------ MODULE MCNumber ------------------------------
(* Small instances of Number: a fraction whose digits are no short cycle   *)
(* in any of the bases.  The client's Numbers are interchangeable.         *)
EXTENDS Number, TLC

MCFraction == <<5, 11>>
MCSymmetry == Permutations(Objects)
=============================================================================
