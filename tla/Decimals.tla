------------------------------ MODULE Decimals ------------------------------
(***************************************************************************)
(* Loops, and the characters for the figures of a decimal number, which    *)
(* the integers (big_int.hpp) and the JSON writer and reader (json.hpp)    *)
(* share.                                                                  *)
(***************************************************************************)
EXTENDS Integers

\* A loop variable: c at first, body[i] of what it was after pass i.
Loop(c, body) ==
    LET x[n \in Nat] == IF n = 0 THEN c ELSE body[n - 1][x[n - 1]] IN x

Figures == <<"0", "1", "2", "3", "4", "5", "6", "7", "8", "9">>
FigureValue ==
    [c \in {Figures[d] : d \in 1..10} |-> (CHOOSE d \in 1..10 : Figures[d] = c) - 1]
=============================================================================
