---------------------------- MODULE DigitStream ----------------------------
(***************************************************************************)
(* What every digit source of the library promises: the digits handed out  *)
(* are the expansion of one number in one base, in order, none skipped,    *)
(* none repeated, none taken back.  The number is p/q, and its k-th digit  *)
(* after the point is floor(p * base^k / q) mod base.  A source may stop   *)
(* at any point (a pending), so nothing is said about progress.            *)
(***************************************************************************)
EXTENDS Integers, Sequences

CONSTANT BigPow(_, _)

VARIABLES value, base, digits

vars == <<value, base, digits>>

DigitAt(k) == ((value[1] * BigPow(base, k)) \div value[2]) % base

Init == digits = <<>>

Emit == /\ digits' = Append(digits, DigitAt(Len(digits) + 1))
        /\ UNCHANGED <<value, base>>

Spec == Init /\ [][Emit]_vars
=============================================================================
