----------------------------- MODULE ValueStore -----------------------------
(***************************************************************************)
(* What number.hpp promises of Numbers: they are values.  Each stands at a *)
(* place of its own in its expansion, moves only when a digit is pulled    *)
(* from it, and a number derived from another starts from where that one   *)
(* stands.  A place is the base of the next digit and the digits read so   *)
(* far, counted by base: the remainder of x after them is the fractional   *)
(* part of x times the product of their bases.                             *)
(***************************************************************************)
EXTENDS Integers

CONSTANTS Objects, Null, Bases, Skips

VARIABLE values     \* values[o], the place of o, or Null

Unread == [b \in Bases |-> 0]
Start(b) == [base |-> b, read |-> Unread]
Beyond(place, n) == [place EXCEPT !.read[place.base] = @ + n]

Free == {o \in Objects : values[o] = Null}
Used == Objects \ Free

Init == values = [o \in Objects |-> Null]

Make(c, b) == values' = [values EXCEPT ![c] = Start(b)]

Pull(o) == values' = [values EXCEPT ![o] = Beyond(@, 1)]

Copy(o, c, n) == values' = [values EXCEPT ![c] = Beyond(values[o], n)]

Rebase(o, c, b) == values' = [values EXCEPT ![c] = [values[o] EXCEPT !.base = b]]

Fork(o, c, d) == values' = [values EXCEPT ![c] = values[o], ![d] = values[o]]

(* A result of arithmetic is a new value; an operand that was the result   *)
(* of arithmetic itself is a temporary and goes.                           *)
Combine(x, y, c) ==
  \E temporaries \in SUBSET {x, y} :
    values' = [o \in Objects |-> CASE o = c -> Start(values[x].base)
                                   [] o \in temporaries -> Null
                                   [] OTHER -> values[o]]

(* A result of arithmetic that was compared or rendered was a temporary.   *)
Forget(x, y) ==
  \E temporaries \in SUBSET {x, y} :
    values' = [o \in Objects |-> IF o \in temporaries THEN Null ELSE values[o]]

Next ==
  \/ \E c \in Free, b \in Bases : Make(c, b)
  \/ \E o \in Used :
       \/ Pull(o)
       \/ \E y \in Used : Forget(o, y)
       \/ \E c \in Free :
            \/ \E n \in Skips \cup {0} : Copy(o, c, n)
            \/ \E b \in Bases : Rebase(o, c, b)
            \/ \E d \in Free \ {c} : Fork(o, c, d)
            \/ \E y \in Used : Combine(o, y, c)

Spec == Init /\ [][Next]_values
=============================================================================
