------------------------------- MODULE Arith -------------------------------
(***************************************************************************)
(* ArithStream of arith.hpp: + - * / over two digit streams.  Each operand *)
(* is read a digit at a time into a box lo/den <= v <= hi/den; the boxes   *)
(* are combined into an interval for the result, and a digit is emitted    *)
(* when both ends of the interval agree on it.  An operand that has shown  *)
(* kTerminateRun zeros in a row is taken to have terminated and its box is *)
(* collapsed to a point.                                                   *)
(*                                                                         *)
(* An operand is a fraction in [0, 1) in some base; the code sees only its *)
(* digits, and takes them for digits of the base of x.  One step is one    *)
(* pass of a refine loop, so a pending operand, the iteration budget and   *)
(* the operand-size budget can each end a call between passes.             *)
(***************************************************************************)
EXTENDS Integers, Sequences, FiniteSets

CONSTANTS Base,
          Values,          \* operands, [num, den, base] with 0 <= num < den
          Ops,             \* the operations to combine them with
          ZeroRun,         \* kTerminateRun
          MaxRefineIters,  \* max_refine_iters_
          OperandLimit,    \* 2^max_operand_bits_
          Word,            \* 2^32, the width of a digit
          MayPend,         \* can an operand report pending?
          MaxDigits,       \* bound: digits asked for
          MaxPulls,        \* bound: digits read from y
          MaxAhead         \* bound: digits read from x beyond those from y

ASSUME ArithAssumption ==
    /\ Base \in Nat \ {0, 1} /\ Word \in Nat /\ Base <= Word
    /\ \A v \in Values : /\ v.num \in Nat /\ v.den \in Nat /\ v.num < v.den
                         /\ v.base \in Nat \ {0, 1}
    /\ Ops \subseteq {"Add", "Sub", "Mul", "Div"}
    /\ ZeroRun \in Nat \ {0} /\ MaxRefineIters \in Nat /\ OperandLimit \in Nat
    /\ MayPend \in BOOLEAN
    /\ MaxDigits \in Nat /\ MaxPulls \in Nat /\ MaxAhead \in Nat
\* The digits read from an operand, at most.
MaxPos == MaxPulls + MaxAhead
\* Powers, as far as the bounds go.
ASSUME PowAssumption ==
    /\ Base^0 = 1
    /\ \A n \in 0..(MaxPos + MaxDigits) :
           Base^n \in Nat \ {0} /\ Base^(n + 1) = Base * Base^n
    /\ \A v \in Values : \A n \in 0..MaxPos : v.base^n \in Nat

VARIABLES op, val,         \* op_ and the two operands behind x_ and y_
          box,             \* lo, hi, den, trailing zeros and digits read of each
          started,         \* started_: the integer part is settled
          intPart, rest,   \* int_part_, and rlo_, rhi_ over scale_
          prefix, emitted, \* emitted_prefix_, and the digits it stands for
          iter, answer,    \* passes of this call, and what it returned
          pended           \* whether an operand pended during this call
vars == <<op, val, box, started, intPart, rest, prefix, emitted, iter, answer,
          pended>>

Sides == {"x", "y"}
Unread == [lo |-> 0, hi |-> 1, den |-> 1, run |-> 0, pos |-> 0]
Interval(l, h, d) == [lo |-> l, hi |-> h, scale |-> d]

Init ==
    /\ op \in Ops
    /\ val \in {v \in [Sides -> Values] : v["x"].base = Base}
    /\ box = [s \in Sides |-> Unread]
    /\ started = FALSE
    /\ intPart = 0
    /\ rest = Interval(0, 0, 0)
    /\ prefix = 0
    /\ emitted = <<>>
    /\ iter = 0
    /\ answer = "none"
    /\ pended = FALSE

-----------------------------------------------------------------------------
(* The operand boxes. *)

\* The k-th digit an operand gives, in the base it was made in.
DigitOf(v, k) == ((v.num * v.base^k) \div v.den) % v.base

\* reduce_operand: strip the powers of Base that lo, hi and den share.
SharedPower(b) ==
    CHOOSE p \in {Base^k : k \in 0..b.pos} :
        /\ \A n \in {b.lo, b.hi, b.den} : n % p = 0
        /\ p * Base > b.den \/ \E n \in {b.lo, b.hi, b.den} : n % (p * Base) # 0
ReduceOperand(b) ==
    LET p == SharedPower(b)
    IN [b EXCEPT !.lo = @ \div p, !.hi = @ \div p, !.den = @ \div p]

\* mutant: the run of zeros is not ended by another digit
RefinedRunKept(s) ==
    LET b == box[s]
        d == DigitOf(val[s], b.pos + 1)
    IN ReduceOperand([lo |-> b.lo * Base + d, hi |-> b.lo * Base + d + 1,
                      den |-> b.den * Base,
                      run |-> IF d = 0 THEN b.run + 1 ELSE b.run,
                      pos |-> b.pos + 1])

\* refine_x, refine_y: take in the operand's next digit.
Refined(s) ==
    LET b == box[s]
        d == DigitOf(val[s], b.pos + 1)
    IN ReduceOperand([lo |-> b.lo * Base + d, hi |-> b.lo * Base + d + 1,
                      den |-> b.den * Base,
                      run |-> IF d = 0 THEN b.run + 1 ELSE 0,
                      pos |-> b.pos + 1])

\* mutant: no collapse: the denominator is relied on to shrink
CollapsedNever(b) == b

\* collapse_if_terminated
Collapsed(b) == IF b.run >= ZeroRun THEN [b EXCEPT !.hi = b.lo] ELSE b

\* mutant: Div takes the ends of y in the same order as Mul
CombinedDivUncrossed(b) ==
    LET x == b["x"]  y == b["y"] IN
    CASE op = "Add" -> Interval(x.lo * y.den + y.lo * x.den,
                                x.hi * y.den + y.hi * x.den, x.den * y.den)
      [] op = "Sub" -> Interval(x.lo * y.den - y.hi * x.den,
                                x.hi * y.den - y.lo * x.den, x.den * y.den)
      [] op = "Mul" -> Interval(x.lo * y.lo, x.hi * y.hi, x.den * y.den)
      [] op = "Div" -> Interval(x.lo * y.den * (x.den * y.hi),
                                x.hi * y.den * (x.den * y.lo),
                                (x.den * y.hi) * (x.den * y.lo))

\* combined_interval: the result's interval; no division while y may be zero.
Combinable(b) == op = "Div" => b["y"].lo > 0
Combined(b) ==
    LET x == b["x"]  y == b["y"] IN
    CASE op = "Add" -> Interval(x.lo * y.den + y.lo * x.den,
                                x.hi * y.den + y.hi * x.den, x.den * y.den)
      [] op = "Sub" -> Interval(x.lo * y.den - y.hi * x.den,
                                x.hi * y.den - y.lo * x.den, x.den * y.den)
      [] op = "Mul" -> Interval(x.lo * y.lo, x.hi * y.hi, x.den * y.den)
      [] op = "Div" -> Interval(x.lo * y.den * (x.den * y.lo),
                                x.hi * y.den * (x.den * y.hi),
                                (x.den * y.hi) * (x.den * y.lo))

\* mutant: the digits emitted are not taken out after a pull
RemainingForgetful(c) ==
    Interval((c.lo - intPart * c.scale) * Base^Len(emitted),
             (c.hi - intPart * c.scale) * Base^Len(emitted), c.scale)

\* resync_after_emit, and recompute_fraction while nothing is emitted: what of
\* the interval the integer part and the emitted digits leave.
Remaining(c) ==
    LET k == Base^Len(emitted)
    IN Interval((c.lo - intPart * c.scale) * k - prefix * c.scale,
                (c.hi - intPart * c.scale) * k - prefix * c.scale, c.scale)

Gcd[p \in Nat \X Nat] == IF p[2] = 0 THEN p[1] ELSE Gcd[<<p[2], p[1] % p[2]>>]
Abs(n) == IF n < 0 THEN -n ELSE n

\* mutant: the powers of Base are stripped from the ends, not from the scale
ReduceFractionEnds(r) ==
    LET g == Gcd[<<Gcd[<<r.scale, Abs(r.lo)>>], Abs(r.hi)>>]
    IN Interval(r.lo \div g, r.hi \div g, r.scale)

\* reduce_fraction: powers of Base first, then the whole common divisor.
ReduceFraction(r) ==
    LET g == Gcd[<<Gcd[<<r.scale, Abs(r.lo)>>], Abs(r.hi)>>]
    IN Interval(r.lo \div g, r.hi \div g, r.scale \div g)

TooBig(r) == \E n \in {r.scale, Abs(r.lo), Abs(r.hi)} : n >= OperandLimit

-----------------------------------------------------------------------------
(* One call of next_digit() or integer_part(). *)

Call ==
    /\ answer # "running"
    /\ Len(emitted) < MaxDigits
    /\ answer' = "running"
    /\ iter' = 0
    /\ pended' = FALSE
    /\ UNCHANGED <<op, val, box, started, intPart, rest, prefix, emitted>>

Looping == answer = "running" /\ iter < MaxRefineIters

\* The interval as a pass over the fraction holds it: reduced.
Tidied(r) == IF started THEN ReduceFraction(r) ELSE r

\* A pass that reads a digit of each operand: x, then y, either of which may
\* pend; then the boxes are collapsed and the interval re-derived, if it can be.
\* A digit of x read before y pends is kept: x is one further ahead each time,
\* for good, and from then on boxes of different depth are combined.
Pull ==
    /\ box["y"].pos < MaxPulls                                       \* bound
    /\ \/ /\ box' = [s \in Sides |-> Collapsed(Refined(s))]
          /\ \/ /\ Combinable(box')
                /\ rest' = Tidied(Remaining(Combined(box')))
                /\ iter' = iter + 1
                /\ UNCHANGED answer
             \/ /\ ~Combinable(box')
                /\ rest' = Tidied(rest)
                /\ answer' = "pending"
                /\ UNCHANGED iter
          /\ UNCHANGED pended
       \/ /\ MayPend
          /\ \/ box' = box
             \/ /\ box["x"].pos - box["y"].pos < MaxAhead             \* bound
                /\ box' = [box EXCEPT !["x"] = Refined("x")]
          /\ rest' = Tidied(rest)
          /\ answer' = "pending"
          /\ pended' = TRUE
          /\ UNCHANGED iter
    /\ UNCHANGED <<op, val, started, intPart, prefix, emitted>>

\* settle_integer_part: both ends agree on the integer part.
IntegerEnds(c) == {c.lo \div c.scale, c.hi \div c.scale}
Settled == Combinable(box) /\ Cardinality(IntegerEnds(Combined(box))) = 1

\* integer_part() returns here, next_digit() goes on to a fraction digit.
Settle ==
    /\ Looping /\ ~started /\ Settled
    /\ LET c == Combined(box)
           ilo == c.lo \div c.scale
       IN /\ intPart' = ilo
          /\ rest' = Interval(c.lo - ilo * c.scale, c.hi - ilo * c.scale, c.scale)
    /\ started' = TRUE
    /\ iter' = 0
    /\ answer' \in {"running", "answered"}
    /\ UNCHANGED <<op, val, box, prefix, emitted, pended>>

SettleRefine == Looping /\ ~started /\ ~Settled /\ Pull

\* next_fraction_digit: both ends of the reduced interval agree on a digit.
Reduced == ReduceFraction(rest)
Lowest == (Base * Reduced.lo) \div Reduced.scale
Highest == (Base * Reduced.hi) \div Reduced.scale
Fraction == Looping /\ started

CommitDigit ==
    /\ Fraction /\ ~TooBig(Reduced) /\ Lowest = Highest
    /\ LET r == Reduced  d == Lowest
       IN /\ rest' = ReduceFraction(Interval(Base * r.lo - d * r.scale,
                                             Base * r.hi - d * r.scale, r.scale))
          /\ prefix' = prefix * Base + d
          /\ emitted' = Append(emitted, d % Word)
    /\ answer' = "answered"
    /\ UNCHANGED <<op, val, box, started, intPart, iter, pended>>

FractionRefine == Fraction /\ ~TooBig(Reduced) /\ Lowest # Highest /\ Pull

\* Honest pending: the operands grew past max_operand_bits_, or the passes of
\* this call are used up.
GiveUp ==
    /\ answer = "running"
    /\ iter = MaxRefineIters \/ (started /\ TooBig(Reduced))
    /\ rest' = Tidied(rest)
    /\ answer' = "pending"
    /\ UNCHANGED <<op, val, box, started, intPart, prefix, emitted, iter, pended>>

Next == \/ Call
        \/ Settle \/ SettleRefine
        \/ CommitDigit \/ FractionRefine
        \/ GiveUp

Spec == Init /\ [][Next]_vars

\* The loops of a call run, and a caller that got pending asks again.
FairSpec == Spec /\ WF_vars(Next)

-----------------------------------------------------------------------------
(* What it promises. *)

\* The exact result, as a numerator over a positive denominator.
Exact ==
    LET x == val["x"]  y == val["y"] IN
    CASE op = "Add" -> <<x.num * y.den + y.num * x.den, x.den * y.den>>
      [] op = "Sub" -> <<x.num * y.den - y.num * x.den, x.den * y.den>>
      [] op = "Mul" -> <<x.num * y.num, x.den * y.den>>
      [] op = "Div" -> <<x.num * y.den, x.den * y.num>>
ExactPart == Exact[1] \div Exact[2]
ExactDigit(k) ==
    (((Exact[1] - ExactPart * Exact[2]) * Base^k) \div Exact[2]) % Base

\* "We never emit a digit we cannot prove": the integer part and every digit
\* emitted are those of the exact result (arith.hpp:5-17).
NoFalseDigit ==
    started => /\ Exact[2] # 0
               /\ intPart = ExactPart
               /\ \A k \in 1..Len(emitted) : emitted[k] = ExactDigit(k)

\* Each operand lies in its box: also after the box was collapsed to a point
\* on the strength of a run of zeros (collapse_if_terminated).
OperandsEnclosed ==
    \A s \in Sides : LET b == box[s]  v == val[s] IN
        /\ b.lo * v.den <= v.num * b.den
        /\ v.num * b.den <= b.hi * v.den

\* What is left of the result after the digits emitted lies in the interval
\* carried between calls, at every pull, commit, reduction and early return.
RestEncloses ==
    started => LET k == Base^Len(emitted)
                   left == (Exact[1] - intPart * Exact[2]) * k
                               - prefix * Exact[2]
               IN /\ rest.lo * Exact[2] <= left * rest.scale
                  /\ left * rest.scale <= rest.hi * Exact[2]

\* The assertion of reduce_fraction, which aborts the process: the interval is
\* ordered and its scale positive.
NeverAborts == started => rest.lo <= rest.hi /\ rest.scale > 0

\* Two operands that terminate give all their digits, even when the result
\* falls on a digit boundary, where no box of positive width ever commits:
\* that is what collapsing a terminated operand is for.  A result too large for
\* max_operand_bits_, or operands that keep pending, are the only ways out.
Terminates(v) == \E k \in 0..MaxPulls : (v.num * Base^k) % v.den = 0
TerminatingAnswered ==
    (\A s \in Sides : Terminates(val[s])) /\ (op = "Div" => val["y"].num > 0)
        ~> Len(emitted) = MaxDigits \/ pended \/ (started /\ TooBig(Reduced))

\* A call that returns pending had an operand pend or spent a budget: a
\* divisor not yet away from zero "needs refinement" (arith.hpp:171-173).
PendingIsHonest ==
    answer = "pending" =>
        pended \/ iter = MaxRefineIters \/ (started /\ TooBig(Reduced))

\* An operand still in its trailing zeros after its collapse does not grow its
\* denominator: stripping "prevents xden_/yden_ from growing without bound when
\* the operand's digit stream terminates" (arith.hpp:423-429).
TerminatedStaysSmall ==
    \A s \in Sides : box[s].run > ZeroRun => box[s].den < Base^box[s].pos
=============================================================================
