----------------------------- MODULE Automaton -----------------------------
(***************************************************************************)
(* The automaton tier of number.hpp: one of the three digit machines, held *)
(* in the variant state_ and named by the tag gen_.  automaton_step and    *)
(* skip dispatch on the tag; in_base rebinds the number space and leaves   *)
(* the variant alone.  An instance is a number space with what it holds:   *)
(* two rational machines, two p-adic ones (so that they can be compared),  *)
(* or one square root.  The machines that are not held are parked.         *)
(*                                                                         *)
(* The rational machine is this module's own; the constants of the other   *)
(* two are given here under names of their own.                            *)
(***************************************************************************)
EXTENDS Codec

CONSTANTS Gens,                                       \* the machines held
          Residues, Primes, Checked, SafetyCap, MaxMetric, PAdicScale,
          Radicands, SqrtBases, SqrtHalf, SqrtScale,
          Projections,                                \* <<source digits, target base, digits>>
          ProjectScale                                \* bound: where reprojections stop

VARIABLES gen,                                        \* gen_
          pmachine, pbase, answer, pfirst, sum, pscale,
          D, P, R, sbase, sscale,
          projection         \* the last reprojection: what was asked and the digits

rational == vars
padic == <<pmachine, pbase, answer, pfirst, sum, pscale>>
sqrt == <<D, P, R, sbase, sscale>>

PA == INSTANCE PAdicVM
        WITH Fractions <- Residues, MaxLook <- MaxMetric, MaxScale <- PAdicScale,
             machine <- pmachine, base <- pbase, first <- pfirst, scale <- pscale
SQ == INSTANCE SqrtVM
        WITH Bases <- SqrtBases, Half <- SqrtHalf, MaxScale <- SqrtScale,
             base <- sbase, scale <- sscale

ASSUME GensAssumption == Gens \subseteq {"rational", "padic", "sqrt"}
ASSUME MachineAssumptions == PA!PAdicAssumption /\ SQ!SqrtAssumption
ASSUME ProjectionAssumption ==
    /\ Projections \subseteq Nat \X (Nat \ {0, 1}) \X (Nat \ {0})
    /\ ProjectScale \in Nat
    /\ \A b \in SqrtBases \union {2} : b^0 = 1
    /\ \A j \in Projections :
          /\ j[2]^0 = 1 /\ \A k \in 0..(j[3] - 1) : j[2]^(k + 1) = j[2]^k * j[2]
          /\ \A b \in Bases \union SqrtBases :
                b^0 = 1 /\ \A k \in 0..(j[1] - 1) : b^(k + 1) = b^k * b

-----------------------------------------------------------------------------
Parked == 0
NoRational == /\ machine = Parked /\ base = Parked /\ verdict = Parked
              /\ first = Parked /\ prefix = Parked /\ scale = Parked
NoPAdic == /\ pmachine = Parked /\ pbase = Parked /\ answer = Parked
           /\ pfirst = Parked /\ sum = Parked /\ pscale = Parked
NoSqrt == /\ D = Parked /\ P = Parked /\ R = Parked
          /\ sbase = Parked /\ sscale = Parked

\* Number::rational, Number::padic, Number::sqrt
Rational == gen = "rational" /\ Init /\ NoPAdic /\ NoSqrt
PAdic == gen = "padic" /\ PA!Init /\ NoRational /\ NoSqrt
Sqrt == gen = "sqrt" /\ SQ!Init /\ NoRational /\ NoPAdic
Unprojected == [source |-> 0, target |-> 2, digits |-> <<>>]
AutomatonInit ==
    gen \in Gens /\ (Rational \/ PAdic \/ Sqrt) /\ projection = Unprojected

\* What the tag selects: a step, a skip, a comparison or a change of base of
\* the machine held.  skip returns nullopt but for a rational.
RationalStep ==
    /\ gen = "rational" /\ Next
    /\ projection' = Unprojected /\ UNCHANGED <<gen, padic, sqrt>>
PAdicStep ==
    /\ gen = "padic" /\ PA!Next
    /\ projection' = Unprojected /\ UNCHANGED <<gen, rational, sqrt>>
SqrtStep ==
    /\ gen = "sqrt" /\ SQ!Next
    /\ projection' = Unprojected /\ UNCHANGED <<gen, rational, padic>>

\* reproject_digits<Rational> and reproject_digits<Sqrt>: reads a copy of the
\* machine.  A p-adic machine gives its lowest digit first and spells no fraction.
SourceBase == IF gen = "rational" THEN base ELSE sbase
SourceScale == IF gen = "rational" THEN scale["x"] ELSE sscale
SourceDigits(n) ==
    [k \in 1..n |->
       IF gen = "rational" THEN Digit(base, Stepped(base, machine["x"], k - 1))
       ELSE SQ!Digit(sbase, SQ!Stepped(sbase, SQ!Live, k - 1))]

Reproject(n, target, places) ==
    /\ gen \in {"rational", "sqrt"}
    /\ SourceScale * SourceBase^n * target^places <= ProjectScale
    /\ projection' =
         [source |-> n, target |-> target,
          digits |-> Reprojected(SourceDigits(n), SourceBase, target, places)]
    /\ verdict' = IF gen = "rational" THEN None ELSE verdict
    /\ UNCHANGED <<gen, machine, base, first, prefix, scale, padic, sqrt>>

AutomatonNext ==
    \/ RationalStep \/ PAdicStep \/ SqrtStep
    \/ \E j \in Projections : Reproject(j[1], j[2], j[3])

AutomatonSpec ==
    AutomatonInit /\ [][AutomatonNext]_<<gen, rational, padic, sqrt, projection>>

-----------------------------------------------------------------------------
(* What the machine held promises: see RationalVM, PAdicVM and SqrtVM.     *)

\* Steps, skips and base changes lose nothing of a rational (rational.hpp).
RationalExact == gen = "rational" => RemainderExact

\* An order or an indistinguishable is true of the rationals (compare.hpp).
RationalVerdictTrue == gen = "rational" => VerdictTrue

\* Steps and base changes lose nothing of a p-adic number (padic.hpp).
PAdicExact == gen = "padic" => PA!NumeratorExact

\* The metric is the valuation of the difference (metric.hpp).
PAdicMetricTrue == gen = "padic" => PA!MetricTrue

\* padic_period finds the cycle of the digits (padic.hpp).
PAdicPeriodFound == gen = "padic" => PA!PeriodFound

\* The root read so far is the integer part of the scaled root and the remainder
\* is what the root leaves, in the words they are kept in (algebraic.hpp).
SqrtExact == gen = "sqrt" => SQ!RootExact /\ SQ!RemainderExact

Square(n) == n * n

\* A reprojection is a lower bound of what the machine still holds, and short of
\* it by less than a unit of its last place and the tail that was cut off:
\* "This num/den is an exact lower bound on the value ... keeping the conversion
\* interval-honest" (docs/codec_hpp.md:95-97).
ReprojectionTrue ==
    LET out == Spelled(projection.digits, projection.target)
        weight == projection.target^Len(projection.digits)
        cut == SourceBase^projection.source
        r == machine["x"].r
        q == machine["x"].q
    IN /\ gen = "rational" /\ q # 0 =>
            /\ out * q <= r * weight
            /\ r * weight * cut < (out + 1) * q * cut + q * weight
       /\ gen = "sqrt" =>
            /\ Square(P * weight + out) <= D * Square(sscale * weight)
            /\ D * Square(sscale * weight * cut)
                  < Square((P * weight + out + 1) * cut + weight)
=============================================================================
