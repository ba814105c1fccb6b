------------------------------- MODULE Refine -------------------------------
(***************************************************************************)
(* The series tier: a SeriesVM (series.hpp) under the DigitExtractor of    *)
(* refine.hpp.  The extractor keeps an interval [lo/scale, hi/scale] for   *)
(* the part of the value not yet emitted and commits a digit only when     *)
(* both ends agree on it; otherwise it sums one more term and tries again, *)
(* and after MaxRefineIters attempts it returns "pending" (nullopt).  The  *)
(* terms summed stay summed, so a later call resumes from a deeper state.  *)
(*                                                                         *)
(* One behaviour is one extractor: a series, a base, and a client that     *)
(* calls next_digit and converge_to_digits (by way of                      *)
(* extract_digits_eager) in any order.                                     *)
(***************************************************************************)
EXTENDS SeriesConstants, Sequences

CONSTANTS
  Specs,             \* the series a client may construct
  Bases,             \* the digit bases
  Value,             \* Value[s] = <<p, q>>: s converges to p/q, as far as
                     \* MaxTerms[s] terms can tell
  MaxRefineIters,    \* DigitExtractor::max_refine_iters, 4096 in the code
  MaxConvergeSteps,  \* converge_to_digits' max_steps, 100000 in the code
  Word,              \* values of a uint32_t digit, 2^32 in the code
  EagerCounts,       \* the n of extract_digits_eager(ex, n)
  MaxTerms,          \* bound: terms of series s summed
  MaxDigits          \* bound: digits committed

ASSUME SpecsAssumption == Specs \subseteq SpecNames
ASSUME BasesAssumption == Bases \subseteq Nat \ {0, 1}
ASSUME ValueAssumption ==
  \A s \in Specs : /\ Value[s] = <<Value[s][1], Value[s][2]>>
                   /\ Value[s][1] \in Nat
                   /\ Value[s][2] \in Nat \ {0}
ASSUME BoundsAssumption ==
  /\ {MaxRefineIters, MaxConvergeSteps, MaxDigits} \subseteq Nat
  /\ EagerCounts \subseteq Nat
  /\ Word \in Nat \ {0}
  /\ \A s \in Specs : MaxTerms[s] \in Nat
(* All the proofs know of big_pow, and no further than the bounds reach. *)
ASSUME PowAssumption ==
  /\ \A b \in Bases :
       /\ BigPow(b, 0) = 1
       /\ \A n \in 0..MaxDigits : /\ BigPow(b, n) \in Nat \ {0}
                                  /\ BigPow(b, n + 1) = b * BigPow(b, n)
  /\ \A b \in {2, 3} :
       /\ BigPow(b, 0) = 1
       /\ \A s \in Specs : \A n \in 0..(2 * MaxTerms[s] + 1) :
            /\ BigPow(b, n) \in Nat \ {0}
            /\ BigPow(b, n + 1) = b * BigPow(b, n)

VARIABLES
  spec, base,            \* SeriesVM::spec and ::base, fixed at construction
  index, num, den,       \* SeriesVM: terms summed, partial sum num/den
  lo, hi, scale,         \* DigitExtractor: interval as last synced
  prefix, consumed,      \* DigitExtractor: digits committed, as an integer
  pc, iter, target,      \* the call in progress and its loop counter
  emitted                \* the digits returned so far (uint32_t)

kind == <<spec, base>>
vm == <<index, num, den>>
interval == <<lo, hi, scale>>
committed == <<prefix, consumed, emitted>>
vars == <<kind, vm, interval, committed, pc, iter, target>>

-----------------------------------------------------------------------------
(* SeriesVM *)

Err == TailBound(spec, index, den)                    \* SeriesVM::tail

StepTerm ==
  /\ index < MaxTerms[spec]
  /\ LET sum == Advance(spec, index, num, den)
     IN  num' = sum[1] /\ den' = sum[2]
  /\ index' = index + 1

(* DigitExtractor::sync_interval re-derives the interval from the VM. *)

Shift == BigPow(base, consumed)
SyncLo == num * Shift - prefix * den
SyncHiNoError == num * Shift - prefix * den            \* mutant: tail forgotten
SyncHi == (num + Err) * Shift - prefix * den

SyncInterval == /\ lo' = SyncLo
                /\ hi' = SyncHi
                /\ scale' = den

(* The next digit read off each end: floordiv(base * lo, scale). *)
DigitLo == (base * SyncLo) \div den
DigitHi == (base * SyncHi) \div den

Init ==                                                \* make_extractor
  /\ spec \in Specs
  /\ base \in Bases
  /\ index = 0 /\ num = 0 /\ den = 1                   \* make_series
  /\ prefix = 0 /\ consumed = 0 /\ emitted = <<>>
  /\ lo = 0 /\ hi = TailBound(spec, 0, 1) /\ scale = 1
  /\ pc = "idle" /\ iter = 0 /\ target = 0

-----------------------------------------------------------------------------
(* next_digit: the call, and the outcomes of one turn of its loop *)

NextDigit ==
  /\ pc = "idle"
  /\ consumed < MaxDigits
  /\ pc' = "refine"
  /\ iter' = 0
  /\ UNCHANGED <<kind, vm, interval, committed, target>>

CommitDigitNoShift ==                   \* mutant: prefix keeps its old weight
  /\ pc = "refine"
  /\ iter < MaxRefineIters
  /\ SyncInterval
  /\ DigitLo = DigitHi
  /\ prefix' = prefix + DigitLo
  /\ consumed' = consumed + 1
  /\ emitted' = Append(emitted, DigitLo % Word)
  /\ pc' = "idle"
  /\ UNCHANGED <<kind, vm, iter, target>>

CommitDigitUncast ==                    \* mutant: no cast to uint32_t
  /\ pc = "refine"
  /\ iter < MaxRefineIters
  /\ SyncInterval
  /\ DigitLo = DigitHi
  /\ prefix' = prefix * base + DigitLo
  /\ consumed' = consumed + 1
  /\ emitted' = Append(emitted, DigitLo)
  /\ pc' = "idle"
  /\ UNCHANGED <<kind, vm, iter, target>>

CommitDigit ==
  /\ pc = "refine"
  /\ iter < MaxRefineIters
  /\ SyncInterval
  /\ DigitLo = DigitHi
  /\ prefix' = prefix * base + DigitLo
  /\ consumed' = consumed + 1
  /\ emitted' = Append(emitted, DigitLo % Word)
  /\ pc' = "idle"
  /\ UNCHANGED <<kind, vm, iter, target>>

RefineTermUnstepped ==                  \* mutant: the loop forgets step_term
  /\ pc = "refine"
  /\ iter < MaxRefineIters
  /\ SyncInterval
  /\ DigitLo # DigitHi
  /\ iter' = iter + 1
  /\ UNCHANGED <<kind, vm, committed, pc, target>>

RefineTerm ==
  /\ pc = "refine"
  /\ iter < MaxRefineIters
  /\ SyncInterval
  /\ DigitLo # DigitHi
  /\ StepTerm
  /\ iter' = iter + 1
  /\ UNCHANGED <<kind, committed, pc, target>>

Pending ==
  /\ pc = "refine"
  /\ iter = MaxRefineIters
  /\ pc' = "idle"
  /\ UNCHANGED <<kind, vm, interval, committed, iter, target>>

-----------------------------------------------------------------------------
(* converge_to_digits, called by extract_digits_eager with four guard      *)
(* digits; the digits are then pulled one at a time by next_digit.         *)

Pinned == index > 0 /\ Err * BigPow(base, target) < den

Converge(n) ==
  /\ pc = "idle"
  /\ consumed < MaxDigits
  /\ index + MaxConvergeSteps <= MaxTerms[spec]        \* bound
  /\ target' = n + consumed + 4
  /\ pc' = "converge"
  /\ iter' = 0
  /\ UNCHANGED <<kind, vm, interval, committed>>

ConvergeTerm ==
  /\ pc = "converge"
  /\ iter < MaxConvergeSteps
  /\ ~Pinned
  /\ StepTerm
  /\ iter' = iter + 1
  /\ UNCHANGED <<kind, interval, committed, pc, target>>

Converged ==
  /\ pc = "converge"
  /\ iter = MaxConvergeSteps \/ Pinned
  /\ SyncInterval
  /\ pc' = "idle"
  /\ UNCHANGED <<kind, vm, committed, iter, target>>

-----------------------------------------------------------------------------
LoopStep == CommitDigit \/ RefineTerm \/ Pending \/ ConvergeTerm \/ Converged

Next == NextDigit \/ (\E n \in EagerCounts : Converge(n)) \/ LoopStep

Spec == Init /\ [][Next]_vars

(* A call runs to its end, and the client asks again after a pending: a    *)
(* pending is no end of stream, the extractor has kept the terms summed.   *)
FairSpec == Spec /\ WF_vars(LoopStep) /\ WF_vars(NextDigit)

-----------------------------------------------------------------------------
(* Properties *)

TypeOK ==
  /\ spec \in Specs /\ base \in Bases
  /\ index \in 0..MaxTerms[spec] /\ num \in Int /\ den \in Nat \ {0}
  /\ lo \in Int /\ hi \in Int /\ scale \in Nat \ {0}
  /\ prefix \in Int /\ consumed \in 0..MaxDigits
  /\ pc \in {"idle", "refine", "converge"}
  /\ iter \in Nat /\ target \in Nat
  /\ emitted \in Seq(0..(Word - 1))

P == Value[spec][1]
Q == Value[spec][2]

(* What series.hpp asks of a tail oracle: the value lies within err/den of *)
(* the partial sum, on either side.                                        *)
TailCertificate ==
  LET gap == P * den - num * Q
  IN  -(Err * Q) <= gap /\ gap <= Err * Q

(* What sync_interval takes the tail oracle to say: the value lies in      *)
(* [num/den, (num + err)/den], above the partial sum.                      *)
Encloses == num * Q <= P * den /\ P * den <= (num + Err) * Q

(* The bound err/den never grows when a term is summed: series.hpp, "must   *)
(* be monotone non-increasing as index grows".                             *)
BoundShrinks == Err' * den <= Err * den'
TailMonotone == [][BoundShrinks]_vars

(* The same from the first term on, leaving out the crude bound that each  *)
(* series starts from before it has summed anything, and the steps that go *)
(* back to a machine kept earlier (SeriesCheckpoint).                      *)
TailMonotoneOnceStarted ==
  [][index > 0 /\ index' >= index => BoundShrinks]_vars

(* No false digit: the digits committed are the leading digits of the      *)
(* value, prefix = floor(value * base^consumed), however the calls,        *)
(* pendings and convergence runs before them were ordered.                 *)
NoFalseDigit ==
  consumed > 0 => /\ prefix * Q <= P * Shift
                  /\ P * Shift < (prefix + 1) * Q

(* A committed digit stands: whatever is summed afterwards, the refreshed  *)
(* interval of the remainder stays inside [0, 1), so no later interval     *)
(* contradicts the digits already handed out.                              *)
DigitsStand == consumed > 0 => 0 <= SyncLo /\ SyncHi < den

(* The digits handed to the caller are digits of the base.                 *)
DigitsInRange == \A i \in DOMAIN emitted : emitted[i] < base

(* The documented invariant of the extractor's fields.                     *)
IntervalOrdered == 0 <= lo /\ lo <= hi

(* The extractor is a digit stream of the value: it implements the         *)
(* abstract specification, each commit the emission of the next digit and  *)
(* every other step a stutter.                                             *)
Stream == INSTANCE DigitStream WITH value <- Value[spec], digits <- emitted
ImplementsStream == Stream!Spec

(* A digit asked for is committed in the end, if the client repeats the    *)
(* call after each pending.                                                *)
EveryDigitCommits ==
  \A k \in 0..(MaxDigits - 1) : (consumed = k) ~> (consumed > k)
=============================================================================
