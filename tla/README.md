# Virtual_Numbers: specification and proofs

TLA+ modules for the header-only library in `src/include/nam` (digit streams of
real and p-adic numbers), the TLC configurations that check them, and TLAPS
proofs about the parts that matter most.

    tlc -config RefineSound.cfg MCRefine      # one of the runs below
    tlapm RefineProofs.tla                    # one of the eight proof modules

## 1. The system

A `Number` is a stream of digits. Three tiers produce it.

| component | state | operations | what makes it correct |
|---|---|---|---|
| Automata: `rational.hpp`, `algebraic.hpp`, `padic.hpp`, with `skip.hpp`, `compare.hpp`, `metric.hpp` | a few machine words: r, q; R, P, D; a, b | step, drop, skip, period, compare, distance, `in_base` | registers and emitted digits together are the value, at every width and after any skip; a comparison or distance says what the numbers say |
| Series: `series.hpp`, `constants.hpp` | term index, partial sum num/den | advance, tail bound, converge | the tail bound covers the terms left out and shrinks |
| Extraction: `refine.hpp` | interval lo, hi over scale; prefix, digits committed | `next_digit`, `extract_digits_eager` | no false digit, no digit taken back, every digit in the end |
| Arithmetic: `arith.hpp` | two operand boxes, remainder interval, integer part, prefix | `integer_part`, `next_digit` | the same, over two streams that may pend between two reads |
| `Number`: `number.hpp` | tier state and three shared pointers | copy, fork, combine, skip, pull, compare, render | value semantics, honest comparisons |
| Memoization: `memo.hpp` | list and map, digits produced | get, put, `digit(i)` | list and map agree, LRU order, the right digit |
| Precision: `number.hpp`, both bindings | thread-local count, guards | enter, exit | innermost scope in force, restored on exit |
| Checkpoints: `serialize.hpp`, `number.hpp` | configs, cursors, JSON | build, spawn, advance, fork, save, load | a run resumed equals a run never interrupted |
| Integers: `big_int.hpp`, `bounded_int.hpp` | limbs and sign | + - * / floor, gcd | the integer result, in canonical form |
| JSON text: `json.hpp` | none | dump, parse | what was written is read back; what was cut off is refused |
| Expressions: `expr.hpp` | immutable trees that share children | leaf, rebase, resolve | the innermost base that was asked for last wins, children untouched |
| Codec: `codec.hpp` | none | `reproject_digits` | a lower bound of the source, within the tail cut off |
| C ABI, wrappers, web pages | none of interest | | |

Everything is sequential inside an object. What makes the code hard to test:

- **aliasing**: numbers are values with a shared pointer inside, and a copy
  shares the stream behind it (`number.hpp:370`, `389`, `275`, `490`);
- **pending**: any digit source may return nothing at any call, in the middle of
  a loop that has already moved other state (`memo.hpp:80`, `arith.hpp:311`);
- **re-derivation**: intervals are recomputed from deeper state minus what was
  already emitted, so an error shows up digits later (`refine.hpp:64`,
  `arith.hpp:354`);
- **one-sided bounds, guesses about termination, 64-bit products and search
  caps** (`refine.hpp:65`, `arith.hpp:166`, `rational.hpp:34`, `rational.hpp:74`);
- **restarts**: a program may stop at any point and go on from the text it last
  saved, which holds less than the object did (`serialize.hpp:433`,
  `number.hpp:222`), or from a text whose end is missing (`json.hpp:229`);
- **scopes** of several threads, tasks and context objects (`number.hpp:49`,
  `nam_py.cpp:41`).

The `hazards` of `PROJECT.json` give each with its line and its properties.

## 2. Modules

| module | models | how state and actions correspond |
|---|---|---|
| `SeriesConstants` | `constants.hpp` | one operator per `advance` and per `tail_bound`, on exact integers |
| `Refine` | `refine.hpp`, `series.hpp` | one behaviour is one extractor. `index, num, den` are the SeriesVM, `lo, hi, scale, prefix, consumed` the DigitExtractor, `pc, iter, target` the call in progress. `NextDigit` and `Converge` start a call, each pass of a loop is one action: `CommitDigit`, `RefineTerm`, `Pending`, `ConvergeTerm`, `Converged` |
| `DigitStream` | what an extractor promises | emits the digits of a value, one at a time; `Refine` implements it |
| `LruDigitCache` | the cache of `memo.hpp` | `order` is the list, `map` the hash map; the iterator kept in the map is the index's place in the list. `recent`, `stored` are history |
| `CachedDigitSource` | the source of `memo.hpp` | EXTENDS the cache; a call is `CallHit`, or `CallMiss` and then one `Produce` or `ProducePending` per pass and `Return` |
| `SeriesCheckpoint` | the SeriesVM part of `serialize.hpp`, over `Refine` | `text` is the last JSON; `Save` writes the live machine, `SaveNumber` the machine a `Number` holds, `Restart` ends the process at any point of a call and makes a new extractor. `handed` is history |
| `ValueStore` | what a Number promises | values with places of their own, no pointers, and temporaries that are dropped; `Number` implements it for a careful client |
| `Number` | `number.hpp` | a heap of `number`s (tier, own place, shared pointer) and `cell`s (place of the stream behind a pointer). A digit is its place: its base and the digits read before it, by base. An arithmetic result may be an operand, two levels deep. A call of a stream (`Calls`) reads its operands in passes, x and then y, and may end pending at either read, or by itself; what was read stays read, and `taken` counts it. A comparison is a loop of `Turns` over local copies, ended by a difference, a pending or the digit count. `ideal` is history: where a value type would stand |
| `Precision` | `PrecisionContext` and the context objects of the bindings | `current` per thread, `held` and `prev` are the guards, `scopes` the blocks a task has open |
| `Arith` | `arith.hpp` | a call is `Call`, then `Settle`/`SettleRefine` passes, then `CommitDigit`/`FractionRefine`, or `GiveUp`. `Pull` is one pass's two reads, either of which may pend; each time y pends after x, the box of x is one digit further ahead, for good |
| `RationalVM`, `SqrtVM`, `PAdicVM` | the automata | registers, and the digits they gave as an integer (history). `Word` is 2^64; `SqrtVM` multiplies by half words as `BoundedInt::mul_small` does, `Half` is 2^32 |
| `Codec` | `codec.hpp` | the fraction gathered in two words, and the rational machine run over it |
| `Automaton` | `Number::automaton_step`, `reproject_digits` | one of the three machines, chosen by `gen`; `Reproject` reads it through `Codec` |
| `Cursor` | `serialize.hpp`, the seeds and JSON of `number.hpp`, `expr.hpp` | a program with a few values (configs, cursors, numbers, texts, trees); the machine is a parameter; casts to `int64_t` and back are modelled. `Copy` is a plain copy and `MachineIterator::fork`; `Fork` is `Number::fork`, whose second half is built from a default `Number` and counts from 0 |
| `BigInt` | `big_int.hpp`, `big_pow` | limb algorithms as operators over sequences, the text and the limbs of an integer (`InDecimal`, `FromString`, `FromLimbs`), and a register they act on; `HalfBits` is 16 |
| `Decimals` | loops, and the characters of figures | shared by `BigInt` and `JsonText` |
| `JsonText` | `json.hpp` | sequences of characters. A writer per kind of value (`DumpObj`, `DumpArr`, `DumpString`, ...), which takes the texts of the parts; the reader as recursive functions of the place where it stands (`Body`, `Items`) and of how deep values lie in each other (`Values`). A reader that throws gives `Throws` |
| `BigIntText` | the text of a BigInt and of the SeriesVM that holds two | EXTENDS `BigInt` and `JsonText`: the limb array with its decimal mirror; `Restart` loads both registers from their text |
| `MC*` | | constants of the runs |
| `Recursion` | | induction and recursion over the naturals, with sets and functions for parameters; what the proofs about recursive functions rest on |
| `RefineProofs` | | theorems of `Refine` and `SeriesCheckpoint` |
| `CacheProofs` | | theorems of `LruDigitCache` and `CachedDigitSource` |
| `NumberProofs` | | theorems of `Number` and `Precision`, the two parts of `number.hpp` |
| `ArithProofs`, `CursorProofs` | | theorems of the module named |
| `BigIntProofs` | | theorems of `BigInt`, `JsonText` and `BigIntText` |
| `AutomatonProofs` | | theorems of `Automaton`, its three machines and `Codec` |

`CachedDigitSource` is composed from the cache, `Refine` from the series,
`SeriesCheckpoint` from `Refine`, `BigIntText` from integers and JSON,
`Automaton` from the machines and the codec. `Number` abstracts `Refine`, `Arith`
and the machines to their places, `Cursor` abstracts the machines to a step
function and JSON to objects, and `Refine` and `Arith` take integers as exact,
which is what `BigInt` shows; `SeriesCheckpoint` takes their text as exact, which
is what `BigIntText` shows.

## 3. Runs

| run | question | instance |
|---|---|---|
| `RefineSound` | are digits true, final and delivered | ln 2 (positive terms), five bases, every interleaving of plain and eager calls |
| `RefineCertificates` | are the tail bounds bounds, also of a machine that was saved and resumed | all five series, bases 2 and 3, saves between calls and restarts anywhere |
| `LruCache` | is the cache an LRU cache | capacity 3, five indices, two digits |
| `Source` | does a cached source serve its stream | capacity 2, five indices, pending at any time |
| `NumberShared` | does a careful client see values | three numbers, all tiers, two bases, two places each, results as operands, compared and rendered, pending at any read |
| `PrecisionScopes` | nesting and isolation of scopes | two tasks on two threads, four context objects, depth 3 |
| `ArithSound` | is arithmetic honest | all reduced fractions with denominators up to 4, base 2, four operations, operands that pend at any read, x up to three digits ahead |
| `Machines` | are the automata exact | rationals periodic, mixed, terminating, with q = 0; p-adic fractions of both signs; seven radicands; reprojections between bases 2 and 3 |
| `CursorResume` | are checkpoints exact | two values, 8-valued registers of which half are negative as `int64_t`, trees of depth 2 |
| `BigIntSound` | is limb arithmetic exact, is its text | 2-bit limbs, up to four of them, ten operands, three exponents; a plain name and one that needs escapes, every prefix of each text |
| `RefineFalseDigit` (violation) | is the interval honest for an alternating series | 1/e in base 2 |
| `NumberFork` (violation) | are forks independent | series numbers that were read from |

**What the bounds leave in.** `Refine`: three counts end a behaviour
(`MaxTerms`, `MaxDigits`, the step budgets). TLC has 32-bit integers, so the
terms stop where the rationals do; the budgets 2 and 3 make "pending" and the
resumed call common, which with 4096 would never be seen. `Value` is a rational
that stands for the constant to within the deepest tail. `MaxTerms` is an
environment bound: `RefineTerm` is not enabled beyond it. Caches have fewer
slots than indices, so that eviction, re-insertion and pending after
eviction all happen. `Arith`: `ZeroRun` is 2 for 64. Fractions whose expansion
has two zeros before another digit are kept out of `ArithSound` on purpose (see
section 6, `MCGap`); `OperandLimit` 512 and `MaxRefineIters` 3 are both reached.
`MaxPulls` bounds the digits read of y and `MaxAhead` by how many x may lead, both environment bounds of `Pull`; a lead
of 3 passes `ZeroRun`, so that x is taken to have ended while y is digits behind (4 and
2 give no other verdict).
`Machines`: `SafetyBound` 7 is above each period, `Word` and the square of
`SqrtHalf` above each product, and `ProjectScale` 1000 lets a reprojection happen
at several depths; they are lowered in section 6. `Cursor`: 3 reads, any chain of
operations, `MaxDepth` 2 so that an inner base is overridden.
`BigInt`: results within 90, that is 4 limbs, both division paths. The text is
asked about where a floored division has left a number in both registers, since
each such state parses every prefix of two texts; `Depth` is a two-figure index.
`RefineCertificates`: three digits, of which a restart repeats up to three from
deeper sums. `NumberShared`: `MaxPos` 2 counts the reads of a stream in any
base, `Counts` 2 lets a comparison tie, differ or pend in its first and in its second turn,
and `MaxPasses` 1 means at most one full pass of a stream in an operation, and the read of
x before y pends, so that pendings leave x up to two ahead; the theorems are for any
bounds. The three objects are interchangeable (`MCSymmetry`), which is sound as they are
named nowhere but in the heap, and the properties quantify over them.

`CHECK_DEADLOCK FALSE` is used where a client has nothing left to ask within the
bounds (`Refine`, `Arith`, `Number`).

**Fairness.** `Refine!FairSpec` has WF of `LoopStep`, since a loop runs once
entered, and of `NextDigit`, since the property is about a client that repeats
the call after "pending" (the text of `refine.hpp` tells callers to).
`Arith!FairSpec` has WF of `Next` for the same two reasons; that an operand
pends for ever is an escape named in `TerminatingAnswered`. Nothing else has
fairness: no other component has a loop that outlives a call.

## 4. What the checks show

- **Extraction is sound exactly when the series adds positive terms.**
  `Encloses` holds for ln 2 at each depth and `NoFalseDigit`, `DigitsStand` and
  the refinement of `DigitStream` follow. For 1/e, pi/4 and Catalan's constant
  the partial sum passes above the value, `Encloses` fails, and `NoFalseDigit`
  fails with it. The bounds themselves are right (`TailCertificate`), two-sided;
  it is `sync_interval` that uses one side.
- **The LRU cache and its source are right**, with one limit that
  `UnansweredWasEvicted` states: an index whose digit was evicted is never
  answered again, the source says "pending".
- **Value semantics depends on the client.** Under `FreshOnly` all that a program
  does with Numbers implements `ValueStore`: series numbers are copied, forked and
  rebased only before their first digit, an arithmetic result is used as an
  operand once, as a temporary, and the two operands of an expression or a
  comparison have one base. An arithmetic result that is combined, compared or rendered
  is a temporary of that expression, and gone after it: the copies a comparison works
  on share its stream. Nested expressions are sound for such a client, and so are
  comparisons of results in any tier. Otherwise copies share a stream, and two
  expressions over one result take digits from each other (section 6).
- **A pending leaves operands apart, and that is harmless.** A stream keeps what it
  read: x stays ahead of a y that pended, by one more each time. `OperandsUnshared`
  says what survives: every digit read of either operand is in its box. `Arith` shows
  that boxes of different depth still give true digits.
- **Comparisons that meet no pending are true** (`NoFalseVerdict`). After a pending,
  `definitely_less_than` and `compare` say so; `agrees_with` returns false, also of
  equal numbers (section 6).
- **A restarted series machine is exact but forgets its digits.** The accumulators
  loaded are the exact sum of the terms counted (`SumsTheSeries`), whichever of
  the two savers wrote them. The new extractor starts again at the first digit,
  over deeper sums; for e and ln 2 it repeats what was given before
  (`DigitsAgree`), for the alternating series it may not, since a false digit
  depends on the depth it is read at.
- **A text is either whole or refused.** What `to_json` writes loads as it was,
  escapes and limbs included, with text before and after it; each proper prefix of
  it is refused, although the parser reads literals by their length and
  missing digits as 0 (`LoadsWhatWasSaved`).
- **A reprojection is a lower bound** of what the source still holds, short of it by
  less than a unit of its last place and the tail cut off, while both products
  fit 64 bits.
- **Arithmetic is sound** on operands in the base of the result with no long
  inner run of zeros, through operands that pend at any read, in any order, and stay
  at different depths for good.
- **The automata are exact within their word**, and cursors, numbers and resolved
  expressions resume at the exact digit. Copies and texts hand the count of digits read
  on ("position", "emitted"). Two operations start it anew: a cursor or number built from a
  config, and the second half of `Number::fork`, which never gets `emitted_`
  (`number.hpp:371-378`): its text says 0 where the first half's says how many were read.

## 5. What is proved

Eight modules. Each theorem is for every value of the constants that satisfies the
assumptions of its module, and where it needs more of them than the code
guarantees, the hypothesis is an operator named in the theorem.

**`Recursion`.** The induction theorems of the library take an operator for a
parameter. Here they are stated with sets and functions instead: a set that holds
0 and is closed under successor is all of `Nat`; a recursive function on `Nat`
satisfies its equation; one that recurs on a measure does; a function iterated
over a finite set runs into a cycle no longer than the set. Recursive *functions*
can so be reasoned about, and the modules below write recursion that way.

**`RefineProofs`.** `TypeCorrect` rests on `TypeInv` (TypeOK, the digits counted,
the scale synced). What a series holds after n terms is `Num(s, n) / Den(s, n)`, by
recursion on n; `SeriesInv` ties the registers of a running machine to it.

- *Digits stand.* `CommittedDigitsStand`, for e and ln 2: `StandInv` says that
  `[SyncLo, SyncHi]` stays in [0, den) once a digit is committed. It is inductive
  because each term narrows the interval into the one before it (`ENarrows`,
  `Ln2Narrows`), and a commit leaves one cell of width den (`CommitCell`,
  `CommitBounds`). e's second step widens the interval from [1, 3] to [2, 4];
  `ECommitsLate` shows that no digit can be committed before it.
- *Enclosure.* `Value` is a rational that stands for the constant. `Converges(s)`
  says that it agrees with the series as far as `MaxTerms[s]` terms can tell: for e and
  ln 2 that it lies in the deepest interval (and e is at most 3), for the
  alternating three that the last two partial sums stand on its two sides and the
  tail bound covers it. It is TRUE of the tables of `MCRefine`. By induction back from
  the deepest interval it lies in each of them (`Narrows`), and for alternating
  series from the terms, which shrink and change sign (`Shrinks`, `Ahead`,
  `PiFits`). Hence `PositiveSeriesEnclose`, `NoFalseDigitOfPositiveSeries`,
  `PositiveSeriesImplementStream` (value below 1, digits that fit the word) and
  `TailsCertify` for all five. `NoFalseDigitIfEnclosed` and `ImplementsStreamIfEnclosed`
  assume `[]Encloses` and nothing of the series.
- *Checkpoints.* `TextInv`: the text is an earlier state of the same machine, no
  deeper than the current one. `AgreeInv`: the digits handed out are the digits
  of the value, whichever extractor read them; so `RestartRepeatsDigits`, which the
  program can only observe as "the same digits again". `CheckpointTypeCorrect` and
  `ResumedTailsCertify` carry the earlier results over to the specification with
  restarts. `BoundsShrink`: no term but the first makes a tail bound larger.
  `AccumulatorsSum`: the accumulators are the sum of the first terms as the definition
  of the constant has them, where every division on the common denominator is
  exact.

Of `big_pow` the proofs use `PowAssumption` alone, facts of powers that TLC evaluates
up to the bounds.

**`CacheProofs`.** `LruInv`: the list has no duplicates, its elements are the
map's keys and its length the map's size. Splice, push and pop are shown to keep
that (`SplicePermutes`, `PushFront`, `PopBack`), and `LruCoherent`, `LruBounded`,
`LruReadsLastPut` follow. `RecentInv` adds that the history has no duplicates and the
list is its front: a splice moves the same index to the front of both
(`UseMovesToFront`), and what falls off the list is past the capacity in the history;
so `LruKeepsRecency`. `SourceInv` adds that each cached digit is the
stream's and below `produced`, whence `SourceServesTheStream`; and
`SourceImplementsCache` shows that every step of the source is one of the cache
or leaves it alone. With `Remembered` (each index produced is in the history) an index
that is produced and not in the cache is past the capacity: `UnansweredDigitsWereEvicted`.

**`NumberProofs`, precision.** Under `Disciplined` (one task per thread, no object
entered twice) and for any nesting: each open block's guard saved what the blocks
outside ask for (`GuardsSaved`) and no two open blocks share an object
(`GuardsUnshared`).
`InScope` alone is not inductive: an exit reads `prev` of an object that another
block could have overwritten. The action property `PrecisionRestored` follows
from the same invariant. Section 6 shows that both halves of `Disciplined` are
needed.

**`AutomatonProofs`.** One invariant per machine, over every operation of it.

- *Rationals.* `RationalInv`: digits gone by and remainder make up the number, by the
  identity of long division for a step and by periodicity of remainders for a
  skip. Hypotheses `Narrow` (q * base < 2^64, which the code assumes and does not check)
  and `Searched` (the cycle search ends within `SafetyBound`;
  `SmallDenominatorsSearched`: it does for denominators up to it). Results
  `RationalNeverDrifts`, `RationalTypeCorrect`, `VerdictsAreTrue`.
- *p-adics.* `PAdicInv`: a - prefix * b is divisible by the power of p, so the division
  in `step` is exact. `mod_inverse` is shown right by the invariant of Euclid's
  algorithm (`ModInverseInverts`). Hypotheses `Checked` (no base that divides b) and, for
  periods alone, `PSearched` (`SmallResiduesSearched`). Results `PAdicNeverDrifts`,
  `MetricIsValuation`, `PeriodsAreFound`.
- *Square roots.* `SqrtInv`: P is the integer root of the scaled radicand and R what
  it leaves, which bounds the digit search; `SqrtFits` says how wide the words must
  be for the scale reached, and `MulSmallIs` that the product by half words is the
  product. Result `SqrtStaysExact`.
- *Reprojection.* `Projected`: what is gathered is the digits gone by, and the
  rational machine run over it is the one above. Under `ProjectionFits`,
  `ReprojectionsAreHonest`.

Each hypothesis and invariant was evaluated by TLC on the instance of `Machines`, where
they hold; section 6 shows what happens without them.

**`NumberProofs`, numbers.** Under `FreshOnly` (a careful client, section 4). The invariant is
`Good`: the `Shape` of the heap (which cells are shared by whom), `InStep` (each operand
stands where it was captured plus the digits its stream records, however the calls ended),
and each object in use at the place the history has for it; with it goes that no comparison
answered falsely. A pull of one leaf moves that leaf (`LeafPulled`), a call of a stream the
two operands and what lies below them (`OperandMoves`, `CallsMove`), each of them by as much
as `taken` counts, and nothing else: `Stable`, which composes (`StableTwice`). So a step that
pends in the middle needs no case of its own. What a comparison or a rendering leaves is the
heap it began with, less its copies and its temporaries. From the invariant follow
`NumbersAreValues`, `DigitsInTheirBase`, `StreamsReadAlone`, `ComparisonsAreTrue`, the
action property of `ReadingMovesNothing` and the refinement
`NumberImplementsValues`: each step of `Number` is one of `ValueStore` or a stutter.

**`CursorProofs`.** For any machine (`Digit` and `After` any functions), registers and
trees: every live value stands where the reads since its seed put it, and each text
holds such a state; a cast to `int64_t` and back loses nothing. `MachinesResume`,
`CursorsSeeNext`.

**`ArithProofs`.** Hypotheses `OneBase` (operands in the base of the result) and
`RunsEnd` (a run of `ZeroRun` zeros is an operand's end). `BoxInv`: after k digits a
box has denominator base^k, holds the digits read, and is one unit wide, or
collapsed after `ZeroRun` zeros. `FractionInv`: the interval carried between calls holds
what the digits leave of the exact result; `NoFalseDigit` alone is not inductive, since a
call recomputes the interval from the boxes less what was emitted. Results
`DigitsAreTrue`, `OperandsStayEnclosed`, `RestStaysEnclosed`, `ArithNeverAborts`;
`FirstDigitsAreTrue` has no `RunsEnd`, for results read less deep than `ZeroRun`.
`OperandsNeverShrink` has neither hypothesis: `ShapesInv` says no more of a box than its
denominator and the lead of x, and a box just read has neighbours for ends, in whatever
base its operand was made, so that no power of the base divides both (`Neighbours`).

**`BigIntProofs`.** For limbs of any width, magnitudes of any length, any operands and
exponents, and any chain of operations and restarts: `IInv` says that both registers are
canonical and that `ValueOf(reg) = exact`. It is inductive by itself; the work is in the operators. Every loop of the source is a
`Loop`, whose passes `LoopRuns` gives, and `Val` is the number a sequence of limbs stands
for.

- *Limbs.* A magnitude of n limbs is below the power n of the base and, without a leading
  zero, no less than the power n - 1; so `cmp_mag` compares numbers and equal
  numbers have equal limbs (`Comparison`).
- *Loops.* `Addition`, `Subtraction` and `Multiplication` carry an equation along their
  loop: the limbs written, plus what is carried or borrowed times the power reached, are
  the sum, difference or partial product so far. `RowCarryBounded` shows that a row of
  `mul_mag` leaves its word neither in a product nor in a carry, and `RowAdds` that the
  carry out of a row falls on a limb that is still 0, so that `acc[i + b.size()] += carry`
  stays a limb.
- *Division.* Short division and restoring division are long division in the bases 2^w
  and 2 (`Schoolbook`): `ShortDivides`, `LongDivides`. For the latter, doubling and
  taking in a bit by `shl1` and `set_bit` is 2r + bit (`ShiftTakesBit`), and the
  bits of the quotient, gathered in limbs, are its value (`Regroup`).
- *Signs.* `DivModDivides` truncates, `FloorDivDivides` floors, with the correction
  of the quotient exactly where the remainder has the wrong sign.
- *Powers and divisors.* `PowerRaises` keeps result times b^exp through the squarings;
  `EuclidDivides` is Euclid's algorithm, by induction on the second argument.

- *Text.* `InFiguresStep`: dividing by ten lowers a magnitude, so `to_string` ends, and the
  figures it puts before the last are those of the quotient. `OneMoreFigure`: `from_string`
  takes in one more figure as 10n + figure. Hence `TextReadsBack`, by induction on the
  value; for the limbs, `from_limbs` strips nothing from a canonical magnitude.

The parser is proved about in two parts, for texts of any characters.

- *Where it stops.* Whatever is read without a throw ends after it starts and within the
  text (`Ends`, `Forward`), but that an integer may be empty and a literal run past the end. `Same`
  says that what ends within a beginning of a text is read of the whole text as of the
  beginning; it goes from characters through strings, lists and members to
  `ParseValue` and, by induction on the depth, to `Values`. An object ends in its
  brace, so an object read of a beginning would be read of the whole text with the same
  end, short of where the whole text's ends: `CutTextRefused`. This is why
  a cut text is refused although literals are skipped by their length.
- *What it reads.* `Stands(s, p, u)`: the text u stands in s at p. `Yields(s, f, u, v)`:
  wherever it does and no figure follows, f reads it there as v and stops behind it.
  `StringReads` is by induction on the characters left, `DecimalReads` by
  induction on the figures before the last, `ListReads` on the parts left; `ArrayYields` and
  `ObjectYields` compose them, and `IntegerYields` and `MachineYields` say it of
  what `to_json` writes. A value lies at most as deep as its text is
  long, so `Parse` looks deep enough (`MachineReadsBack`).
- *Restarts.* A restart is then a step that leaves both registers as they were
  (`RestartHolds`), so `IInv` is an invariant of `TextSpec`, and `TextCorrect` follows from
  it: `LoadsWhatWasSaved` holds for any limbs, depth and names.

Results `TypeCorrect`, `ValueCorrect`, `DivisionCorrect`, `GcdCorrect`, `TextReadsBack`,
`CutTextRefused`, `StringReads`, `DecimalReads`, `ArrayYields`, `ObjectYields`, `TextCorrect`. `TextAssumption`
says that names are texts without a zero byte, at which the reader takes a text to end. `PowAssumption`
gives the operator `^`, which the prover does not know, its values; TLC evaluates it.

**Model-checked only.** Liveness, and whatever rests on ENABLED: `EveryDigitCommits`,
`TerminatingAnswered`. The prover has no rules for fairness. Every other property of a passing
run is stated by a theorem.

## 6. Where the code and its documentation disagree

Two are runs of the project. The others come out of the same modules by editing a
cfg as shown; in each, TLC finds the property violated.

| cfg and edit | property | documentation |
|---|---|---|
| `RefineFalseDigit` | NoFalseDigit | `refine.hpp:9-12` "interval-honest ... rather than a false definite digit" |
| `NumberFork` | ValueSemantics | `docs/number_hpp.md:179` "two independent continuations of the same stream" |
| `RefineFalseDigit`, `Specs` one of 1/e, pi/4, catalan | Encloses | `refine.hpp:49`; `constants.hpp:319-324` "brackets the value regardless of the omitted term's sign" |
| `RefineFalseDigit`, `Specs = {"e"}`, `Bases = {10}` | DigitsInRange | `number.hpp:124` "fractional value in [0,1)": the first digit of e is 27 |
| `RefineCertificates` | TailMonotone | `series.hpp:47` "must be monotone non-increasing": the crude first bounds are not |
| `LruCache`, `Capacity = 0` | BoundedByCapacity | `memo.hpp:20-21` "Bounded to capacity entries": one is kept |
| `Source` | PendingIsHonest | `memo.hpp:74` "propagates an honest pending from the producer": also pending after eviction |
| `NumberFork` | ReadingIsPure | `docs/number_hpp.md:213-214` non-destructive comparisons |
| `NumberFork` | NoFalseVerdict | `number.hpp:10-11` "never a false definite answer" |
| `NumberShared` | NoFalseDisagreement | `docs/number_hpp.md:95-96` "No predicate ever returns a false definite answer", `number.hpp:10-11`: `agrees_with` returns false of equal numbers when a digit is pending (`number.hpp:494`); `docs/number_hpp.md:206-207` says so |
| `NumberFork`, `Tiers = {"automaton", "arith"}` | OperandsUnshared | `number.hpp:275-276` "independent forks": the operands of `s * s`, or of two expressions over `s = a + b`, share the stream of `s` |
| `NumberFork`, `Bases = {2, 3}` | ReadsInItsBase | `number.hpp:334` "base as projection": after the first digit a series number goes on in the old base |
| `NumberFork`, `Tiers = {"automaton", "arith"}`, `Bases = {2, 3}` | ReadsInItsBase | the same: `in_base` of an arithmetic result changes nothing |
| `RefineCertificates` | RestartAgrees | `json.hpp:10-11` "a deserialized VM resumes byte-identically": the machine does, but the digits read from it after a restart can differ from those read before, for 1/e, pi/4 and catalan |
| `PrecisionScopes`, `Reenter = TRUE` | RestoredOnExit | `nam_py.cpp:34` "restores the prior precision" |
| `PrecisionScopes`, `ThreadOf <- MCOneThread` | NothingLeaks | `number.hpp:46` "no hidden state leaking across scopes", for tasks that share a thread |
| `ArithSound`, `Values <- MCGap`, `Ops = {"Add"}`, `MaxDigits = 4` | NoFalseDigit | `arith.hpp:5-6`: a run of inner zeros is taken for the end |
| `ArithSound`, `Values <- MCMixed`, `Ops = {"Add"}` | NoFalseDigit | `number.hpp:270` "Never emits a false digit": the digits of an operand in another base are read in the base of the result |
| `ArithSound` | PendingIsHonest | `arith.hpp:171-173`: a small divisor "needs refinement", and the call ends |
| `ArithSound` | TerminatedStaysSmall | `arith.hpp:423-429`: `hi = lo + 1` is never divisible, so nothing is stripped before the collapse, and each later read undoes the collapse; theorem `OperandsNeverShrink` says so of all operands, in any base |
| `Machines`, `SafetyBound = 2` | RationalExact | `skip.hpp:25-27`: a search that stops at its bound is read as "remainder 0 forever" |
| `Machines`, `Word = 16` | RationalExact | `number.hpp:418-419`: `r * base` wraps |
| `Machines`, `Checked = FALSE` | PAdicExact | `number_space.hpp:47-48`: `in_base` to a p that divides b |
| `Machines`, `SqrtHalf = 16` | SqrtExact | `docs/algebraic_hpp.md:81-83`: P outgrows its word |
| `Machines`, `Word = 16`, `Gens = {"sqrt"}` | ReprojectionTrue | `codec.hpp:40`: the gathered fraction wraps; `docs/codec_hpp.md:125-129` says so, the code does not report it |
| `BigIntSound` | ModSmallTrue | `big_int.hpp:181-182`: 48 bits of shift per 32-bit limb |

## 7. Not modelled

- `take`, `take_while`: they collect the digits of steps and keep no state;
  `mat_mul`, `mat_pow`, `BoundedInt::divmod`, `bit_width`, `floordiv` of
  `padic.hpp`: pure, without a caller that decides by them.
- The double of `padic_distance`: a function of the valuation, which is modelled.
- The digit cache of a `Number`: written, never read.
- An integer past 64 bits in a JSON text, where `strtoll` saturates: no writer of
  the library produces one; and a text that was edited rather than cut off.
- Formatting: `to_string` is modelled by the digits it reads.
- The Python and WebAssembly wrappers other than their precision contexts: each
  forwards a call and converts its result. `precision_context` of `nam.js`
  restores in a `finally`, which for an async callback runs when the promise is
  returned and not when it settles; `Precision` has blocks that nest, not
  promises.
- `abi.h`: declarations. The web pages and `build-wasm/`: user interface and
  generated code. A native-code backend and an ABI that `docs/` describe without
  code.

## 8. Plan

1. Done: the core modules; checkpoints of the series tier and their text, arithmetic on
   arithmetic results and changes of base in `Number`, `ValueStore` and its refinement,
   reprojection, `mul_small` by half words, expression trees.
2. Done: the theorems of section 5.
3. Done: the reader of `JsonText` as recursive functions, and the proof that a text is
   read back as it was written or refused.
