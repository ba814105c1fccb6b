------------------------------- MODULE Number -------------------------------
(***************************************************************************)
(* number.hpp: the user-facing Number and its copies.  A Number is a value *)
(* type with a pointer inside: an automaton number owns its state, but a   *)
(* series number, once its first digit has been pulled, reads from a       *)
(* DigitExtractor behind a shared_ptr, and an arithmetic result reads from *)
(* an ArithStream behind one from the start.  The copy constructor copies  *)
(* the pointer, and every operation that makes a copy inherits that.       *)
(*                                                                         *)
(* A digit is known by its place: its base, and how many digits were read  *)
(* before it in each base (see ValueStore).  All numbers of an instance    *)
(* stand for one fraction x, so that they differ only in base and in how   *)
(* far they have been read.  A stream may be pending at any call, and what *)
(* it did before stays done: an ArithStream that got a digit of x and none *)
(* of y keeps x ahead.                                                     *)
(***************************************************************************)
EXTENDS Integers, FiniteSets, FiniteSetsExt

CONSTANTS
  Objects,      \* the Numbers of the client
  TmpA, TmpB,   \* the local copies of a reading operation
  Null,         \* a null shared_ptr, and a Number not yet constructed
  Tiers,        \* the tiers the client uses
  Bases,        \* the digit bases
  Fraction,     \* <<p, q>>, the number x = p/q whose digits are read
  MaxPos,       \* bound: digits read of any stream
  Skips,        \* the n of skip(n)
  Counts,       \* the digit counts of reading operations
  MaxPasses,    \* bound: passes of one stream over its operands in an operation
  FreshOnly     \* TRUE for a careful client: it copies only numbers it has
                \* not read from; an arithmetic result that it combines,
                \* compares or renders is a temporary and not used again;
                \* it does not mix bases

ASSUME TiersAssumption == Tiers \subseteq {"automaton", "series", "arith"}
ASSUME CountsAssumption ==
  /\ Skips \subseteq Nat /\ Counts \subseteq Nat /\ MaxPos \in Nat
  /\ MaxPasses \in Nat
  /\ Bases \subseteq Nat \ {0, 1}
  /\ Fraction \in Nat \X (Nat \ {0}) /\ FreshOnly \in BOOLEAN
(* The two operands an ArithStream has captured are Numbers of their own.  *)
Sides == {"x", "y"}
Operand(o, side) == <<o, side>>
Operands == Objects \X Sides

ASSUME NamesAssumption ==
  /\ TmpA \notin Objects /\ TmpB \notin Objects /\ TmpA # TmpB
  /\ Null \notin Objects /\ Null # TmpA /\ Null # TmpB
  /\ Operands \intersect (Objects \cup {TmpA, TmpB, Null}) = {}

Slots == Objects \cup {TmpA, TmpB} \cup Operands

(* A Number, the stream behind a shared_ptr, a place. *)
Records == [tier : {"automaton", "series", "arith"}, base : Bases,
            read : [Bases -> Nat], shared : Slots \cup {Null}]
Streams == [base : Bases, count : Nat, settled : BOOLEAN, taken : [Sides -> Nat]]
Places == [base : Bases, read : [Bases -> Nat]]

ASSUME NullAssumption == Null \notin Records /\ Null \notin Streams /\ Null \notin Places

VARIABLES
  number,       \* the Numbers: tier, base(), digits read of an automaton's
                \* state_, shared_ptr
  cell,         \* the stream behind each shared_ptr: its base, the digits it
                \* gave; of an ArithStream, whether its integer part is
                \* settled and the digits its boxes hold of each operand.  A
                \* stream is named after the Number that allocated it
  ideal,        \* history: the place a value type would read next; for an
                \* operand, the place at which it was captured
  verdict       \* of the comparison just made: what it said, what it should say

vars == <<number, cell, ideal, verdict>>

Unread == [b \in Bases |-> 0]
Start(b) == [base |-> b, read |-> Unread]
Beyond(place, n) == [place EXCEPT !.read[place.base] = @ + n]

(* The digit at a place: the digits read before it multiply x by their     *)
(* bases, in any order, and take the integer part out.                     *)
DigitAt(place) ==
  LET shift == MapThenFoldSet(LAMBDA a, b : a * b, 1,
                              LAMBDA b : b ^ place.read[b], LAMBDA S : CHOOSE b \in S : TRUE,
                              Bases)
  IN  (place.base * ((Fraction[1] * shift) % Fraction[2])) \div Fraction[2]

Born(o) == number[o] # Null
Fresh(t, b) == [tier |-> t, base |-> b, read |-> Unread, shared |-> Null]
Stream(b) == [base |-> b, count |-> 0, settled |-> FALSE, taken |-> [side \in Sides |-> 0]]
NoVerdict == [said |-> "pending", ideal |-> "pending"]

Init == /\ number = [o \in Slots |-> Null]
        /\ cell = [o \in Slots |-> Null]
        /\ ideal = [o \in Slots |-> Null]
        /\ verdict = NoVerdict

-----------------------------------------------------------------------------
(* Pulling digits, on the heap h = [number, cell].                         *)

heap == [number |-> number, cell |-> cell]

(* The place of the digit the next pull from o returns. *)
Place(h, o) ==
  LET n == h.number[o]
      c == h.cell[n.shared]
  IN  IF n.tier = "automaton" THEN [base |-> n.base, read |-> n.read]
      ELSE IF n.shared = Null THEN Start(n.base)  \* series_ is never advanced
      ELSE Beyond(Start(c.base), c.count)

(* The extractor is made on the first pull, over a fork of series_ and in  *)
(* the base of series_ at that moment.                                     *)
Allocated(h, o) ==
  IF h.number[o].tier = "series" /\ h.number[o].shared = Null
  THEN [number |-> [h.number EXCEPT ![o].shared = o],
        cell |-> [h.cell EXCEPT ![o] = Stream(h.number[o].base)]]
  ELSE h

(* n digits of an automaton or series number. *)
Drawn(h, o, n) ==
  IF h.number[o].tier = "automaton"
  THEN [h EXCEPT !.number[o].read[h.number[o].base] = @ + n]
  ELSE LET g == Allocated(h, o) IN [g EXCEPT !.cell[g.number[o].shared].count = @ + n]

(* The heaps after a Number o was pulled from: it gave n digits, and was   *)
(* pending at one pull more, if pends.  An automaton never is; a series    *)
(* has its extractor from then on.                                         *)
LeafPulls(h, o, n, pends) ==
  IF n = 0 /\ ~pends THEN {h}
  ELSE IF pends /\ h.number[o].tier = "automaton" THEN {}
  ELSE {Drawn(h, o, n)}

(* How a call of an ArithStream ends: with a digit or the integer part; or *)
(* pending, at the read of x, or at the read of y that comes after it, or  *)
(* by itself: boxes that cannot be combined, a budget spent.               *)
Ends == {"given", "x", "y", "itself"}

Recorded(h, s, n, i, j, settled) ==
  [h EXCEPT !.cell[s] = [base |-> h.cell[s].base, count |-> h.cell[s].count + n,
                         settled |-> settled,
                         taken |-> [h.cell[s].taken EXCEPT !["x"] = @ + i, !["y"] = @ + j]]]

(* The heaps after a stream s gave n digits and its last call ended in e.  *)
(* Each pass of its loops takes a digit of x and then one of y; how many   *)
(* passes there are depends on the operands and may be any number here,    *)
(* and the integer part is settled before the first digit.                 *)
StreamCalls(PullsOf(_, _, _, _), h, s, n, e) ==
  UNION {LET ahead == IF e = "y" THEN k + 1 ELSE k
             ofX == PullsOf(h, Operand(s, "x"), ahead, e = "x")
             ofBoth == UNION {PullsOf(g, Operand(s, "y"), k, e = "y") : g \in ofX}
         IN  {Recorded(g, s, n, ahead, k, settled) :
                g \in ofBoth,
                settled \in {b \in BOOLEAN : h.cell[s].settled \/ n > 0 => b}} :
         k \in {k \in 0..MaxPasses : h.cell[s].taken["x"] + k < MaxPos}}

(* Bound: an operand may be an arithmetic result, its operands may not.    *)
LeafCalls(h, s, n, e) == StreamCalls(LeafPulls, h, s, n, e)

OperandPulls(h, o, n, pends) ==
  IF n = 0 /\ ~pends THEN {h}
  ELSE IF h.number[o].tier = "arith"
  THEN UNION {LeafCalls(h, h.number[o].shared, n, e) : e \in {e \in Ends : pends <=> e # "given"}}
  ELSE LeafPulls(h, o, n, pends)

Calls(h, s, n, e) == StreamCalls(OperandPulls, h, s, n, e)

Pulls(h, o, n, pends) ==
  IF n = 0 /\ ~pends THEN {h}
  ELSE IF h.number[o].tier = "arith"
  THEN UNION {Calls(h, h.number[o].shared, n, e) : e \in {e \in Ends : pends <=> e # "given"}}
  ELSE LeafPulls(h, o, n, pends)

Count(place) == MapThenSumSet(LAMBDA b : place.read[b], Bases)

SetHeap(h) ==
  /\ \A o \in Slots : h.number[o] # Null => Count(Place(h, o)) <= MaxPos    \* bound
  /\ number' = h.number
  /\ cell' = h.cell

(* An arithmetic result that has become an operand.  A careful client does *)
(* not use it again: it was a temporary of an expression.                  *)
Lent(o) ==
  /\ number[o].tier = "arith"
  /\ \E c \in Operands : Born(c) /\ number[c].shared = number[o].shared

InUse(o) == Born(o) /\ (FreshOnly => ~Lent(o))

(* A careful client copies an automaton number at any time and a series    *)
(* number before its first digit.                                          *)
MayCopy(o) ==
  /\ InUse(o)
  /\ FreshOnly => \/ number[o].tier = "automaton"
                  \/ number[o].tier = "series" /\ number[o].shared = Null

(* It combines, compares and renders those, and arithmetic results.        *)
MayTake(o) == MayCopy(o) \/ (InUse(o) /\ number[o].tier = "arith")

MayTakeBoth(x, y) ==
  /\ MayTake(x) /\ MayTake(y)
  /\ FreshOnly => /\ number[x].base = number[y].base
                  /\ x = y => number[x].tier # "arith"

(* Bound: the operands of an operand are no arithmetic results.            *)
Flat(o) ==
  number[o].tier = "arith" =>
    \A side \in Sides : number[Operand(number[o].shared, side)].tier # "arith"

(* Bound: digits pulled from o. *)
InBounds(o, n) == /\ Count(ideal[o]) + n <= MaxPos
                  /\ Count(Place(heap, o)) + n <= MaxPos

-----------------------------------------------------------------------------
(* Constructors *)

Construct(o, t, b) ==
  /\ ~Born(o) /\ t \in Tiers \ {"arith"}
  /\ number' = [number EXCEPT ![o] = Fresh(t, b)]
  /\ ideal' = [ideal EXCEPT ![o] = Start(b)]
  /\ UNCHANGED cell /\ verdict' = NoVerdict

CombineXTwice(x, y, o) ==               \* mutant: y_ built over a copy of x
  /\ "arith" \in Tiers
  /\ ~Born(o) /\ Born(x) /\ Born(y) /\ MayTakeBoth(x, y) /\ Flat(x) /\ Flat(y)
  /\ number' = [number EXCEPT ![Operand(o, "x")] = number[x],
                              ![Operand(o, "y")] = number[x],
                              ![o] = [Fresh("arith", number[x].base) EXCEPT !.shared = o]]
  /\ cell' = [cell EXCEPT ![o] = Stream(number[x].base)]
  /\ ideal' = [ideal EXCEPT ![Operand(o, "x")] = ideal[x],
                            ![Operand(o, "y")] = ideal[y],
                            ![o] = Start(ideal[x].base)]
  /\ verdict' = NoVerdict

(* Number::combine captures copies of both operands in a new ArithStream,  *)
(* in the base of the left one.                                            *)
Combine(x, y, o) ==
  /\ "arith" \in Tiers
  /\ ~Born(o) /\ Born(x) /\ Born(y) /\ MayTakeBoth(x, y) /\ Flat(x) /\ Flat(y)
  /\ number' = [number EXCEPT ![Operand(o, "x")] = number[x],
                              ![Operand(o, "y")] = number[y],
                              ![o] = [Fresh("arith", number[x].base) EXCEPT !.shared = o]]
  /\ cell' = [cell EXCEPT ![o] = Stream(number[x].base)]
  /\ ideal' = [ideal EXCEPT ![Operand(o, "x")] = ideal[x],
                            ![Operand(o, "y")] = ideal[y],
                            ![o] = Start(ideal[x].base)]
  /\ verdict' = NoVerdict

Derived(o, c, copy, place) ==
  /\ ~Born(c)
  /\ number' = [number EXCEPT ![c] = copy]
  /\ ideal' = [ideal EXCEPT ![c] = place]
  /\ UNCHANGED cell /\ verdict' = NoVerdict

(* The copy constructor, and streaming and cached, which set fields of the *)
(* copy that no digit depends on.                                          *)
CopyTo(o, c) == MayCopy(o) /\ Derived(o, c, number[o], ideal[o])

InBaseSeriesOnly(o, c, b) ==            \* mutant: space_ is not rebound
  /\ MayCopy(o)
  /\ Derived(o, c,
             IF number[o].tier # "series" THEN number[o] ELSE [number[o] EXCEPT !.base = b],
             [ideal[o] EXCEPT !.base = b])

(* in_base: the base of space_, or of series_.  An extractor that exists   *)
(* keeps its base, and nothing reads series_.base of an arithmetic result. *)
InBase(o, c, b) ==
  /\ MayCopy(o)
  /\ Derived(o, c,
             IF number[o].tier = "arith" THEN number[o] ELSE [number[o] EXCEPT !.base = b],
             [ideal[o] EXCEPT !.base = b])

ForkRestart(o, a, b) ==                 \* mutant: fork forgets the state_ copy
  /\ MayCopy(o) /\ ~Born(a) /\ ~Born(b) /\ a # b
  /\ number' = [number EXCEPT ![a] = number[o],
                              ![b] = IF number[o].tier = "arith" THEN number[o]
                                     ELSE Fresh(number[o].tier, number[o].base)]
  /\ ideal' = [ideal EXCEPT ![a] = ideal[o], ![b] = ideal[o]]
  /\ UNCHANGED cell /\ verdict' = NoVerdict

(* fork: the first half is a copy; the second gets the automaton's state,  *)
(* or series_.fork() without an extractor, or the same ArithStream.        *)
Fork(o, a, b) ==
  /\ MayCopy(o) /\ ~Born(a) /\ ~Born(b) /\ a # b
  /\ number' = [number EXCEPT ![a] = number[o],
                              ![b] = IF number[o].tier = "series"
                                     THEN Fresh("series", number[o].base) ELSE number[o]]
  /\ ideal' = [ideal EXCEPT ![a] = ideal[o], ![b] = ideal[o]]
  /\ UNCHANGED cell /\ verdict' = NoVerdict

(* skip(n): a copy whose rational state is n digits on; nullopt for the    *)
(* other tiers.                                                            *)
Skip(o, c, n) ==
  /\ Born(o) /\ number[o].tier = "automaton"
  /\ InBounds(o, n)
  /\ Derived(o, c, [number[o] EXCEPT !.read[number[o].base] = @ + n], Beyond(ideal[o], n))

-----------------------------------------------------------------------------
(* Reading *)

NextDigit(o) ==
  /\ InUse(o) /\ InBounds(o, 1)
  /\ \E h \in Pulls(heap, o, 1, FALSE) : SetHeap(h)
  /\ ideal' = [ideal EXCEPT ![o] = Beyond(@, 1)]
  /\ verdict' = NoVerdict

(* A pending: no digit, but the extractor is there from now on, and what   *)
(* an ArithStream read of its operands stays read.                         *)
NextDigitPending(o) ==
  /\ InUse(o)
  /\ \E h \in Pulls(heap, o, 0, TRUE) : SetHeap(h)
  /\ UNCHANGED ideal /\ verdict' = NoVerdict

(* integer_part reads operands too until it has settled, and gives no      *)
(* digit.  The other tiers answer 0.                                       *)
IntegerPart(o) ==
  /\ InUse(o) /\ number[o].tier = "arith"
  /\ LET s == number[o].shared
     IN  /\ ~cell[s].settled
         /\ \E e \in Ends : \E h \in Calls(heap, s, 0, e) :
               /\ h.cell[s].settled = (e = "given")
               /\ SetHeap(h)
  /\ UNCHANGED ideal /\ verdict' = NoVerdict

(* The reading operations work on local copies and drop them at the end.   *)
(* A copy of an arithmetic result reads its stream, as the result itself.  *)
Reader(o, tmp) == IF number[o].tier = "arith" THEN o ELSE tmp

Copied(h, o, tmp) ==
  IF number[o].tier = "arith" THEN h ELSE [h EXCEPT !.number[tmp] = number[o]]

WithCopies(x, y) == Copied(Copied(heap, x, TmpA), y, TmpB)

(* A temporary dies then too, with all it holds. *)
Held(o) == {o, Operand(o, "x"), Operand(o, "y")}

Tree(o) ==
  LET nested == {c \in Held(o) \ {o} : number[c].tier = "arith"}
  IN  Held(o) \cup UNION {Held(number[c].shared) : c \in nested}

Gone(S) ==
  {TmpA, TmpB} \cup UNION {Tree(o) : o \in {t \in S : FreshOnly /\ number[t].tier = "arith"}}

Without(f, gone) == [o \in Slots |-> IF o \in gone THEN Null ELSE f[o]]

Dropped(h, gone) == [number |-> Without(h.number, gone), cell |-> Without(h.cell, gone)]

(* to_string(n) and digit_histogram(n) pull up to n digits of one copy and *)
(* stop when it is pending.                                                *)
AfterReading(x, n) ==
  LET pulled == UNION {Pulls(WithCopies(x, x), Reader(x, TmpA), k, k < n) : k \in 0..n}
      gone == Gone({x})
  IN  {Dropped(h, gone) : h \in pulled}

ReadInPlace(o, n) ==                    \* mutant: digits pulled from *this
  /\ MayTake(o)
  /\ \E k \in 0..n : \E h \in Pulls(heap, o, k, k < n) : SetHeap(Dropped(h, Gone({o})))
  /\ ideal' = Without(ideal, Gone({o}))
  /\ verdict' = NoVerdict

Read(o, n) ==
  /\ MayTake(o)
  /\ \E h \in AfterReading(o, n) : SetHeap(h)
  /\ ideal' = Without(ideal, Gone({o}))
  /\ verdict' = NoVerdict

OrderTieIsLess(da, db) == IF da <= db THEN "less" ELSE "greater"   \* mutant

Order(da, db) == IF da = db THEN "equal" ELSE IF da < db THEN "less" ELSE "greater"

(* One turn of a comparison of a with b: a digit of each, and the outcome: *)
(* "pending" as soon as either has none.                                   *)
Turns(r, a, b) ==
  LET pulled(h, o, pends) == Pulls(h, o, IF pends THEN 0 ELSE 1, pends)
      outcome(h, pa, pb) ==
        IF pa \/ pb THEN "pending"
        ELSE Order(DigitAt(Place(r.heap, a)), DigitAt(Place(h, b)))
  IN  UNION {UNION {{[heap |-> g, said |-> outcome(h, pa, pb)] : g \in pulled(h, b, pb)} :
                    h \in pulled(r.heap, a, pa)} :
             pa \in BOOLEAN, pb \in BOOLEAN}

(* The digit loop of definitely_less_than, compare and agrees_with, over   *)
(* two copies: until a difference, a pending, or the digit count, when the *)
(* outcome is still "equal".                                               *)
Comparisons(x, y, n) ==
  LET runs[k \in 0..n] ==
        IF k = 0 THEN {[heap |-> WithCopies(x, y), said |-> "equal"]}
        ELSE UNION {IF r.said = "equal" THEN Turns(r, Reader(x, TmpA), Reader(y, TmpB)) ELSE {r} :
                    r \in runs[k - 1]}
      gone == Gone({x, y})
  IN  {[r EXCEPT !.heap = Dropped(@, gone)] : r \in runs[n]}

(* What the digits of the two values say. *)
IdealOrder(x, y, n) ==
  LET da(k) == DigitAt(Beyond(ideal[x], k))
      db(k) == DigitAt(Beyond(ideal[y], k))
      differ == {k \in 0..(n - 1) : da(k) # db(k)}
  IN  IF differ = {} THEN "equal" ELSE Order(da(Min(differ)), db(Min(differ)))

Compare(x, y, n) ==
  /\ MayTakeBoth(x, y)
  /\ \E r \in Comparisons(x, y, n) :
       /\ SetHeap(r.heap)
       /\ verdict' = [said |-> r.said, ideal |-> IdealOrder(x, y, n)]
  /\ ideal' = Without(ideal, Gone({x, y}))

-----------------------------------------------------------------------------
MakeStep ==
  \E o, c \in Objects :
    \/ \E t \in Tiers, b \in Bases : Construct(o, t, b)
    \/ CopyTo(o, c)
    \/ \E b \in Bases : InBase(o, c, b)
    \/ \E d \in Objects : Fork(o, c, d) \/ Combine(o, c, d)
    \/ \E n \in Skips : Skip(o, c, n)

PullStep == \E o \in Objects : NextDigit(o) \/ NextDigitPending(o) \/ IntegerPart(o)

ReadStep == \E o, c \in Objects, n \in Counts : Read(o, n) \/ Compare(o, c, n)

Next == MakeStep \/ PullStep \/ ReadStep

Spec == Init /\ [][Next]_vars

-----------------------------------------------------------------------------
(* Properties *)

(* Value semantics: the next digit of a Number depends on what was done    *)
(* with that Number alone, never on what was done with its copies, its     *)
(* forks, its operands, or by a comparison or a rendering it took part in. *)
ValueSemantics == \A o \in Objects : InUse(o) => Place(heap, o).read = ideal[o].read

(* The next digit of a Number is one of the base that was asked for, at    *)
(* construction, by in_base or of the left operand, and base() says so     *)
(* (number.hpp: "base as projection").                                     *)
ReadsInItsBase ==
  \A o \in Objects : InUse(o) =>
    /\ Place(heap, o).base = ideal[o].base
    /\ number[o].base = ideal[o].base

(* Nobody else reads the streams an ArithStream holds: each operand stands *)
(* where it was captured, plus the digits this stream took of it into its  *)
(* box (number.hpp: "Capture independent forks so operand consumption does *)
(* not mutate the caller's numbers").  A pending may leave x further on    *)
(* than y, but every digit of either is in its box, however deep the       *)
(* expression.                                                             *)
OperandsUnshared ==
  \A o \in Objects, side \in Sides :
    LET c == Operand(o, side)
    IN  Born(c) => Place(heap, c) = Beyond(ideal[c], cell[o].taken[side])

(* Comparisons and renderings are non-destructive (docs/number_hpp.md:     *)
(* "operate on forked copies so they are non-destructive"): they move no   *)
(* Number that the client still has.                                       *)
ReadingIsPure ==
  [][ReadStep => \A o \in Objects : InUse(o)' => Place(heap', o) = Place(heap, o)]_vars

(* definitely_less_than and compare answer "less" and "greater"; either is *)
(* true.  agrees_with answers true after n equal digits; that is true also *)
(* (number.hpp: "never a false definite answer").                          *)
NoFalseVerdict == verdict.said # "pending" => verdict.said = verdict.ideal

(* agrees_with answers false in every other case: that would be true, if   *)
(* it were never so of numbers whose digits agree (docs/number_hpp.md: "No *)
(* predicate ever returns a false definite answer").  It is so after a     *)
(* pending, which agrees_with has no way to report.                        *)
AgreesWith(said) == said = "equal"
NoFalseDisagreement == verdict.ideal = "equal" => AgreesWith(verdict.said)

(* The Numbers a careful client uses are values: all that it does with     *)
(* them is a behaviour of the store of values, where pulling moves one     *)
(* number by one place and comparing and rendering move none.              *)
Values == INSTANCE ValueStore WITH
            values <- [o \in Objects |-> IF InUse(o) THEN Place(heap, o) ELSE Null]
ImplementsValues == Values!Spec
=============================================================================
