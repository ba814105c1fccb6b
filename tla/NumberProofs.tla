---------------------------- MODULE NumberProofs ----------------------------
(***************************************************************************)
(* The Numbers of a careful client are values, for any number of them, any *)
(* bases and however many digits are read of them.                         *)
(***************************************************************************)
EXTENDS Number, Precision, Recursion, SequenceTheorems

Careful == FreshOnly

Heaps == [number : [Slots -> Records \cup {Null}],
          cell : [Slots -> Streams \cup {Null}]]

Has(h, c) == h.number[c] # Null
Arith(h, c) == Has(h, c) /\ h.number[c].tier = "arith"
Ops(s) == {Operand(s, "x"), Operand(s, "y")}

-----------------------------------------------------------------------------
(* The shape of a heap.  A leaf, automaton or series, has a stream of its  *)
(* own or none; an arithmetic result is an object with a stream of its own *)
(* and two operands; an operand that is an arithmetic result shares the    *)
(* stream of the object it was, no other operand does, and its operands    *)
(* are leaves.                                                             *)

LeafOK(h, c) ==
  LET n == h.number[c] IN
  /\ n.tier = "automaton" => n.shared = Null
  /\ n.tier = "series" =>
       /\ n.read = Unread
       /\ n.shared \in {Null, c}
       /\ n.shared = c => h.cell[c] \in Streams /\ h.cell[c].base = n.base

ResultOK(h, c) ==
  LET s == h.number[c].shared IN
  Arith(h, c) =>
    /\ s \in Objects /\ Arith(h, s) /\ h.number[s].shared = s
    /\ h.cell[s] \in Streams /\ h.cell[s].base = h.number[c].base

Shape(h) ==
  /\ h \in Heaps
  /\ \A c \in Slots : Has(h, c) => LeafOK(h, c) /\ ResultOK(h, c)
  /\ ~Arith(h, TmpA) /\ ~Arith(h, TmpB)
  /\ \A s \in Objects :
       /\ Arith(h, s) => h.number[s].shared = s
       /\ \A c \in Ops(s) : Has(h, c) <=> Arith(h, s)
  /\ \A c, d \in Operands :
       Arith(h, c) /\ Arith(h, d) /\ h.number[c].shared = h.number[d].shared => c = d
  /\ \A c \in Operands :
       Arith(h, c) => \A d \in Ops(h.number[c].shared) : ~Arith(h, d)

(* What pulling leaves alone: no Number comes or goes, none changes tier   *)
(* or base, and outside of S nothing changes at all.                       *)
Stable(h, g, S) ==
  /\ Shape(g)
  /\ \A c \in Slots :
       /\ Has(g, c) <=> Has(h, c)
       /\ Has(h, c) => /\ g.number[c].tier = h.number[c].tier
                       /\ g.number[c].base = h.number[c].base
       /\ Arith(h, c) => g.number[c] = h.number[c]
       /\ c \notin S => g.number[c] = h.number[c] /\ g.cell[c] = h.cell[c]

\* Stability composes.
LEMMA StableTwice ==
  ASSUME NEW h, NEW g, NEW k, NEW S, NEW T, Stable(h, g, S), Stable(g, k, T)
  PROVE  Stable(h, k, S \cup T)
  BY DEF Stable, Arith

\* Two counts of digits add up.
LEMMA BeyondTwice ==
  ASSUME NEW p \in Places, NEW m \in Nat, NEW n \in Nat
  PROVE  /\ Beyond(p, m) \in Places /\ Beyond(p, 0) = p
         /\ Beyond(p, m).base = p.base
         /\ Beyond(Beyond(p, m), n) = Beyond(p, m + n)
  <1> DEFINE Moved(r, i) == [r EXCEPT ![p.base] = @ + i]
             At(i) == [base |-> p.base, read |-> Moved(p.read, i)]
  <1>1. /\ p.base \in Bases /\ p.read \in [Bases -> Nat]
        /\ p = [base |-> p.base, read |-> p.read]
    BY DEF Places
  <1>2. \A i \in Nat : /\ Moved(p.read, i) \in [Bases -> Nat]
                      /\ Beyond(p, i) = At(i)
    BY <1>1 DEF Beyond
  <1>3. Moved(p.read, 0) = p.read
    BY <1>1
  <1>4. Moved(Moved(p.read, m), n) = Moved(p.read, m + n)
    BY <1>1
  <1>5. Beyond(At(m), n) = [base |-> p.base, read |-> Moved(Moved(p.read, m), n)]
    BY <1>1 DEF Beyond
  <1> HIDE DEF Moved
  <1>6. m + n \in Nat
    OBVIOUS
  <1>7. At(m) \in Places /\ At(0) = p /\ At(m).base = p.base
    BY <1>1, <1>2, <1>3 DEF Places
  <1>8. Beyond(At(m), n) = At(m + n)
    BY <1>4, <1>5
  <1> HIDE DEF At
  <1> QED
    BY <1>2, <1>6, <1>7, <1>8

LEMMA PlaceTyped ==
  ASSUME NEW h, Shape(h), NEW c \in Slots, Has(h, c)
  PROVE  Place(h, c) \in Places /\ Place(h, c).base = h.number[c].base
  <1> DEFINE n == h.number[c]
  <1>1. n \in Records /\ LeafOK(h, c) /\ ResultOK(h, c)
    BY DEF Shape, Heaps, Has
  <1>2. Start(n.base) \in Places
    BY <1>1 DEF Start, Unread, Places, Records
  <1>3. CASE n.tier = "automaton"
    BY <1>1, <1>3 DEF Place, Records, Places
  <1>4. CASE n.tier = "series"
    <2>1. CASE n.shared = Null
      BY <1>1, <1>2, <1>4, <2>1 DEF Place, Start
    <2>2. CASE n.shared # Null
      <3>1. h.cell[n.shared] \in Streams /\ h.cell[n.shared].base = n.base
        BY <1>1, <1>4, <2>2 DEF LeafOK
      <3>2. Place(h, c) = Beyond(Start(n.base), h.cell[n.shared].count)
        BY <1>4, <2>2, <3>1 DEF Place
      <3> QED
        <4>1. h.cell[n.shared].count \in Nat
          BY <3>1 DEF Streams
        <4>2. Start(n.base).base = n.base
          BY DEF Start
        <4> DEFINE p == Start(n.base)
                   i == h.cell[n.shared].count
        <4>3. p \in Places /\ i \in Nat /\ Place(h, c) = Beyond(p, i) /\ p.base = n.base
          BY <1>2, <3>2, <4>1, <4>2
        <4> HIDE DEF p, i, n
        <4>4. Beyond(p, i) \in Places /\ Beyond(p, i).base = p.base
          BY <4>3, BeyondTwice
        <4> QED
          BY <4>3, <4>4 DEF n
    <2> QED
      BY <2>1, <2>2
  <1>5. CASE n.tier = "arith"
    <2>1. /\ h.cell[n.shared] \in Streams /\ h.cell[n.shared].base = n.base
          /\ n.shared # Null
      BY <1>1, <1>5, NamesAssumption DEF ResultOK, Arith, Has
    <2>2. Place(h, c) = Beyond(Start(n.base), h.cell[n.shared].count)
      BY <1>5, <2>1 DEF Place
    <2> QED
      BY <1>2, <2>1, <2>2, BeyondTwice DEF Streams, Start
  <1> QED
    BY <1>1, <1>3, <1>4, <1>5 DEF Records

\* A Number whose slot and whose stream are untouched stays where it is.
LEMMA PlaceKept ==
  ASSUME NEW h, NEW g, NEW S, Shape(h), Stable(h, g, S),
         NEW c \in Slots \ S, Has(h, c), Arith(h, c) => h.number[c].shared \notin S
  PROVE  Place(g, c) = Place(h, c)
  <1>1. /\ g.number[c] = h.number[c] /\ g.cell[c] = h.cell[c]
        /\ h.number[c] \in Records /\ LeafOK(h, c) /\ ResultOK(h, c)
    BY DEF Shape, Stable, Heaps, Has
  <1>2. CASE h.number[c].tier = "automaton"
    BY <1>1, <1>2 DEF Place
  <1>3. CASE h.number[c].tier = "series"
    BY <1>1, <1>3 DEF Place, LeafOK
  <1>4. CASE h.number[c].tier = "arith"
    <2>1. h.number[c].shared \in Slots \ S
      BY <1>1, <1>4 DEF ResultOK, Arith, Has, Slots
    <2>2. g.cell[h.number[c].shared] = h.cell[h.number[c].shared]
      BY <2>1 DEF Stable
    <2> QED
      BY <1>1, <1>4, <2>2 DEF Place
  <1> QED
    BY <1>1, <1>2, <1>3, <1>4 DEF Records

-----------------------------------------------------------------------------
(* What a change of one slot needs to keep the shape.                      *)

\* A leaf that stays a leaf, with a stream of its own or none.
LEMMA LeafChange ==
  ASSUME NEW h, Shape(h), NEW c \in Slots, Has(h, c), ~Arith(h, c),
         NEW n \in Records, NEW k \in Streams \cup {Null},
         n.tier = h.number[c].tier, n.base = h.number[c].base,
         LET g == [number |-> [h.number EXCEPT ![c] = n], cell |-> [h.cell EXCEPT ![c] = k]]
         IN  LeafOK(g, c)
  PROVE  LET g == [number |-> [h.number EXCEPT ![c] = n], cell |-> [h.cell EXCEPT ![c] = k]]
         IN  Stable(h, g, {c})
  <1> DEFINE g == [number |-> [h.number EXCEPT ![c] = n], cell |-> [h.cell EXCEPT ![c] = k]]
  <1>1. /\ h \in Heaps /\ n # Null
        /\ h.number[c] \in Records /\ h.number[c].tier # "arith"
    BY NullAssumption DEF Shape, Heaps, Has, Arith
  <1>2. /\ g \in Heaps
        /\ g.number[c] = n /\ g.cell[c] = k
        /\ \A d \in Slots \ {c} : g.number[d] = h.number[d] /\ g.cell[d] = h.cell[d]
    BY <1>1 DEF Heaps
  <1>3. LeafOK(g, c)
    OBVIOUS
  <1> HIDE DEF g
  <1>4. \A d \in Slots :
          /\ Has(g, d) <=> Has(h, d)
          /\ Has(h, d) => /\ g.number[d].tier = h.number[d].tier
                          /\ g.number[d].base = h.number[d].base
          /\ Arith(g, d) <=> Arith(h, d)
          /\ Arith(h, d) => g.number[d] = h.number[d]
    BY <1>1, <1>2 DEF Has, Arith
  <1>5. ASSUME NEW d \in Slots, Has(g, d) PROVE LeafOK(g, d) /\ ResultOK(g, d)
    <2>1. CASE d = c
      BY <1>3, <1>4, <2>1 DEF ResultOK
    <2>2. CASE d # c
      <3>1. LeafOK(h, d) /\ ResultOK(h, d) /\ Has(h, d)
        BY <1>4, <1>5 DEF Shape
      <3>2. LeafOK(g, d)
        BY <1>2, <2>2, <3>1 DEF LeafOK
      <3>3. ASSUME Arith(g, d) PROVE ResultOK(g, d)
        <4> DEFINE s == h.number[d].shared
        <4>1. /\ Arith(h, d) /\ s \in Slots /\ Arith(h, s) /\ s # c
              /\ g.number[d] = h.number[d]
          BY <1>4, <3>1, <3>3 DEF ResultOK, Slots
        <4>2. g.cell[s] = h.cell[s] /\ g.number[s] = h.number[s] /\ Arith(g, s)
          BY <1>2, <1>4, <4>1
        <4> QED
          BY <3>1, <4>1, <4>2 DEF ResultOK
      <3> QED
        BY <3>2, <3>3 DEF ResultOK
    <2> QED
      BY <2>1, <2>2
  <1>6. \A s \in Objects : Ops(s) \subseteq Operands
    BY DEF Ops, Operand, Operands, Sides
  <1>7. /\ \A s \in Objects :
             /\ Arith(g, s) => g.number[s].shared = s
             /\ \A d \in Ops(s) : Has(g, d) <=> Arith(g, s)
        /\ \A d, e \in Operands :
             Arith(g, d) /\ Arith(g, e) /\ g.number[d].shared = g.number[e].shared
               => d = e
    BY <1>4, <1>6 DEF Shape, Slots
  <1>8. ASSUME NEW d \in Operands, Arith(g, d), NEW e \in Ops(g.number[d].shared)
        PROVE  ~Arith(g, e)
    <2>1. Arith(h, d) /\ g.number[d] = h.number[d] /\ h.number[d].shared \in Objects
      BY <1>4, <1>8 DEF Shape, ResultOK, Slots, Arith
    <2>2. e \in Slots /\ ~Arith(h, e)
      BY <1>6, <1>8, <2>1 DEF Shape, Slots
    <2> QED
      BY <1>4, <2>2
  <1>9. Shape(g)
    BY <1>2, <1>4, <1>5, <1>7, <1>8 DEF Shape, Slots
  <1> QED
    BY <1>2, <1>4, <1>9 DEF Stable, g

\* A stream that stays in its base, of an object that is an arithmetic result.
LEMMA StreamChange ==
  ASSUME NEW h, Shape(h), NEW s \in Objects, Arith(h, s),
         NEW k \in Streams, k.base = h.cell[s].base
  PROVE  Stable(h, [h EXCEPT !.cell[s] = k], {s})
  <1> DEFINE g == [h EXCEPT !.cell[s] = k]
  <1>1. h \in Heaps /\ s \in Slots
    BY DEF Shape, Slots
  <1>2. /\ g \in Heaps /\ g.number = h.number /\ g.cell[s] = k
        /\ \A c \in Slots \ {s} : g.cell[c] = h.cell[c]
    BY <1>1 DEF Heaps
  <1> HIDE DEF g
  <1>3. \A c : (Has(g, c) <=> Has(h, c)) /\ (Arith(g, c) <=> Arith(h, c))
    BY <1>2 DEF Has, Arith
  <1>4. ASSUME NEW c \in Slots, Has(g, c) PROVE LeafOK(g, c) /\ ResultOK(g, c)
    <2>1. LeafOK(h, c) /\ ResultOK(h, c)
      BY <1>3, <1>4 DEF Shape
    <2>2. LeafOK(g, c)
      <3>1. CASE c = s
        BY <1>2, <3>1 DEF LeafOK, Arith
      <3>2. CASE c # s
        BY <1>2, <2>1, <3>2 DEF LeafOK
      <3> QED
        BY <3>1, <3>2
    <2>3. ASSUME Arith(h, c) PROVE ResultOK(g, c)
      <3>1. /\ h.number[c].shared \in Slots
            /\ g.cell[h.number[c].shared] \in Streams
            /\ g.cell[h.number[c].shared].base = h.cell[h.number[c].shared].base
        BY <1>2, <2>1, <2>3 DEF ResultOK, Slots
      <3> QED
        BY <1>2, <1>3, <2>1, <2>3, <3>1 DEF ResultOK
    <2> QED
      BY <1>3, <2>2, <2>3 DEF ResultOK
  <1>5. Shape(g)
    BY <1>2, <1>3, <1>4 DEF Shape
  <1> QED
    BY <1>2, <1>3, <1>5 DEF Stable, g

-----------------------------------------------------------------------------
(* Pulling leaves.                                                         *)

\* A record of a heap, field by field.
LEMMA HeapFields ==
  ASSUME NEW h \in Heaps, NEW c \in Slots, NEW n, NEW k
  PROVE  /\ h = [number |-> h.number, cell |-> h.cell]
         /\ [h EXCEPT !.number[c] = n]
              = [number |-> [h.number EXCEPT ![c] = n],
                 cell |-> [h.cell EXCEPT ![c] = h.cell[c]]]
         /\ [h EXCEPT !.cell[c] = k]
              = [number |-> [h.number EXCEPT ![c] = h.number[c]],
                 cell |-> [h.cell EXCEPT ![c] = k]]
  BY DEF Heaps

\* Allocating an extractor moves nothing: it reads from the same place.
LEMMA LeafAllocated ==
  ASSUME NEW h, Shape(h), NEW c \in Slots, Has(h, c), ~Arith(h, c)
  PROVE  /\ Stable(h, Allocated(h, c), {c})
         /\ Place(Allocated(h, c), c) = Place(h, c)
         /\ h.number[c].tier = "series" =>
              LET g == Allocated(h, c) IN
              g.number[c].shared = c /\ g.cell[c] \in Streams
  <1> DEFINE n == h.number[c]
             m == [n EXCEPT !.shared = c]
             k == Stream(n.base)
             g == [number |-> [h.number EXCEPT ![c] = m], cell |-> [h.cell EXCEPT ![c] = k]]
  <1>1. /\ h \in Heaps /\ n \in Records /\ LeafOK(h, c) /\ n.tier # "arith" /\ c # Null
        /\ h.cell[c] \in Streams \cup {Null}
    BY NamesAssumption DEF Shape, Heaps, Has, Arith, Slots
  <1>2. CASE n.tier = "series" /\ n.shared = Null
    <2>1. m \in Records /\ k \in Streams /\ m.tier = n.tier /\ m.base = n.base
          /\ m.shared = c /\ m.read = n.read /\ k.base = n.base /\ k.count = 0
      BY <1>1 DEF Records, Streams, Stream
    <2>2. g.number[c] = m /\ g.cell[c] = k
      BY <1>1 DEF Heaps
    <2> HIDE DEF m, k
    <2>3. LeafOK(g, c)
      BY <1>1, <1>2, <2>1, <2>2 DEF LeafOK
    <2>4. Stable(h, g, {c})
      BY <1>1, <2>1, <2>3, LeafChange
    <2>5. Allocated(h, c) = g
      BY <1>2 DEF Allocated, m, k
    <2>6. Start(n.base) \in Places
      BY <1>1 DEF Start, Unread, Places, Records
    <2>7. Place(h, c) = Start(n.base)
      BY <1>2 DEF Place
    <2>8. Place(g, c) = Beyond(Start(n.base), 0)
      BY <1>1, <1>2, <2>1, <2>2 DEF Place
    <2> HIDE DEF g
    <2> QED
      BY <2>1, <2>2, <2>4, <2>5, <2>6, <2>7, <2>8, BeyondTwice
  <1>3. CASE ~(n.tier = "series" /\ n.shared = Null)
    <2>1. Allocated(h, c) = h
      BY <1>3 DEF Allocated
    <2>2. Stable(h, h, {c})
      BY DEF Stable
    <2> QED
      BY <1>1, <1>3, <2>1, <2>2 DEF LeafOK
  <1> QED
    BY <1>2, <1>3

\* Pulls move the leaf they are made on by as many digits and nothing else.
LEMMA LeafDrawn ==
  ASSUME NEW h, Shape(h), NEW c \in Slots, Has(h, c), ~Arith(h, c), NEW i \in Nat
  PROVE  /\ Stable(h, Drawn(h, c, i), {c})
         /\ Place(Drawn(h, c, i), c) = Beyond(Place(h, c), i)
  <1> DEFINE n == h.number[c]
  <1>1. /\ h \in Heaps /\ n \in Records /\ LeafOK(h, c) /\ n.tier # "arith" /\ c # Null
        /\ h.cell[c] \in Streams \cup {Null}
    BY NamesAssumption DEF Shape, Heaps, Has, Arith, Slots
  <1>2. CASE n.tier = "automaton"
    <2> DEFINE m == [n EXCEPT !.read[n.base] = @ + i]
               k == h.cell[c]
               g == [number |-> [h.number EXCEPT ![c] = m], cell |-> [h.cell EXCEPT ![c] = k]]
    <2>1. /\ m \in Records /\ m.tier = n.tier /\ m.base = n.base /\ m.shared = n.shared
          /\ m.read = [n.read EXCEPT ![n.base] = @ + i]
      BY <1>1 DEF Records
    <2>2. g.number[c] = m /\ g.cell[c] = k
      BY <1>1 DEF Heaps
    <2>3. Drawn(h, c, i) = g
      BY <1>1, <1>2 DEF Drawn, Heaps
    <2> HIDE DEF m, k
    <2>4. LeafOK(g, c)
      BY <1>1, <1>2, <2>1, <2>2 DEF LeafOK
    <2>5. Stable(h, g, {c})
      BY <1>1, <2>1, <2>4, LeafChange DEF k
    <2>6. Place(h, c) = [base |-> n.base, read |-> n.read]
      BY <1>2 DEF Place
    <2>7. Place(g, c) = [base |-> n.base, read |-> [n.read EXCEPT ![n.base] = @ + i]]
      BY <1>2, <2>1, <2>2 DEF Place
    <2>8. Beyond(Place(h, c), i) = Place(g, c)
      BY <2>6, <2>7 DEF Beyond
    <2> QED
      BY <2>3, <2>5, <2>8
  <1>3. CASE n.tier = "series"
    <2> DEFINE f == Allocated(h, c)
               m == f.number[c]
               k == [f.cell[c] EXCEPT !.count = @ + i]
               g == [number |-> [f.number EXCEPT ![c] = m], cell |-> [f.cell EXCEPT ![c] = k]]
    <2>1. /\ Stable(h, f, {c}) /\ Place(f, c) = Place(h, c)
          /\ m.shared = c /\ f.cell[c] \in Streams
      BY <1>1, <1>3, LeafAllocated
    <2>2. /\ Shape(f) /\ f \in Heaps /\ Has(f, c) /\ m.tier = "series" /\ ~Arith(f, c)
          /\ LeafOK(f, c) /\ m \in Records
      BY <1>3, <2>1 DEF Stable, Shape, Heaps, Has, Arith
    <2>3. Drawn(h, c, i) = g
      BY <1>3, <2>1, <2>2 DEF Drawn, Heaps
    <2> HIDE DEF f
    <2>4. /\ k \in Streams /\ k.base = f.cell[c].base /\ k.count = f.cell[c].count + i
          /\ f.cell[c].count \in Nat
      BY <2>1 DEF Streams
    <2>5. g.number[c] = m /\ g.cell[c] = k
      BY <2>2 DEF Heaps
    <2> HIDE DEF k
    <2>6. LeafOK(g, c)
      BY <2>1, <2>2, <2>4, <2>5 DEF LeafOK
    <2>7. Stable(f, g, {c})
      BY <2>2, <2>4, <2>6, LeafChange
    <2>8. Stable(h, g, {c})
      BY <2>1, <2>7, StableTwice, {c} \cup {c} = {c}
    <2>9. Place(f, c) = Beyond(Start(f.cell[c].base), f.cell[c].count)
      BY <1>1, <2>1, <2>2 DEF Place
    <2>10. Place(g, c) = Beyond(Start(f.cell[c].base), f.cell[c].count + i)
      BY <1>1, <2>1, <2>2, <2>4, <2>5 DEF Place
    <2>11. Start(f.cell[c].base) \in Places
      BY <2>1 DEF Start, Unread, Places, Streams
    <2>12. Beyond(Place(f, c), i) = Place(g, c)
      BY <2>4, <2>9, <2>10, <2>11, BeyondTwice
    <2> QED
      BY <2>1, <2>3, <2>8, <2>12
  <1> QED
    BY <1>1, <1>2, <1>3 DEF Records

\* So does a pending pull after them, or none at all.
LEMMA LeafPulled ==
  ASSUME NEW h, Shape(h), NEW c \in Slots, Has(h, c), ~Arith(h, c),
         NEW i \in Nat, NEW pends, NEW g \in LeafPulls(h, c, i, pends)
  PROVE  Stable(h, g, {c}) /\ Place(g, c) = Beyond(Place(h, c), i)
  <1>1. CASE i = 0 /\ ~pends
    <2>1. g = h
      BY <1>1 DEF LeafPulls
    <2> QED
      BY <1>1, <2>1, PlaceTyped, BeyondTwice DEF Stable
  <1>2. CASE ~(i = 0 /\ ~pends)
    <2>1. g = Drawn(h, c, i)
      BY <1>2 DEF LeafPulls
    <2> QED
      BY <2>1, LeafDrawn
  <1> QED
    BY <1>1, <1>2

-----------------------------------------------------------------------------
(* Streams and their operands.                                             *)

(* Each operand of the stream s stands where it was captured, at pos, plus *)
(* the digits that the stream took of it.                                  *)
InStep(h, s, pos) ==
  \A side \in Sides :
    Place(h, Operand(s, side)) = Beyond(pos[Operand(s, side)], h.cell[s].taken[side])

\* Operands are told apart by the stream and the side, and are no objects.
LEMMA OperandNames ==
  /\ \A s, t \in Objects : \A c \in Ops(s) : c \in Ops(t) => s = t
  /\ \A s \in Objects : /\ Ops(s) \subseteq Operands
                        /\ Operand(s, "x") # Operand(s, "y")
  /\ \A s : \A side \in Sides : Operand(s, side) \in Ops(s)
  /\ \A c \in Operands : \E s \in Objects : c \in Ops(s)
  /\ \A c \in Operands : c \notin Objects /\ c # TmpA /\ c # TmpB /\ c # Null
  /\ Slots \ Operands = Objects \cup {TmpA, TmpB}
  BY NamesAssumption DEF Ops, Operand, Operands, Slots, Sides

(* The heap g is h, but the stream s gave n digits and took i of x and j   *)
(* of y.                                                                   *)
Marked(h, g, s, n, i, j) ==
  /\ Stable(h, g, {s})
  /\ g.number = h.number
  /\ h.cell[s].taken \in [Sides -> Nat]
  /\ g.cell[s].taken["x"] = h.cell[s].taken["x"] + i
  /\ g.cell[s].taken["y"] = h.cell[s].taken["y"] + j
  /\ \A c \in Slots : Has(h, c) =>
       Place(g, c) = IF Arith(h, c) /\ h.number[c].shared = s
                     THEN Beyond(Place(h, c), n) ELSE Place(h, c)

\* What is recorded of a call of a stream moves the Numbers that read from
\* it by the digits it gave, and no other.
LEMMA RecordedMoves ==
  ASSUME NEW h, Shape(h), NEW s \in Objects, Arith(h, s),
         NEW n \in Nat, NEW i \in Nat, NEW j \in Nat, NEW b, b \in BOOLEAN,
         NEW g, g = Recorded(h, s, n, i, j, b)
  PROVE  Marked(h, g, s, n, i, j)
  <1> DEFINE t == [h.cell[s].taken EXCEPT !["x"] = @ + i, !["y"] = @ + j]
             k == [base |-> h.cell[s].base, count |-> h.cell[s].count + n,
                   settled |-> b, taken |-> t]
  <1>1. /\ h \in Heaps /\ s \in Slots /\ h.number[s].shared = s
        /\ h.cell[s] \in Streams
    BY DEF Shape, Slots, ResultOK, Arith
  <1>2. /\ h.cell[s].taken \in [Sides -> Nat] /\ h.cell[s].count \in Nat
        /\ h.cell[s].base \in Bases
    BY <1>1 DEF Streams
  <1>3. /\ t \in [Sides -> Nat]
        /\ t["x"] = h.cell[s].taken["x"] + i /\ t["y"] = h.cell[s].taken["y"] + j
    BY <1>2 DEF Sides
  <1> HIDE DEF t
  <1>4. /\ k \in Streams /\ k.base = h.cell[s].base /\ k.count = h.cell[s].count + n
        /\ k.taken = t
    BY <1>2, <1>3 DEF Streams
  <1>5. g = [h EXCEPT !.cell[s] = k]
    BY DEF Recorded, t
  <1>6. /\ g.number = h.number /\ g.cell[s] = k
        /\ \A c \in Slots \ {s} : g.cell[c] = h.cell[c]
    BY <1>1, <1>5 DEF Heaps
  <1> HIDE DEF k
  <1>7. Stable(h, g, {s})
    BY <1>4, <1>5, StreamChange
  <1>8. ASSUME NEW c \in Slots, Has(h, c)
        PROVE  Place(g, c) = IF Arith(h, c) /\ h.number[c].shared = s
                             THEN Beyond(Place(h, c), n) ELSE Place(h, c)
    <2>1. LeafOK(h, c) /\ ResultOK(h, c) /\ h.number[c] \in Records
      BY <1>8 DEF Shape, Heaps, Has
    <2>2. CASE Arith(h, c) /\ h.number[c].shared = s
      <3>1. s # Null
        BY NamesAssumption
      <3>2. /\ Place(h, c) = Beyond(Start(h.cell[s].base), h.cell[s].count)
            /\ Place(g, c) = Beyond(Start(k.base), k.count)
        BY <1>6, <2>2, <3>1 DEF Place, Arith
      <3>3. Start(h.cell[s].base) \in Places
        BY <1>2 DEF Start, Unread, Places
      <3>4. \A p \in Places, a \in Nat : Beyond(Beyond(p, a), n) = Beyond(p, a + n)
        BY BeyondTwice
      <3>5. Beyond(Place(h, c), n) = Place(g, c)
        BY <1>2, <1>4, <3>2, <3>3, <3>4
      <3> QED
        BY <2>2, <3>5
    <2>3. CASE ~(Arith(h, c) /\ h.number[c].shared = s)
      <3>1. h.number[c].tier = "automaton" => Place(g, c) = Place(h, c)
        BY <1>6 DEF Place
      <3>2. CASE h.number[c].tier = "series"
        <4>1. h.number[c].shared \in {Null, c} /\ c # s
          BY <2>1, <3>2 DEF LeafOK, Arith
        <4> QED
          BY <1>6, <2>3, <3>2, <4>1 DEF Place
      <3>3. CASE h.number[c].tier = "arith"
        <4>1. h.number[c].shared \in Slots \ {s}
          BY <1>8, <2>1, <2>3, <3>3 DEF ResultOK, Arith, Slots
        <4> QED
          BY <1>6, <3>3, <4>1 DEF Place
      <3> QED
        BY <2>1, <2>3, <3>1, <3>2, <3>3 DEF Records
    <2> QED
      BY <2>2, <2>3
  <1> QED
    BY <1>2, <1>3, <1>4, <1>5, <1>6, <1>7, <1>8 DEF Marked

\* An operand that is an arithmetic result reads from a stream below it.
LEMMA Nested ==
  ASSUME NEW h, Shape(h), NEW c \in Operands, Arith(h, c)
  PROVE  LET i == h.number[c].shared IN
         /\ i \in Objects /\ Arith(h, i) /\ c \notin Ops(i)
         /\ \A d \in Ops(i) : ~Arith(h, d)
         /\ \A j \in Objects : c \in Ops(j) => i # j
  BY OperandNames DEF Shape, ResultOK, Slots, Arith

\* What a stream took of its operands is what it records.
LEMMA TakenKept ==
  ASSUME NEW h, Shape(h), NEW s \in Objects, Arith(h, s),
         NEW g, NEW S, Stable(h, g, S), s \notin S,
         NEW n \in Nat, NEW i \in Nat, NEW j \in Nat, NEW b, b \in BOOLEAN,
         Place(g, Operand(s, "x")) = Beyond(Place(h, Operand(s, "x")), i),
         Place(g, Operand(s, "y")) = Beyond(Place(h, Operand(s, "y")), j),
         NEW pos, \A c \in Ops(s) : pos[c] \in Places, InStep(h, s, pos)
  PROVE  InStep(Recorded(g, s, n, i, j, b), s, pos)
  <1>0. PICK k : k = Recorded(g, s, n, i, j, b)
    OBVIOUS
  <1> DEFINE m(side) == IF side = "x" THEN i ELSE j
             took(side) == h.cell[s].taken[side]
  <1>1. s \in Slots /\ g.cell[s] = h.cell[s] /\ Shape(g) /\ Arith(g, s)
    BY DEF Stable, Slots, Arith
  <1>2. Marked(g, k, s, n, i, j)
    BY <1>0, <1>1, RecordedMoves, Zenon
  <1>3. ASSUME NEW side \in Sides
        PROVE  Place(k, Operand(s, side)) = Beyond(pos[Operand(s, side)], k.cell[s].taken[side])
    <2> DEFINE c == Operand(s, side)
    <2>1. c \in Operands /\ c \in Slots /\ c \in Ops(s)
      BY OperandNames DEF Slots
    <2>2. took(side) \in Nat /\ m(side) \in Nat /\ k.cell[s].taken[side] = took(side) + m(side)
      BY <1>1, <1>2 DEF Sides, Marked
    <2>3. Place(h, c) = Beyond(pos[c], took(side)) /\ Place(g, c) = Beyond(Place(h, c), m(side))
      BY DEF InStep, Sides
    <2> HIDE DEF c, m, took
    <2>4. Has(g, c) /\ ~(Arith(g, c) /\ g.number[c].shared = s)
      BY <1>1, <2>1, Nested DEF Shape
    <2>5. Place(k, c) = Place(g, c)
      BY <1>2, <2>1, <2>4 DEF Marked
    <2>6. Beyond(Beyond(pos[c], took(side)), m(side)) = Beyond(pos[c], took(side) + m(side))
      BY <2>1, <2>2, BeyondTwice
    <2> QED
      BY <2>2, <2>3, <2>5, <2>6 DEF c
  <1> QED
    BY <1>0, <1>3 DEF InStep

\* The calls of a stream over leaves touch its own slot and its operands,
\* and record what they took of these.
LEMMA LeafCallsMove ==
  ASSUME NEW h, Shape(h), NEW s \in Objects, Arith(h, s), \A c \in Ops(s) : ~Arith(h, c),
         NEW pos, \A c \in Ops(s) : pos[c] \in Places,
         NEW n \in Nat, NEW e, NEW g \in LeafCalls(h, s, n, e)
  PROVE  /\ Stable(h, g, Ops(s) \cup {s})
         /\ InStep(h, s, pos) => InStep(g, s, pos)
         /\ \A c \in Slots \ Ops(s) : Has(h, c) =>
              Place(g, c) = IF Arith(h, c) /\ h.number[c].shared = s
                            THEN Beyond(Place(h, c), n) ELSE Place(h, c)
  <1> DEFINE c == Operand(s, "x")
             d == Operand(s, "y")
  <1>0. /\ c \in Slots /\ d \in Slots /\ c # d /\ Ops(s) = {c, d}
        /\ s \notin Ops(s) /\ Ops(s) \subseteq Operands
    BY OperandNames DEF Ops, Slots
  <1>1. PICK i, j, f, k, b :
               /\ i \in Nat /\ j \in Nat /\ b \in BOOLEAN
               /\ f \in LeafPulls(h, c, i, e = "x") /\ k \in LeafPulls(f, d, j, e = "y")
               /\ g = Recorded(k, s, n, i, j, b)
    <2>1. PICK j \in {j \in 0..MaxPasses : h.cell[s].taken["x"] + j < MaxPos} :
            g \in LET i == IF e = "y" THEN j + 1 ELSE j
                      ofX == LeafPulls(h, c, i, e = "x")
                      ofBoth == UNION {LeafPulls(f, d, j, e = "y") : f \in ofX}
                  IN  {Recorded(k, s, n, i, j, b) :
                         k \in ofBoth, b \in {a \in BOOLEAN : h.cell[s].settled \/ n > 0 => a}}
      BY DEF LeafCalls, StreamCalls
    <2> DEFINE i == IF e = "y" THEN j + 1 ELSE j
               ofX == LeafPulls(h, c, i, e = "x")
               ofBoth == UNION {LeafPulls(f, d, j, e = "y") : f \in ofX}
    <2>2. i \in Nat /\ j \in Nat
      OBVIOUS
    <2>3. PICK k \in ofBoth, b \in BOOLEAN : g = Recorded(k, s, n, i, j, b)
      BY <2>1
    <2>4. PICK f \in ofX : k \in LeafPulls(f, d, j, e = "y")
      OBVIOUS
    <2> HIDE DEF i, c, d
    <2> QED
      BY <2>2, <2>3, <2>4
  <1> HIDE DEF c, d
  <1>2. Has(h, c) /\ Has(h, d) /\ ~Arith(h, c) /\ ~Arith(h, d)
    BY <1>0 DEF Shape
  <1>3. Stable(h, f, {c}) /\ Place(f, c) = Beyond(Place(h, c), i)
    BY <1>0, <1>1, <1>2, LeafPulled
  <1>4. Shape(f) /\ Has(f, c) /\ Has(f, d) /\ ~Arith(f, c) /\ ~Arith(f, d)
    BY <1>0, <1>2, <1>3 DEF Stable, Arith
  <1>5. Stable(f, k, {d}) /\ Place(k, d) = Beyond(Place(f, d), j)
    BY <1>0, <1>1, <1>4, LeafPulled
  <1>6. Place(f, d) = Place(h, d)
    BY <1>0, <1>2, <1>3, PlaceKept
  <1>7. Place(k, c) = Place(f, c)
    BY <1>0, <1>4, <1>5, PlaceKept
  <1>8. Stable(h, k, Ops(s))
    <2>1. Stable(h, k, {c} \cup {d}) /\ {c} \cup {d} = {c, d}
      BY <1>3, <1>5, StableTwice
    <2> QED
      BY <1>0, <2>1
  <1>9. Shape(k) /\ Arith(k, s)
    BY <1>8 DEF Stable, Arith, Slots
  <1>10. Marked(k, g, s, n, i, j)
    BY <1>1, <1>9, RecordedMoves, Zenon
  <1>11. InStep(h, s, pos) => InStep(g, s, pos)
    BY <1>0, <1>1, <1>3, <1>5, <1>6, <1>7, <1>8, TakenKept DEF c, d
  <1>12. Stable(h, g, Ops(s) \cup {s})
    BY <1>8, <1>10, StableTwice DEF Marked
  <1>13. ASSUME NEW a \in Slots \ Ops(s), Has(h, a)
         PROVE  Place(g, a) = IF Arith(h, a) /\ h.number[a].shared = s
                              THEN Beyond(Place(h, a), n) ELSE Place(h, a)
    <2>1. Has(k, a) /\ k.number[a] = h.number[a]
      BY <1>8, <1>13 DEF Stable
    <2>2. Arith(h, a) => h.number[a].shared \notin Ops(s)
      BY <1>0, <1>13, OperandNames DEF Shape, ResultOK
    <2>3. Place(k, a) = Place(h, a)
      BY <1>8, <1>13, <2>2, PlaceKept
    <2> QED
      BY <1>10, <1>13, <2>1, <2>3 DEF Arith, Has, Marked
  <1> QED
    BY <1>11, <1>12, <1>13

-----------------------------------------------------------------------------
(* Pulling one operand, and a pass over both, whatever their tiers.        *)

(* What a pull from the operand c touches. *)
Feet(h, c) ==
  {c} \cup IF Arith(h, c) THEN {h.number[c].shared} \cup Ops(h.number[c].shared) ELSE {}

Captured(h, pos) == \A c \in Operands : Has(h, c) => pos[c] \in Places

\* The two operands of a stream touch nothing in common and not the stream.
LEMMA FeetApart ==
  ASSUME NEW h, Shape(h), NEW s \in Objects, NEW c \in Ops(s), Has(h, c)
  PROVE  /\ Feet(h, c) \subseteq Operands \cup Objects /\ s \notin Feet(h, c)
         /\ \A d \in Ops(s) : Has(h, d) /\ d # c => Feet(h, c) \cap Feet(h, d) = {}
  <1>0. Ops(s) \subseteq Operands /\ Operands \cap Objects = {}
    BY OperandNames
  <1>1. ASSUME NEW d \in Ops(s), Arith(h, d)
        PROVE  LET i == h.number[d].shared IN
               /\ i \in Objects /\ i # s /\ Ops(i) \subseteq Operands
               /\ Ops(i) \cap Ops(s) = {}
    BY <1>0, <1>1, Nested, OperandNames
  <1>2. Feet(h, c) \subseteq Operands \cup Objects /\ s \notin Feet(h, c)
    BY <1>0, <1>1 DEF Feet
  <1>3. ASSUME NEW d \in Ops(s), Has(h, d), d # c
        PROVE  Feet(h, c) \cap Feet(h, d) = {}
    <2> DEFINE i == h.number[c].shared
               j == h.number[d].shared
    <2>1. ASSUME Arith(h, c), Arith(h, d) PROVE i # j /\ Ops(i) \cap Ops(j) = {}
      <3>1. i # j
        BY <1>0, <1>3, <2>1 DEF Shape
      <3> QED
        BY <1>1, <1>3, <2>1, <3>1, OperandNames
    <2>2. Arith(h, c) => i \in Objects /\ Ops(i) \subseteq Operands /\ Ops(i) \cap Ops(s) = {}
      BY <1>1
    <2>3. Arith(h, d) => j \in Objects /\ Ops(j) \subseteq Operands /\ Ops(j) \cap Ops(s) = {}
      BY <1>1, <1>3
    <2> HIDE DEF i, j
    <2> QED
      BY <1>0, <1>3, <2>1, <2>2, <2>3 DEF Feet, i, j
  <1> QED
    BY <1>2, <1>3

\* Pulls move the operand they are made on by as many digits, and every
\* stream it is no operand of still records what it took.
LEMMA OperandMoves ==
  ASSUME NEW h, Shape(h), NEW c \in Operands, Has(h, c), NEW pos, Captured(h, pos),
         NEW n \in Nat, NEW pends, NEW g \in OperandPulls(h, c, n, pends)
  PROVE  /\ Stable(h, g, Feet(h, c))
         /\ Place(g, c) = Beyond(Place(h, c), n)
         /\ \A j \in Objects :
              Arith(h, j) /\ c \notin Ops(j) /\ InStep(h, j, pos) => InStep(g, j, pos)
  <1> DEFINE i == h.number[c].shared
  <1>0. /\ c \in Slots /\ Place(h, c) = Beyond(Place(h, c), 0)
        /\ \A j \in Objects : Ops(j) \subseteq Operands /\ Ops(j) \subseteq Slots
    <2>1. c \in Slots
      BY DEF Slots
    <2> QED
      BY <2>1, OperandNames, PlaceTyped, BeyondTwice DEF Slots
  <1>1. CASE n = 0 /\ ~pends
    <2>1. g = h
      BY <1>1 DEF OperandPulls
    <2> QED
      BY <1>0, <1>1, <2>1 DEF Stable
  <1>2. CASE ~(n = 0 /\ ~pends)
    <2>1. /\ Stable(h, g, Feet(h, c)) /\ Place(g, c) = Beyond(Place(h, c), n)
          /\ Arith(h, c) => (InStep(h, i, pos) => InStep(g, i, pos))
      <3>1. CASE Arith(h, c)
        <4>1. /\ i \in Objects /\ Arith(h, i) /\ c \notin Ops(i)
              /\ \A d \in Ops(i) : ~Arith(h, d)
          BY <3>1, Nested
        <4>2. \A d \in Ops(i) : pos[d] \in Places
          BY <1>0, <4>1 DEF Captured, Shape
        <4>3. PICK e : g \in LeafCalls(h, i, n, e)
          BY <1>2, <3>1 DEF OperandPulls, Arith
        <4> HIDE DEF i
        <4>4. /\ Stable(h, g, Ops(i) \cup {i})
              /\ InStep(h, i, pos) => InStep(g, i, pos)
              /\ \A a \in Slots \ Ops(i) : Has(h, a) =>
                   Place(g, a) = IF Arith(h, a) /\ h.number[a].shared = i
                                 THEN Beyond(Place(h, a), n) ELSE Place(h, a)
          BY <4>1, <4>2, <4>3, LeafCallsMove
        <4>5. /\ Stable(h, g, Ops(i) \cup {i})
              /\ InStep(h, i, pos) => InStep(g, i, pos)
              /\ Place(g, c) = IF Arith(h, c) /\ h.number[c].shared = i
                               THEN Beyond(Place(h, c), n) ELSE Place(h, c)
          BY <1>0, <4>1, <4>4
        <4>6. Feet(h, c) = {c} \cup ({i} \cup Ops(i))
          BY <3>1 DEF Feet, i
        <4>7. Stable(h, g, Feet(h, c))
          BY <4>5, <4>6 DEF Stable
        <4> QED
          BY <3>1, <4>5, <4>7 DEF i
      <3>2. CASE ~Arith(h, c)
        <4>1. g \in LeafPulls(h, c, n, pends)
          BY <1>2, <3>2 DEF OperandPulls, Arith
        <4>2. Feet(h, c) = {c}
          BY <3>2 DEF Feet
        <4>3. Stable(h, g, {c}) /\ Place(g, c) = Beyond(Place(h, c), n)
          BY <1>0, <3>2, <4>1, LeafPulled
        <4> QED
          BY <3>2, <4>2, <4>3
      <3> QED
        BY <3>1, <3>2
    <2>2. ASSUME NEW j \in Objects, Arith(h, j), c \notin Ops(j), InStep(h, j, pos)
          PROVE  InStep(g, j, pos)
      <3>1. CASE Arith(h, c) /\ j = i
        BY <2>1, <2>2, <3>1
      <3>2. CASE ~(Arith(h, c) /\ j = i)
        <4>1. /\ j \notin Feet(h, c) /\ Ops(j) \cap Feet(h, c) = {}
              /\ \A d \in Ops(j) : Arith(h, d) => h.number[d].shared \notin Feet(h, c)
          <5>1. Arith(h, c) => i \in Objects
            BY Nested
          <5>2. \A d \in Ops(j) : Arith(h, d) => h.number[d].shared \in Objects
            BY <1>0, Nested
          <5>3. \A d \in Ops(j) : Arith(h, d) /\ Arith(h, c) => h.number[d].shared # i
            BY <1>0, <2>2 DEF Shape
          <5> QED
            BY <1>0, <2>2, <3>2, <5>1, <5>2, <5>3, OperandNames DEF Feet
        <4>2. g.cell[j] = h.cell[j]
          BY <2>1, <4>1 DEF Stable, Slots
        <4>3. ASSUME NEW d \in Ops(j) PROVE Place(g, d) = Place(h, d)
          <5>1. Has(h, d) /\ d \in Slots \ Feet(h, c)
            BY <1>0, <2>2, <4>1 DEF Shape
          <5> QED
            BY <2>1, <4>1, <5>1, PlaceKept
        <4> QED
          BY <2>2, <4>2, <4>3, OperandNames DEF InStep
      <3> QED
        BY <3>1, <3>2
    <2> QED
      BY <2>1, <2>2
  <1> QED
    BY <1>1, <1>2

(* The objects that operands read from: see Lent. *)
LentIn(h) ==
  {o \in Objects : Arith(h, o) /\ \E c \in Operands : Arith(h, c) /\ h.number[c].shared = o}

(* What is not an object in use. *)
Below(h) == Operands \cup LentIn(h)

\* Whatever pulls do, the same objects are lent.
LEMMA LentKept ==
  ASSUME NEW h, NEW g, NEW S, Stable(h, g, S)
  PROVE  /\ LentIn(g) = LentIn(h) /\ Below(g) = Below(h)
         /\ \A c \in Slots : (Arith(g, c) <=> Arith(h, c)) /\ Feet(g, c) = Feet(h, c)
         /\ \A pos : Captured(h, pos) <=> Captured(g, pos)
  <1>1. \A c \in Slots : /\ Arith(g, c) <=> Arith(h, c)
                         /\ Arith(h, c) => g.number[c] = h.number[c]
                         /\ Has(g, c) <=> Has(h, c)
    BY DEF Stable, Arith
  <1>2. Objects \subseteq Slots /\ Operands \subseteq Slots
    BY DEF Slots
  <1>3. LentIn(g) = LentIn(h)
    BY <1>1, <1>2 DEF LentIn
  <1>4. \A c \in Slots : Feet(g, c) = Feet(h, c)
    BY <1>1 DEF Feet
  <1>5. \A pos : Captured(h, pos) <=> Captured(g, pos)
    BY <1>1, <1>2 DEF Captured
  <1> QED
    BY <1>1, <1>3, <1>4, <1>5 DEF Below

LEMMA FeetBelow ==
  ASSUME NEW h, Shape(h), NEW c \in Operands
  PROVE  Feet(h, c) \subseteq Below(h)
  <1>1. Arith(h, c) => LET i == h.number[c].shared IN
                       i \in Objects /\ Arith(h, i) /\ Ops(i) \subseteq Operands
    BY Nested, OperandNames
  <1> QED
    BY <1>1 DEF Feet, Below, LentIn

\* Pulls of both operands of a stream that is not lent move them by as many
\* digits, and every other stream still records what it took.
LEMMA OperandsMove ==
  ASSUME NEW h, Shape(h), NEW s \in Objects, Arith(h, s), NEW pos, Captured(h, pos),
         NEW i \in Nat, NEW j \in Nat, NEW p, NEW q,
         NEW f \in OperandPulls(h, Operand(s, "x"), i, p),
         NEW g \in OperandPulls(f, Operand(s, "y"), j, q)
  PROVE  /\ Stable(h, g, Below(h))
         /\ s \notin LentIn(h) => s \notin Below(h)
         /\ Place(g, Operand(s, "x")) = Beyond(Place(h, Operand(s, "x")), i)
         /\ Place(g, Operand(s, "y")) = Beyond(Place(h, Operand(s, "y")), j)
         /\ \A t \in Objects \ {s} :
              Arith(h, t) /\ InStep(h, t, pos) => InStep(g, t, pos)
  <1> DEFINE c == Operand(s, "x")
             d == Operand(s, "y")
  <1>1. /\ c \in Operands /\ d \in Operands /\ c # d /\ Ops(s) = {c, d}
        /\ Operands \subseteq Slots /\ s \notin Operands
        /\ \A t \in Objects \ {s} : c \notin Ops(t) /\ d \notin Ops(t)
    BY OperandNames DEF Ops, Slots
  <1> HIDE DEF c, d
  <1>2. f \in OperandPulls(h, c, i, p) /\ g \in OperandPulls(f, d, j, q)
    BY DEF c, d
  <1>3. Has(h, c) /\ Has(h, d)
    BY <1>1 DEF Shape
  <1>4. /\ Stable(h, f, Feet(h, c)) /\ Place(f, c) = Beyond(Place(h, c), i)
        /\ \A t \in Objects \ {s} :
             Arith(h, t) /\ InStep(h, t, pos) => InStep(f, t, pos)
    BY <1>1, <1>2, <1>3, OperandMoves
  <1>5. /\ Shape(f) /\ Has(f, c) /\ Has(f, d) /\ Captured(f, pos)
        /\ Feet(f, c) = Feet(h, c) /\ Feet(f, d) = Feet(h, d) /\ Below(f) = Below(h)
        /\ \A t \in Objects : Arith(f, t) <=> Arith(h, t)
    BY <1>1, <1>3, <1>4, LentKept DEF Stable, Slots
  <1>6. /\ Stable(f, g, Feet(h, d)) /\ Place(g, d) = Beyond(Place(f, d), j)
        /\ \A t \in Objects \ {s} :
             Arith(h, t) /\ InStep(f, t, pos) => InStep(g, t, pos)
    BY <1>1, <1>2, <1>5, OperandMoves
  <1>7. Feet(h, c) \cap Feet(h, d) = {}
    BY <1>1, <1>3, FeetApart
  <1>8. /\ d \notin Feet(h, c) /\ c \notin Feet(h, d)
        /\ Arith(h, d) => h.number[d].shared \notin Feet(h, c)
        /\ Arith(f, c) => f.number[c].shared \notin Feet(h, d)
    <2>1. \A k, e : e \in Feet(k, e) /\ (Arith(k, e) => k.number[e].shared \in Feet(k, e))
      BY DEF Feet
    <2> QED
      BY <1>5, <1>7, <2>1
  <1>9. Place(f, d) = Place(h, d)
    BY <1>1, <1>3, <1>4, <1>8, PlaceKept
  <1>10. Place(g, c) = Place(f, c)
    BY <1>1, <1>5, <1>6, <1>8, PlaceKept
  <1>11. Feet(h, c) \cup Feet(h, d) \subseteq Below(h)
    BY <1>1, FeetBelow
  <1>12. Stable(h, g, Feet(h, c) \cup Feet(h, d))
    BY <1>4, <1>6, StableTwice
  <1>13. Stable(h, g, Below(h))
    BY <1>11, <1>12 DEF Stable
  <1> QED
    BY <1>1, <1>4, <1>6, <1>9, <1>10, <1>13 DEF Below, c, d

(* The heap g is h after n digits of the Number c. *)
Advanced(h, g, c, n, pos) ==
  /\ Stable(h, g, Below(h) \cup {c})
  /\ Place(g, c) = Beyond(Place(h, c), n)
  /\ \A j \in Objects : Arith(h, j) /\ InStep(h, j, pos) => InStep(g, j, pos)
  /\ \A d \in Slots \ (Below(h) \cup {c}) : Has(h, d) => Place(g, d) = Place(h, d)

\* What a change of one leaf does to the others.
LEMMA LeafAdvanced ==
  ASSUME NEW h, Shape(h), NEW c \in Slots \ Below(h), Has(h, c), ~Arith(h, c),
         NEW g, Stable(h, g, {c}), NEW n \in Nat, Place(g, c) = Beyond(Place(h, c), n),
         NEW pos
  PROVE  Advanced(h, g, c, n, pos)
  <1>0. /\ c \notin Operands
        /\ \A j \in Objects : Ops(j) \subseteq Operands /\ Ops(j) \subseteq Slots
    BY OperandNames DEF Below, Slots
  <1>1. ASSUME NEW d \in Slots \ {c}, Has(h, d) PROVE Place(g, d) = Place(h, d)
    <2>1. Arith(h, d) => h.number[d].shared # c
      BY <1>1 DEF Shape, ResultOK
    <2> QED
      BY <1>1, <2>1, PlaceKept
  <1>2. ASSUME NEW j \in Objects, Arith(h, j), InStep(h, j, pos) PROVE InStep(g, j, pos)
    <2>1. j # c /\ g.cell[j] = h.cell[j]
      BY <1>2 DEF Stable, Slots
    <2>2. \A d \in Ops(j) : Place(g, d) = Place(h, d)
      BY <1>0, <1>1, <1>2 DEF Shape
    <2> QED
      BY <1>2, <2>1, <2>2, OperandNames DEF InStep
  <1>3. Stable(h, g, Below(h) \cup {c})
    BY DEF Stable
  <1> QED
    BY <1>1, <1>2, <1>3 DEF Advanced

\* The calls of a stream that is not lent, as of an object in use, move it by
\* the digits they gave, and no other object in use.
LEMMA CallsMove ==
  ASSUME NEW h, Shape(h), NEW s \in Objects, Arith(h, s), s \notin LentIn(h),
         NEW pos, Captured(h, pos), NEW n \in Nat, NEW e, NEW g \in Calls(h, s, n, e)
  PROVE  Advanced(h, g, s, n, pos)
  <1> DEFINE c == Operand(s, "x")
             d == Operand(s, "y")
  <1>0. /\ s \in Slots /\ s \notin Operands /\ h.number[s].shared = s
        /\ \A j \in Objects : Ops(j) \subseteq Operands /\ Ops(j) \subseteq Slots
        /\ \A a \in Ops(s) : pos[a] \in Places
    BY OperandNames DEF Slots, Shape, Captured
  <1>1. PICK i, j, f, k, b :
               /\ i \in Nat /\ j \in Nat /\ b \in BOOLEAN
               /\ f \in OperandPulls(h, c, i, e = "x") /\ k \in OperandPulls(f, d, j, e = "y")
               /\ g = Recorded(k, s, n, i, j, b)
    <2>1. PICK j \in {j \in 0..MaxPasses : h.cell[s].taken["x"] + j < MaxPos} :
            g \in LET i == IF e = "y" THEN j + 1 ELSE j
                      ofX == OperandPulls(h, c, i, e = "x")
                      ofBoth == UNION {OperandPulls(f, d, j, e = "y") : f \in ofX}
                  IN  {Recorded(k, s, n, i, j, b) :
                         k \in ofBoth, b \in {a \in BOOLEAN : h.cell[s].settled \/ n > 0 => a}}
      BY DEF Calls, StreamCalls
    <2> DEFINE i == IF e = "y" THEN j + 1 ELSE j
               ofX == OperandPulls(h, c, i, e = "x")
               ofBoth == UNION {OperandPulls(f, d, j, e = "y") : f \in ofX}
    <2>2. i \in Nat /\ j \in Nat
      BY <2>1
    <2>3. PICK k \in ofBoth, b \in BOOLEAN : g = Recorded(k, s, n, i, j, b)
      BY <2>1
    <2>4. PICK f \in ofX : k \in OperandPulls(f, d, j, e = "y")
      OBVIOUS
    <2> HIDE DEF i, c, d
    <2> QED
      BY <2>2, <2>3, <2>4
  <1>2. /\ Stable(h, k, Below(h)) /\ s \notin Below(h)
        /\ Place(k, c) = Beyond(Place(h, c), i) /\ Place(k, d) = Beyond(Place(h, d), j)
        /\ \A t \in Objects \ {s} :
             Arith(h, t) /\ InStep(h, t, pos) => InStep(k, t, pos)
    BY <1>1, OperandsMove
  <1>3. /\ Shape(k) /\ Arith(k, s)
        /\ \A a \in Slots : (Has(k, a) <=> Has(h, a)) /\ (Arith(k, a) <=> Arith(h, a))
        /\ \A a \in Slots : Arith(h, a) => k.number[a] = h.number[a]
    BY <1>0, <1>2 DEF Stable, Arith
  <1>4. Marked(k, g, s, n, i, j)
    BY <1>1, <1>3, RecordedMoves, Zenon
  <1>5. InStep(h, s, pos) => InStep(g, s, pos)
    BY <1>0, <1>1, <1>2, TakenKept
  <1>6. ASSUME NEW t \in Objects \ {s}, Arith(h, t), InStep(h, t, pos)
        PROVE  InStep(g, t, pos)
    <2>1. InStep(k, t, pos) /\ g.cell[t] = k.cell[t]
      BY <1>2, <1>4, <1>6 DEF Stable, Slots, Marked
    <2>2. ASSUME NEW a \in Ops(t) PROVE Place(g, a) = Place(k, a)
      <3>1. a \in Slots /\ a \in Operands /\ Has(k, a)
        BY <1>0, <1>3, <1>6 DEF Shape
      <3>2. Arith(k, a) => k.number[a].shared # s
        BY <1>3, <3>1 DEF LentIn
      <3> QED
        BY <1>4, <3>1, <3>2 DEF Marked
    <2> QED
      BY <2>1, <2>2, OperandNames DEF InStep
  <1>7. ASSUME NEW a \in Slots \ Below(h), Has(h, a)
        PROVE  Place(g, a) = IF a = s THEN Beyond(Place(h, a), n) ELSE Place(h, a)
    <2>1. Arith(h, a) => h.number[a].shared = a
      BY <1>7, OperandNames DEF Shape, Below
    <2>2. Place(k, a) = Place(h, a)
      BY <1>2, <1>7, <2>1, PlaceKept
    <2> QED
      BY <1>0, <1>3, <1>4, <1>7, <2>1, <2>2 DEF Marked
  <1>8. Stable(h, g, Below(h) \cup {s})
    BY <1>2, <1>4, StableTwice DEF Marked
  <1> QED
    BY <1>0, <1>2, <1>5, <1>6, <1>7, <1>8 DEF Advanced, Arith

\* Pulls from a Number in use move it by as many digits and no other in use.
LEMMA PulledMoves ==
  ASSUME NEW h, Shape(h), NEW c \in Slots \ Below(h), Has(h, c), NEW pos, Captured(h, pos),
         NEW n \in Nat, NEW pends, NEW g \in Pulls(h, c, n, pends)
  PROVE  Advanced(h, g, c, n, pos)
  <1>0. c \notin Operands /\ c \in Objects \cup {TmpA, TmpB}
    BY OperandNames DEF Below, Slots
  <1>1. CASE n = 0 /\ ~pends
    <2>1. g = h
      BY <1>1 DEF Pulls
    <2> QED
      BY <1>1, <2>1, PlaceTyped, BeyondTwice DEF Stable, Advanced
  <1>2. CASE ~(n = 0 /\ ~pends) /\ ~Arith(h, c)
    <2>1. g \in LeafPulls(h, c, n, pends)
      BY <1>2 DEF Pulls, Arith
    <2>2. Stable(h, g, {c}) /\ Place(g, c) = Beyond(Place(h, c), n)
      BY <1>2, <2>1, LeafPulled
    <2> QED
      BY <1>2, <2>2, LeafAdvanced
  <1>3. CASE ~(n = 0 /\ ~pends) /\ Arith(h, c)
    <2>1. c \in Objects /\ h.number[c].shared = c /\ c \notin LentIn(h)
      BY <1>0, <1>3 DEF Shape, Below
    <2>2. PICK e : g \in Calls(h, c, n, e)
      BY <1>3, <2>1 DEF Pulls, Arith
    <2> QED
      BY <1>3, <2>1, <2>2, CallsMove
  <1> QED
    BY <1>1, <1>2, <1>3

-----------------------------------------------------------------------------
(* The inductive invariant.                                                *)

(* The heap h, with the history pos: no local copy is left over, every     *)
(* stream records what it took of its operands, and an object in use is at *)
(* the place where a value would be.                                       *)
Good(h, pos) ==
  /\ Shape(h)
  /\ \A c \in {TmpA, TmpB} : h.number[c] = Null /\ h.cell[c] = Null
  /\ pos \in [Slots -> Places \cup {Null}]
  /\ \A c \in Slots : Has(h, c) => pos[c] \in Places
  /\ \A s \in Objects : Arith(h, s) => InStep(h, s, pos)
  /\ \A o \in Objects \ LentIn(h) : Has(h, o) => Place(h, o) = pos[o]

IInv == Good(heap, ideal) /\ NoFalseVerdict

(* The store of values that the heap h implements. *)
Seen(h) == [o \in Objects |-> IF Has(h, o) /\ o \notin LentIn(h) THEN Place(h, o) ELSE Null]

\* The objects lent, as the client's guards and as the proofs say it.
LEMMA LentIsLent ==
  ASSUME Shape(heap), Careful, NEW o \in Objects
  PROVE  InUse(o) <=> Born(o) /\ o \notin LentIn(heap)
  <1>1. o \in Slots /\ Operands \subseteq Slots /\ o # Null /\ o \notin Operands
    BY OperandNames, NamesAssumption DEF Slots
  <1>2. ASSUME NEW c \in Operands, Born(c) PROVE LeafOK(heap, c) /\ number[c] \in Records
    BY <1>1, <1>2 DEF Shape, Heaps, Born, Has, heap
  <1>3. Born(o) /\ number[o].tier = "arith" => number[o].shared = o
    BY DEF Shape, Arith, Has, Born, heap
  <1>4. ASSUME NEW c \in Operands, Born(c), number[c].shared = o
        PROVE  number[c].tier = "arith"
    BY <1>1, <1>2, <1>4 DEF LeafOK, Records, heap
  <1> QED
    BY <1>1, <1>3, <1>4 DEF InUse, Lent, LentIn, Careful, Arith, Has, Born, heap

-----------------------------------------------------------------------------
(* New leaves.                                                             *)

(* A leaf without an extractor, and the place it is at. *)
Loose(n) == /\ n \in Records /\ n.tier # "arith" /\ n.shared = Null
            /\ n.tier = "series" => n.read = Unread
At(n) == [base |-> n.base, read |-> n.read]

LEMMA LoosePlace ==
  ASSUME NEW h, NEW c \in Slots, Loose(h.number[c])
  PROVE  Place(h, c) = At(h.number[c]) /\ At(h.number[c]) \in Places
  <1> DEFINE n == h.number[c]
  <1>1. n.tier \in {"automaton", "series"} /\ n.shared = Null /\ At(n) \in Places
    BY DEF Loose, Records, Places, At
  <1>2. n.tier = "series" => At(n) = Start(n.base)
    BY DEF Loose, At, Start
  <1> HIDE DEF At
  <1> QED
    BY <1>1, <1>2 DEF Place, At

\* What a careful client copies is a leaf without an extractor.
LEMMA CopiesAreLoose ==
  ASSUME Shape(heap), Careful, NEW o \in Objects,
         MayCopy(o) \/ (Born(o) /\ number[o].tier = "automaton")
  PROVE  /\ Loose(number[o]) /\ Born(o) /\ InUse(o)
         /\ ~Arith(heap, o) /\ o \notin LentIn(heap)
  <1>1. Born(o) /\ o \in Slots
    BY DEF MayCopy, InUse, Slots
  <1>2. LeafOK(heap, o) /\ number[o] \in Records
    BY <1>1 DEF Shape, Heaps, Has, Born, heap
  <1>3. number[o].tier # "arith" /\ number[o].shared = Null
    BY <1>2 DEF MayCopy, Careful, LeafOK, heap
  <1> QED
    BY <1>1, <1>2, <1>3
       DEF Loose, LeafOK, heap, InUse, Lent, LentIn, Arith, Has, Born

\* A new leaf moves nothing and lends nothing.
LEMMA LeafAdded ==
  ASSUME NEW h, Shape(h), NEW c \in Slots \ Operands, ~Has(h, c), NEW n, Loose(n)
  PROVE  LET g == [h EXCEPT !.number[c] = n] IN
         /\ Shape(g) /\ Has(g, c)
         /\ g.number = [h.number EXCEPT ![c] = n] /\ g.cell = h.cell
         /\ LentIn(g) = LentIn(h) /\ Below(g) = Below(h) /\ c \notin Below(g)
         /\ Place(g, c) = At(n)
         /\ \A d \in Slots : Has(h, d) => Has(g, d) /\ Place(g, d) = Place(h, d)
         /\ \A d \in Slots : Arith(g, d) <=> Arith(h, d)
         /\ \A d \in Slots \ {c} : Has(g, d) <=> Has(h, d)
  <1> DEFINE g == [h EXCEPT !.number[c] = n]
  <1>1. /\ h \in Heaps /\ n \in Records /\ n # Null /\ n.tier # "arith" /\ n.shared = Null
        /\ h.number[c] = Null /\ c # Null
    BY NullAssumption, NamesAssumption DEF Shape, Loose, Has, Slots
  <1>2. /\ g \in Heaps /\ g.number = [h.number EXCEPT ![c] = n] /\ g.cell = h.cell
        /\ g.number[c] = n /\ \A d \in Slots \ {c} : g.number[d] = h.number[d]
    BY <1>1 DEF Heaps
  <1> HIDE DEF g
  <1>3. /\ ~Arith(h, c) /\ ~Arith(g, c) /\ Has(g, c)
        /\ \A d \in Slots \ {c} : (Has(g, d) <=> Has(h, d)) /\ (Arith(g, d) <=> Arith(h, d))
    BY <1>1, <1>2 DEF Has, Arith
  <1>4. \A s \in Objects : Ops(s) \subseteq Slots \ {c}
    BY OperandNames DEF Slots
  <1>5. ASSUME NEW d \in Slots, Has(g, d) PROVE LeafOK(g, d) /\ ResultOK(g, d)
    <2>1. CASE d = c
      BY <1>1, <1>2, <1>3, <2>1 DEF LeafOK, ResultOK, Loose
    <2>2. CASE d # c
      <3>1. LeafOK(h, d) /\ ResultOK(h, d)
        BY <1>3, <1>5, <2>2 DEF Shape
      <3>2. LeafOK(g, d)
        BY <1>2, <2>2, <3>1 DEF LeafOK
      <3>3. ASSUME Arith(g, d) PROVE ResultOK(g, d)
        <4> DEFINE s == h.number[d].shared
        <4>1. s \in Slots \ {c} /\ Arith(h, s)
          BY <1>3, <2>2, <3>1, <3>3 DEF ResultOK, Slots
        <4>2. g.number[s] = h.number[s] /\ g.number[d] = h.number[d]
          BY <1>2, <2>2, <4>1
        <4> QED
          BY <1>2, <1>3, <2>2, <3>1, <3>3, <4>1, <4>2 DEF ResultOK
      <3> QED
        BY <3>2, <3>3 DEF ResultOK
    <2> QED
      BY <2>1, <2>2
  <1>6. ASSUME NEW s \in Objects
        PROVE  /\ Arith(g, s) => g.number[s].shared = s
               /\ \A d \in Ops(s) : Has(g, d) <=> Arith(g, s)
    BY <1>2, <1>3, <1>4 DEF Shape, Slots
  <1>7. /\ \A d \in Operands : /\ Arith(g, d) <=> Arith(h, d)
                               /\ g.number[d] = h.number[d]
        /\ \A d \in Slots : Arith(g, d) <=> Arith(h, d)
    BY <1>2, <1>3 DEF Slots
  <1>8. ASSUME NEW d \in Operands, Arith(g, d), NEW e \in Ops(g.number[d].shared)
        PROVE  ~Arith(g, e)
    <2>1. Arith(h, d) /\ h.number[d].shared \in Objects /\ g.number[d] = h.number[d]
      BY <1>7, <1>8, Nested
    <2>2. ~Arith(h, e) /\ e \in Slots
      BY <1>4, <1>8, <2>1, Nested
    <2> QED
      BY <1>7, <2>2
  <1>9. /\ ~Arith(g, TmpA) /\ ~Arith(g, TmpB)
        /\ \A d, e \in Operands :
             Arith(g, d) /\ Arith(g, e) /\ g.number[d].shared = g.number[e].shared => d = e
    BY <1>7 DEF Shape, Slots
  <1>10. Shape(g)
    BY <1>2, <1>5, <1>6, <1>8, <1>9 DEF Shape
  <1>11. LentIn(g) = LentIn(h)
    BY <1>7 DEF LentIn, Slots
  <1>12. Below(g) = Below(h) /\ c \notin Below(h)
    BY <1>3, <1>11 DEF Below, LentIn
  <1>13. Place(g, c) = At(n)
    BY <1>2, LoosePlace
  <1>14. ASSUME NEW d \in Slots, Has(h, d) PROVE Place(g, d) = Place(h, d) /\ Has(g, d)
    <2>1. d # c
      BY <1>14
    <2> QED
      BY <1>2, <1>3, <1>14, <2>1 DEF Place
  <1> QED
    BY <1>2, <1>3, <1>7, <1>10, <1>11, <1>12, <1>13, <1>14 DEF g

\* A new leaf is a new value, and changes no other.
LEMMA GoodAdded ==
  ASSUME NEW h, NEW pos, Good(h, pos), NEW c \in Objects, ~Has(h, c), NEW n, Loose(n)
  PROVE  LET g == [h EXCEPT !.number[c] = n] IN
         /\ Good(g, [pos EXCEPT ![c] = At(n)])
         /\ Has(g, c) /\ g.number[c] = n
         /\ \A d \in Slots \ {c} : Has(g, d) <=> Has(h, d)
         /\ Seen(g) = [Seen(h) EXCEPT ![c] = At(n)]
  <1> DEFINE g == [h EXCEPT !.number[c] = n]
             at == [pos EXCEPT ![c] = At(n)]
  <1>0. /\ c \in Slots \ Operands /\ c # TmpA /\ c # TmpB /\ Operands \subseteq Slots
        /\ Objects \subseteq Slots
    BY OperandNames, NamesAssumption DEF Slots
  <1>1. /\ Shape(g) /\ Has(g, c)
        /\ g.number = [h.number EXCEPT ![c] = n] /\ g.cell = h.cell
        /\ LentIn(g) = LentIn(h) /\ c \notin LentIn(g)
        /\ Place(g, c) = At(n)
        /\ \A d \in Slots : Has(h, d) => Has(g, d) /\ Place(g, d) = Place(h, d)
        /\ \A d \in Slots : Arith(g, d) <=> Arith(h, d)
        /\ \A d \in Slots \ {c} : Has(g, d) <=> Has(h, d)
    BY <1>0, LeafAdded DEF Good, Below
  <1> HIDE DEF g
  <1>2. /\ At(n) \in Places /\ pos \in [Slots -> Places \cup {Null}]
        /\ h \in Heaps
    BY DEF Loose, At, Places, Records, Good, Shape
  <1>3. /\ at \in [Slots -> Places \cup {Null}] /\ at[c] = At(n)
        /\ \A d \in Slots \ {c} : at[d] = pos[d]
    BY <1>0, <1>2
  <1> HIDE DEF at, At
  <1>4. \A d \in {TmpA, TmpB} : g.number[d] = Null /\ g.cell[d] = Null
    BY <1>0, <1>1, <1>2 DEF Good, Heaps, Slots
  <1>5. \A d \in Slots : Has(g, d) => at[d] \in Places
    BY <1>1, <1>2, <1>3 DEF Good
  <1>6. ASSUME NEW s \in Objects, Arith(g, s) PROVE InStep(g, s, at)
    <2>1. Arith(h, s) /\ InStep(h, s, pos)
      BY <1>0, <1>1, <1>6 DEF Good
    <2>2. \A d \in Ops(s) : d \in Slots \ {c} /\ Has(h, d)
      BY <1>0, <2>1, OperandNames DEF Good, Shape
    <2> QED
      BY <1>0, <1>1, <1>3, <2>1, <2>2, OperandNames DEF InStep
  <1>7. \A o \in Objects \ LentIn(g) : Has(g, o) => Place(g, o) = at[o]
    BY <1>0, <1>1, <1>3 DEF Good
  <1>8. Seen(g) = [Seen(h) EXCEPT ![c] = At(n)]
    BY <1>0, <1>1 DEF Seen
  <1>9. g.number[c] = n
    BY <1>0, <1>1, <1>2 DEF Heaps
  <1> QED
    BY <1>1, <1>3, <1>4, <1>5, <1>6, <1>7, <1>8, <1>9 DEF Good, g, at

(* A place of each slot, and of o the one n digits on. *)
Moved(pos, o, n) == [pos EXCEPT ![o] = Beyond(@, n)]

\* Digits of a number in use move its value and no other.
LEMMA GoodAdvanced ==
  ASSUME NEW h, NEW pos, Good(h, pos), NEW o \in Objects \ LentIn(h), Has(h, o),
         NEW g, NEW n \in Nat, Advanced(h, g, o, n, pos)
  PROVE  Good(g, Moved(pos, o, n)) /\ Seen(g) = Moved(Seen(h), o, n)
  <1> DEFINE at == Moved(pos, o, n)
  <1>0. /\ Objects \subseteq Slots /\ Operands \subseteq Slots /\ o \notin Operands
        /\ \A d \in Objects \ LentIn(h) : d \notin Below(h)
        /\ TmpA \in Slots /\ TmpB \in Slots
        /\ \A d \in {TmpA, TmpB} : d \notin Below(h) \cup {o}
    BY OperandNames, NamesAssumption DEF Slots, Below, LentIn
  <1>1. /\ Shape(g) /\ LentIn(g) = LentIn(h)
        /\ \A d \in Slots : (Has(g, d) <=> Has(h, d)) /\ (Arith(g, d) <=> Arith(h, d))
        /\ \A d \in Slots \ (Below(h) \cup {o}) :
             g.number[d] = h.number[d] /\ g.cell[d] = h.cell[d]
    BY LentKept DEF Advanced, Stable
  <1>2. pos \in [Slots -> Places \cup {Null}] /\ pos[o] \in Places /\ Place(h, o) = pos[o]
    BY <1>0 DEF Good
  <1>3. Beyond(pos[o], n) \in Places /\ Beyond(pos[o], 0) = pos[o]
    BY <1>2, BeyondTwice
  <1>4. /\ at \in [Slots -> Places \cup {Null}] /\ at[o] = Beyond(pos[o], n)
        /\ \A d \in Slots \ {o} : at[d] = pos[d]
    BY <1>0, <1>2, <1>3 DEF Moved
  <1> HIDE DEF at
  <1>5. \A d \in {TmpA, TmpB} : g.number[d] = Null /\ g.cell[d] = Null
    BY <1>0, <1>1 DEF Good
  <1>6. \A d \in Slots : Has(g, d) => at[d] \in Places
    BY <1>1, <1>2, <1>3, <1>4 DEF Good
  <1>7. ASSUME NEW s \in Objects, Arith(g, s) PROVE InStep(g, s, at)
    <2>1. InStep(g, s, pos)
      BY <1>0, <1>1, <1>7 DEF Good, Advanced
    <2>2. \A d \in Ops(s) : d \in Slots \ {o}
      BY <1>0, OperandNames
    <2> QED
      BY <1>4, <2>1, <2>2, OperandNames DEF InStep
  <1>8. ASSUME NEW d \in Objects \ LentIn(h), Has(h, d)
        PROVE  Place(g, d) = IF d = o THEN Beyond(Place(h, d), n) ELSE Place(h, d)
    BY <1>0, <1>8 DEF Advanced
  <1>9. \A d \in Objects \ LentIn(g) : Has(g, d) => Place(g, d) = at[d]
    BY <1>0, <1>1, <1>2, <1>4, <1>8 DEF Good
  <1>10. Seen(g) = Moved(Seen(h), o, n)
    BY <1>0, <1>1, <1>8 DEF Seen, Moved
  <1> QED
    BY <1>1, <1>4, <1>5, <1>6, <1>7, <1>9, <1>10 DEF Good, at

(* The slots after a combination of x and y in o: its operands are copies. *)
Joined(f, x, y, o, z) ==
  [f EXCEPT ![Operand(o, "x")] = f[x], ![Operand(o, "y")] = f[y], ![o] = z]

(* The store after it, with the temporaries T gone. *)
Replaced(f, T, o, z) ==
  [d \in Objects |-> CASE d = o -> z [] d \in T -> Null [] OTHER -> f[d]]

\* A result of arithmetic is a new value, and its operands, temporaries that
\* were results themselves, are values no more.
LEMMA GoodCombined ==
  ASSUME NEW h, NEW pos, Good(h, pos),
         NEW o \in Objects, ~Has(h, o), NEW x \in Objects \ LentIn(h),
         NEW y \in Objects \ LentIn(h), Has(h, x), Has(h, y),
         Loose(h.number[x]) \/ Arith(h, x), Loose(h.number[y]) \/ Arith(h, y),
         Arith(h, x) => \A c \in Ops(x) : ~Arith(h, c),
         Arith(h, y) => \A c \in Ops(y) : ~Arith(h, c),
         x = y => ~Arith(h, x), NEW r \in Records, r.tier = "arith", r.shared = o,
         r.base = h.number[x].base,
         NEW g, g.number = Joined(h.number, x, y, o, r),
         g.cell = [h.cell EXCEPT ![o] = Stream(r.base)],
         g = [number |-> g.number, cell |-> g.cell],
         NEW at, at = Joined(pos, x, y, o, Start(r.base)),
         NEW T, T = {e \in {x, y} : Arith(h, e)}
  PROVE  Good(g, at) /\ Seen(g) = Replaced(Seen(h), T, o, Start(r.base))
  <1> DEFINE cx == Operand(o, "x")
             cy == Operand(o, "y")
  <1>0. /\ cx \in Operands /\ cy \in Operands /\ cx # cy /\ Ops(o) = {cx, cy}
        /\ Objects \subseteq Slots /\ Operands \subseteq Slots /\ Objects \cap Operands = {}
        /\ \A c \in {TmpA, TmpB} : c \in Slots \ (Objects \cup Operands)
        /\ \A s \in Objects \ {o} : Ops(s) \subseteq Operands \ {cx, cy}
        /\ o # Null /\ x # o /\ y # o /\ cx # Null /\ cy # Null
    BY OperandNames, NamesAssumption DEF Ops, Slots
  <1>1. /\ h \in Heaps /\ Shape(h) /\ pos \in [Slots -> Places \cup {Null}]
        /\ h.number[x] \in Records /\ h.number[y] \in Records
        /\ h.number[o] = Null /\ ~Arith(h, o)
        /\ \A c \in {cx, cy} : ~Has(h, c) /\ ~Arith(h, c)
    <2>1. /\ h \in Heaps /\ Shape(h) /\ pos \in [Slots -> Places \cup {Null}]
          /\ \A c \in Ops(o) : Has(h, c) <=> Arith(h, o)
      BY DEF Good, Shape
    <2>2. h.number[x] \in Records /\ h.number[y] \in Records
      BY <1>0, <2>1 DEF Heaps, Has
    <2>3. h.number[o] = Null /\ ~Arith(h, o)
      BY DEF Has, Arith
    <2> QED
      BY <1>0, <2>1, <2>2, <2>3 DEF Has, Arith
  <1>2. /\ Stream(r.base) \in Streams /\ Start(r.base) \in Places
        /\ Stream(r.base).base = r.base
        /\ \A side \in Sides : Stream(r.base).taken[side] = 0
        /\ Stream(r.base).count = 0 /\ r # Null
    BY NullAssumption DEF Stream, Streams, Records, Start, Unread, Places
  <1> HIDE DEF cx, cy
  <1>3. /\ g \in Heaps
        /\ g.number[o] = r /\ g.number[cx] = h.number[x] /\ g.number[cy] = h.number[y]
        /\ \A c \in Slots \ {o, cx, cy} : g.number[c] = h.number[c]
        /\ g.cell[o] = Stream(r.base)
        /\ \A c \in Slots \ {o} : g.cell[c] = h.cell[c]
    <2>1. g.number \in [Slots -> Records \cup {Null}] /\ g.cell \in [Slots -> Streams \cup {Null}]
      BY <1>0, <1>1, <1>2 DEF Heaps, Joined, cx, cy
    <2>2. g \in Heaps
      BY <2>1 DEF Heaps
    <2> QED
      BY <1>0, <1>1, <2>2 DEF Heaps, Joined, cx, cy
  <1>4. /\ at \in [Slots -> Places \cup {Null}]
        /\ at[o] = Start(r.base) /\ at[cx] = pos[x] /\ at[cy] = pos[y]
        /\ \A c \in Slots \ {o, cx, cy} : at[c] = pos[c]
    BY <1>0, <1>1, <1>2 DEF Joined, cx, cy
  <1>5. /\ \A c \in Slots \ {o, cx, cy} :
             (Has(g, c) <=> Has(h, c)) /\ (Arith(g, c) <=> Arith(h, c))
        /\ Has(g, o) /\ Arith(g, o) /\ Has(g, cx) /\ Has(g, cy)
        /\ Arith(g, cx) <=> Arith(h, x)
        /\ Arith(g, cy) <=> Arith(h, y)
    BY <1>0, <1>1, <1>2, <1>3 DEF Has, Arith
  <1>6. /\ Arith(h, x) => /\ h.number[x].shared = x /\ h.cell[x] \in Streams
                          /\ h.cell[x].base = h.number[x].base
        /\ Arith(h, y) => /\ h.number[y].shared = y /\ h.cell[y] \in Streams
                          /\ h.cell[y].base = h.number[y].base
    BY <1>0, <1>1 DEF Shape, ResultOK
  <1>7. ASSUME NEW c \in Slots, Has(g, c) PROVE LeafOK(g, c) /\ ResultOK(g, c)
    <2>1. CASE c = o
      BY <1>0, <1>2, <1>3, <1>5, <2>1 DEF LeafOK, ResultOK
    <2>2. CASE c = cx
      <3>1. CASE Arith(h, x)
        <4>1. h.number[x].tier = "arith" /\ x \in Slots \ {o, cx, cy}
          BY <1>0, <3>1 DEF Arith
        <4> QED
          BY <1>1, <1>3, <1>5, <1>6, <2>2, <3>1, <4>1 DEF LeafOK, ResultOK
      <3>2. CASE Loose(h.number[x])
        BY <1>0, <1>3, <1>5, <2>2, <3>2 DEF LeafOK, ResultOK, Arith, Loose
      <3> QED
        BY <3>1, <3>2
    <2>3. CASE c = cy
      <3>1. CASE Arith(h, y)
        <4>1. h.number[y].tier = "arith" /\ y \in Slots \ {o, cx, cy}
          BY <1>0, <3>1 DEF Arith
        <4> QED
          BY <1>1, <1>3, <1>5, <1>6, <2>3, <3>1, <4>1 DEF LeafOK, ResultOK
      <3>2. CASE Loose(h.number[y])
        BY <1>0, <1>3, <1>5, <2>3, <3>2 DEF LeafOK, ResultOK, Arith, Loose
      <3> QED
        BY <3>1, <3>2
    <2>4. CASE c \notin {o, cx, cy}
      <3>1. LeafOK(h, c) /\ ResultOK(h, c)
        BY <1>1, <1>5, <1>7, <2>4 DEF Shape
      <3>2. LeafOK(g, c)
        BY <1>0, <1>3, <2>4, <3>1 DEF LeafOK
      <3>3. ASSUME Arith(g, c) PROVE ResultOK(g, c)
        <4> DEFINE s == h.number[c].shared
        <4>1. Arith(h, c) /\ s \in Objects \ {o} /\ Arith(h, s)
          BY <1>1, <1>5, <2>4, <3>1, <3>3 DEF ResultOK
        <4>2. s \in Slots \ {o, cx, cy}
          BY <1>0, <4>1
        <4>3. /\ g.number[s] = h.number[s] /\ g.cell[s] = h.cell[s] /\ Arith(g, s)
              /\ g.number[c] = h.number[c]
          BY <1>3, <1>5, <2>4, <4>1, <4>2
        <4> QED
          BY <3>1, <4>1, <4>3 DEF ResultOK
      <3> QED
        BY <3>2, <3>3 DEF ResultOK
    <2> QED
      BY <2>1, <2>2, <2>3, <2>4
  <1>8. ASSUME NEW s \in Objects
        PROVE  /\ Arith(g, s) => g.number[s].shared = s
               /\ \A c \in Ops(s) : Has(g, c) <=> Arith(g, s)
    <2>1. CASE s = o
      BY <1>0, <1>3, <1>5, <2>1
    <2>2. CASE s # o
      <3>1. s \in Slots \ {o, cx, cy} /\ Ops(s) \subseteq Slots \ {o, cx, cy}
        BY <1>0, <2>2
      <3> QED
        BY <1>1, <1>3, <1>5, <3>1 DEF Shape
    <2> QED
      BY <2>1, <2>2
  (* What an operand that is a result shares, in g. *)
  <1>9. ASSUME NEW c \in Operands, Arith(g, c)
        PROVE  LET i == g.number[c].shared IN
               /\ i \in Objects \ {o} /\ Arith(h, i)
               /\ \A d \in Ops(i) : ~Arith(h, d)
               /\ c = cx => i = x /\ Arith(h, x)
               /\ c = cy => i = y /\ Arith(h, y)
               /\ c \notin {cx, cy} =>
                    Arith(h, c) /\ g.number[c] = h.number[c] /\ i \in LentIn(h)
    <2>1. CASE c = cx
      BY <1>0, <1>3, <1>5, <1>6, <1>9, <2>1
    <2>2. CASE c = cy
      BY <1>0, <1>3, <1>5, <1>6, <1>9, <2>2
    <2>3. CASE c \notin {cx, cy}
      <3>1. Arith(h, c) /\ g.number[c] = h.number[c]
        BY <1>0, <1>3, <1>5, <1>9, <2>3
      <3> QED
        BY <1>1, <2>3, <3>1, Nested DEF LentIn
    <2> QED
      BY <2>1, <2>2, <2>3
  <1>10. ASSUME NEW c \in Operands, NEW d \in Operands, Arith(g, c), Arith(g, d),
                g.number[c].shared = g.number[d].shared
         PROVE  c = d
    BY <1>1, <1>9, <1>10 DEF Shape
  <1>11. ASSUME NEW c \in Operands, Arith(g, c), NEW d \in Ops(g.number[c].shared)
         PROVE  ~Arith(g, d)
    BY <1>0, <1>5, <1>9, <1>11
  <1>12. Shape(g)
    <2>1. ~Arith(g, TmpA) /\ ~Arith(g, TmpB)
      BY <1>0, <1>1, <1>5 DEF Shape
    <2> QED
      BY <1>3, <1>7, <1>8, <1>10, <1>11, <2>1 DEF Shape
  <1>13. LentIn(g) = LentIn(h) \cup T
    <2>1. ASSUME NEW d \in LentIn(g)
          PROVE  d \in LentIn(h) \cup T
      <3>1. PICK c \in Operands : Arith(g, c) /\ g.number[c].shared = d
        BY <2>1 DEF LentIn
      <3>2. d \in Objects /\ Arith(h, d)
        BY <1>9, <3>1
      <3>3. CASE c \in {cx, cy}
        BY <1>9, <3>1, <3>3
      <3>4. CASE c \notin {cx, cy}
        BY <1>9, <3>1, <3>4
      <3> QED
        BY <3>3, <3>4
    <2>2. ASSUME NEW d \in LentIn(h) PROVE d \in LentIn(g)
      <3>1. PICK c \in Operands : Arith(h, c) /\ h.number[c].shared = d
        BY <2>2 DEF LentIn
      <3>2. d \in Objects /\ Arith(h, d)
        BY <2>2 DEF LentIn
      <3>3. c \in Slots \ {o, cx, cy} /\ d \in Slots \ {o, cx, cy}
        BY <1>0, <1>1, <3>1, <3>2
      <3> QED
        BY <1>3, <1>5, <3>1, <3>2, <3>3 DEF LentIn
    <2>3. ASSUME Arith(h, x) PROVE x \in LentIn(g)
      BY <1>0, <1>3, <1>5, <1>6, <2>3 DEF LentIn
    <2>4. ASSUME Arith(h, y) PROVE y \in LentIn(g)
      BY <1>0, <1>3, <1>5, <1>6, <2>4 DEF LentIn
    <2> QED
      BY <2>1, <2>2, <2>3, <2>4
  <1>14. ASSUME NEW c \in Slots \ {o, cx, cy}, Has(h, c) PROVE Place(g, c) = Place(h, c)
    <2>1. g.number[c] = h.number[c] /\ h.number[c] \in Records
          /\ LeafOK(h, c) /\ ResultOK(h, c)
      BY <1>1, <1>3, <1>14 DEF Shape, Heaps, Has
    <2>2. Arith(h, c) => h.number[c].shared \in Slots \ {o}
      BY <1>0, <1>1, <2>1 DEF ResultOK
    <2>3. h.number[c].tier = "series" => h.number[c].shared \in {Null, c}
      BY <2>1 DEF LeafOK
    <2>4. CASE h.number[c].tier = "automaton"
      BY <2>1, <2>4 DEF Place
    <2>5. CASE h.number[c].tier = "series"
      BY <1>3, <1>14, <2>1, <2>3, <2>5 DEF Place
    <2>6. CASE h.number[c].tier = "arith"
      <3> DEFINE s == h.number[c].shared
      <3>1. s \in Slots \ {o}
        BY <1>14, <2>2, <2>6 DEF Arith
      <3>2. g.cell[s] = h.cell[s]
        BY <1>3, <3>1
      <3> HIDE DEF s
      <3>3. h.number[c].shared = s
        BY DEF s
      <3> QED
        BY <2>1, <3>2, <3>3 DEF Place
    <2> QED
      BY <2>1, <2>4, <2>5, <2>6 DEF Records
  <1>15. ASSUME NEW c \in {cx, cy} PROVE Place(g, c) = at[c] /\ at[c] \in Places
    <2>1. PICK z \in {x, y} : /\ g.number[c] = h.number[z] /\ at[c] = pos[z]
                              /\ Loose(h.number[z]) \/ Arith(h, z)
                              /\ Arith(h, z) => h.number[z].shared = z
      BY <1>3, <1>4, <1>6
    <2>2. z \in Objects \ LentIn(h) /\ Has(h, z) /\ z \in Slots \ {o, cx, cy}
      BY <1>0
    <2>3. pos[z] \in Places /\ Place(h, z) = pos[z]
      BY <2>2 DEF Good
    <2>4. CASE Loose(h.number[z])
      <3>1. Place(h, z) = At(h.number[z])
        BY <2>2, <2>4, LoosePlace
      <3>2. Loose(g.number[c]) /\ c \in Slots
        BY <1>0, <2>1, <2>4
      <3>3. Place(g, c) = At(g.number[c])
        BY <3>2, LoosePlace
      <3> QED
        BY <2>1, <2>3, <3>1, <3>3
    <2>5. CASE Arith(h, z)
      <3>1. g.cell[z] = h.cell[z] /\ h.number[z].shared = z /\ z # Null
        BY <1>3, <2>1, <2>2, <2>5, NamesAssumption
      <3> QED
        BY <2>1, <2>3, <2>5, <3>1 DEF Place
    <2> QED
      BY <2>1, <2>4, <2>5
  <1>16. Place(g, o) = Start(r.base)
    <2>1. Place(g, o) = Beyond(Start(Stream(r.base).base), Stream(r.base).count)
      BY <1>0, <1>3 DEF Place
    <2> QED
      BY <1>2, <2>1, BeyondTwice
  <1>17. ASSUME NEW s \in Objects, Arith(g, s) PROVE InStep(g, s, at)
    <2>1. CASE s = o
      <3>1. \A c \in {cx, cy} : Beyond(at[c], 0) = at[c]
        BY <1>15, BeyondTwice
      <3> QED
        BY <1>0, <1>2, <1>3, <1>15, <2>1, <3>1, OperandNames DEF InStep
    <2>2. CASE s # o
      <3>1. /\ s \in Slots \ {o, cx, cy} /\ Ops(s) \subseteq Slots \ {o, cx, cy}
            /\ Arith(h, s)
        BY <1>0, <1>5, <1>17, <2>2
      <3>2. InStep(h, s, pos) /\ \A c \in Ops(s) : Has(h, c)
        BY <1>1, <3>1 DEF Good, Shape
      <3> QED
        BY <1>3, <1>4, <1>14, <3>1, <3>2, OperandNames DEF InStep
    <2> QED
      BY <2>1, <2>2
  <1>18. \A c \in Slots : Has(g, c) => at[c] \in Places
    <2>1. \A c \in Slots \ {o, cx, cy} : Has(g, c) => at[c] \in Places
      BY <1>4, <1>5 DEF Good
    <2> QED
      BY <1>2, <1>4, <1>15, <2>1
  <1>19. \A d \in Objects \ {o} : Has(g, d) =>
           Has(h, d) /\ Place(g, d) = Place(h, d) /\ at[d] = pos[d]
    BY <1>0, <1>4, <1>5, <1>14
  <1>20. \A d \in Objects \ LentIn(g) : Has(g, d) => Place(g, d) = at[d]
    BY <1>4, <1>13, <1>16, <1>19 DEF Good
  <1>21. \A c \in {TmpA, TmpB} : g.number[c] = Null /\ g.cell[c] = Null
    BY <1>0, <1>3 DEF Good
  <1>22. Seen(g) = Replaced(Seen(h), T, o, Start(r.base))
    <2>1. o \notin LentIn(g)
      BY <1>1, <1>13 DEF LentIn
    <2>2. \A d \in Objects \ {o} : Has(g, d) <=> Has(h, d)
      BY <1>0, <1>5
    <2> QED
      BY <1>5, <1>13, <1>16, <1>19, <2>1, <2>2 DEF Seen, Replaced
  <1> QED
    BY <1>4, <1>12, <1>17, <1>18, <1>20, <1>21, <1>22 DEF Good

-----------------------------------------------------------------------------
(* Temporaries that go, with all that they hold.                           *)

(* What goes together: a stream with its operands, and an operand that is  *)
(* an arithmetic result with the object whose stream it shares.            *)
Closed(h, G) ==
  /\ TmpA \in G /\ TmpB \in G
  /\ \A s \in Objects : \A c \in Ops(s) : c \in G <=> s \in G
  /\ \A c \in Operands : Arith(h, c) => (c \in G <=> h.number[c].shared \in G)

(* The heap g is what is left of h without G. *)
Left(h, G, g) ==
  /\ Shape(g) /\ LentIn(g) = LentIn(h) \ G
  /\ \A c \in Slots \cap G : g.number[c] = Null /\ g.cell[c] = Null
  /\ \A c \in Slots \ G : /\ g.number[c] = h.number[c] /\ g.cell[c] = h.cell[c]
                          /\ Has(h, c) => Place(g, c) = Place(h, c)

\* What is left of a heap keeps its shape and its places.
LEMMA ShapeDropped ==
  ASSUME NEW h, Shape(h), NEW G, Closed(h, G)
  PROVE  Left(h, G, Dropped(h, G))
  <1> DEFINE g == Dropped(h, G)
  <1>0. /\ h \in Heaps /\ Objects \subseteq Slots /\ Operands \subseteq Slots
        /\ TmpA \in Slots /\ TmpB \in Slots
    BY DEF Shape, Slots
  <1>1. /\ g.number \in [Slots -> Records \cup {Null}] /\ g.cell \in [Slots -> Streams \cup {Null}]
        /\ g \in Heaps
        /\ \A c \in Slots \cap G : g.number[c] = Null /\ g.cell[c] = Null
        /\ \A c \in Slots \ G : g.number[c] = h.number[c] /\ g.cell[c] = h.cell[c]
    BY <1>0 DEF Dropped, Without, Heaps
  <1> HIDE DEF g
  <1>2. \A c \in Slots : /\ Has(g, c) <=> Has(h, c) /\ c \notin G
                         /\ Arith(g, c) <=> Arith(h, c) /\ c \notin G
                         /\ Has(g, c) => g.number[c] = h.number[c] /\ g.cell[c] = h.cell[c]
    BY <1>1 DEF Has, Arith
  (* The stream that a Number left reads from is left. *)
  <1>3. ASSUME NEW c \in Slots \ G, Arith(h, c)
        PROVE  h.number[c].shared \in Objects \ G
    <2>1. h.number[c].shared \in Objects
      BY <1>3 DEF Shape, ResultOK, Arith
    <2>2. CASE c \in Operands
      BY <1>3, <2>1, <2>2 DEF Closed
    <2>3. CASE c \notin Operands
      BY <1>3, <2>1, <2>3, OperandNames DEF Shape
    <2> QED
      BY <2>2, <2>3
  <1>4. ASSUME NEW c \in Slots, Has(g, c) PROVE LeafOK(g, c) /\ ResultOK(g, c)
    <2>1. LeafOK(h, c) /\ ResultOK(h, c) /\ c \in Slots \ G
      BY <1>2, <1>4 DEF Shape
    <2>2. LeafOK(g, c)
      BY <1>2, <1>4, <2>1 DEF LeafOK
    <2>3. ASSUME Arith(g, c) PROVE ResultOK(g, c)
      <3> DEFINE s == h.number[c].shared
      <3>1. Arith(h, c) /\ s \in Slots \ G /\ Arith(h, s)
        BY <1>0, <1>2, <1>3, <2>1, <2>3 DEF ResultOK
      <3>2. Arith(g, s) /\ g.number[s] = h.number[s] /\ g.cell[s] = h.cell[s]
        BY <1>1, <1>2, <3>1
      <3> QED
        BY <1>2, <1>4, <2>1, <3>1, <3>2 DEF ResultOK
    <2> QED
      BY <2>2, <2>3 DEF ResultOK
  <1>5. ASSUME NEW s \in Objects
        PROVE  /\ Arith(g, s) => g.number[s].shared = s
               /\ \A c \in Ops(s) : Has(g, c) <=> Arith(g, s)
    <2>1. Ops(s) \subseteq Slots /\ \A c \in Ops(s) : Has(h, c) <=> Arith(h, s)
      BY <1>0, OperandNames DEF Shape
    <2>2. \A c \in Ops(s) : c \in G <=> s \in G
      BY DEF Closed
    <2>3. Arith(h, s) => h.number[s].shared = s
      BY DEF Shape
    <2> QED
      BY <1>0, <1>2, <2>1, <2>2, <2>3 DEF Arith
  <1>6. ASSUME NEW c \in Operands, Arith(g, c)
        PROVE  /\ Arith(h, c) /\ g.number[c] = h.number[c] /\ c \in Slots \ G
               /\ \A d \in Ops(g.number[c].shared) : ~Arith(g, d)
               /\ \A d \in Operands :
                    Arith(g, d) /\ g.number[c].shared = g.number[d].shared => c = d
    <2>1. Arith(h, c) /\ g.number[c] = h.number[c] /\ c \in Slots \ G
      BY <1>0, <1>1, <1>2, <1>6
    <2>2. \A d \in Ops(h.number[c].shared) : ~Arith(h, d) /\ d \in Slots
      BY <1>0, <2>1, Nested, OperandNames
    <2>3. \A d \in Operands :
            Arith(g, d) /\ g.number[c].shared = g.number[d].shared => c = d
      BY <1>0, <1>1, <1>2, <2>1 DEF Shape
    <2> QED
      BY <1>2, <2>1, <2>2, <2>3
  <1>7. Shape(g)
    <2>1. ~Arith(g, TmpA) /\ ~Arith(g, TmpB)
      BY <1>0, <1>2 DEF Closed
    <2> QED
      BY <1>1, <1>4, <1>5, <1>6, <2>1 DEF Shape
  <1>8. LentIn(g) = LentIn(h) \ G
    <2>1. ASSUME NEW o \in LentIn(g) PROVE o \in LentIn(h) \ G
      <3>1. PICK c \in Operands : Arith(g, c) /\ g.number[c].shared = o
        BY <2>1 DEF LentIn
      <3>2. o \in Objects /\ Arith(g, o)
        BY <2>1 DEF LentIn
      <3> QED
        BY <1>0, <1>2, <1>6, <3>1, <3>2 DEF LentIn
    <2>2. ASSUME NEW o \in LentIn(h) \ G PROVE o \in LentIn(g)
      <3>1. PICK c \in Operands : Arith(h, c) /\ h.number[c].shared = o
        BY <2>2 DEF LentIn
      <3>2. o \in Objects /\ Arith(h, o)
        BY <2>2 DEF LentIn
      <3>3. c \notin G
        BY <2>2, <3>1 DEF Closed
      <3>4. Arith(g, o) /\ Arith(g, c) /\ g.number[c] = h.number[c]
        BY <1>0, <1>1, <1>2, <2>2, <3>1, <3>2, <3>3
      <3> QED
        BY <3>1, <3>2, <3>4 DEF LentIn
    <2> QED
      BY <2>1, <2>2
  <1>9. ASSUME NEW c \in Slots \ G, Has(h, c) PROVE Place(g, c) = Place(h, c)
    <2>1. /\ g.number[c] = h.number[c] /\ g.cell[c] = h.cell[c]
          /\ h.number[c] \in Records /\ LeafOK(h, c)
      BY <1>0, <1>1, <1>9 DEF Shape, Heaps, Has
    <2>2. CASE h.number[c].tier = "automaton"
      BY <2>1, <2>2 DEF Place
    <2>3. CASE h.number[c].tier = "series"
      BY <2>1, <2>3 DEF Place, LeafOK
    <2>4. CASE h.number[c].tier = "arith"
      <3>1. h.number[c].shared \in Slots \ G
        BY <1>0, <1>3, <1>9, <2>4 DEF Arith
      <3>2. g.cell[h.number[c].shared] = h.cell[h.number[c].shared]
        BY <1>1, <3>1
      <3> QED
        BY <2>1, <2>4, <3>2 DEF Place
    <2> QED
      BY <2>1, <2>2, <2>3, <2>4 DEF Records
  <1> QED
    BY <1>1, <1>7, <1>8, <1>9 DEF Left, g

(* Of x and y, those that are temporaries. *)
Temporaries(x, y) == {t \in {x, y} : number[t].tier = "arith"}

\* A temporary that is not lent goes with all that it holds, and no other
\* object in use goes.
LEMMA GoneClosed ==
  ASSUME Careful, Shape(heap), NEW x \in Objects \ LentIn(heap), NEW y \in Objects \ LentIn(heap),
         Born(x), Born(y)
  PROVE  /\ Closed(heap, Gone({x, y}))
         /\ \A o \in Objects \ LentIn(heap) : o \in Gone({x, y}) <=> o \in Temporaries(x, y)
  <1> DEFINE T == Temporaries(x, y)
             G == Gone({x, y})
             Under(s) == \E o \in T : \E c \in Ops(o) : Arith(heap, c) /\ number[c].shared = s
  <1>0. /\ heap.number = number
        /\ \A t \in T : t \in Objects \ LentIn(heap) /\ Arith(heap, t)
    BY DEF heap, Temporaries, Arith, Has, Born
  <1>1. ASSUME NEW o \in T, NEW c \in Ops(o)
        PROVE  /\ c \in Operands /\ (number[c].tier = "arith" <=> Arith(heap, c))
               /\ Arith(heap, c) => number[c].shared \in Objects
    <2>1. c \in Operands /\ Has(heap, c)
      BY <1>0, <1>1, OperandNames DEF Shape
    <2> QED
      BY <1>0, <2>1, Nested DEF Arith
  <1>2. \A d : d \in G <=>
          \/ d = TmpA \/ d = TmpB
          \/ \E o \in T : d = o \/ d \in Ops(o)
          \/ \E o \in T : \E c \in Ops(o) :
               Arith(heap, c) /\ (d = number[c].shared \/ d \in Ops(number[c].shared))
    <2>1. \A o : Held(o) = {o} \cup Ops(o)
      BY DEF Held, Ops
    <2>2. G = {TmpA, TmpB} \cup UNION {Tree(o) : o \in T}
      BY DEF Gone, Careful, Temporaries
    <2>3. ASSUME NEW o \in T, NEW d
          PROVE  d \in Tree(o) <=>
                   \/ d = o \/ d \in Ops(o)
                   \/ \E c \in Ops(o) : /\ Arith(heap, c)
                                        /\ d = number[c].shared \/ d \in Ops(number[c].shared)
      <3>1. o \notin Ops(o)
        BY <1>0, OperandNames
      <3>2. {c \in Held(o) \ {o} : number[c].tier = "arith"} = {c \in Ops(o) : Arith(heap, c)}
        BY <1>1, <2>1, <3>1
      <3>3. Tree(o) = Held(o) \cup UNION {Held(number[c].shared) : c \in {c \in Ops(o) : Arith(heap, c)}}
        BY <3>2 DEF Tree
      <3> QED
        BY <2>1, <3>3
    <2> HIDE DEF T, G
    <2> QED
      BY <2>2, <2>3
  <1> HIDE DEF T, G
  <1>3. ASSUME NEW s \in Objects
        PROVE  /\ s \in G <=> s \in T \/ Under(s)
               /\ \A c \in Ops(s) : c \in G <=> s \in T \/ Under(s)
    <2>1. s # TmpA /\ s # TmpB
      BY NamesAssumption
    <2>2. s \in G <=> s \in T \/ Under(s)
      BY <1>0, <1>1, <1>2, <2>1, OperandNames
    <2>3. ASSUME NEW c \in Ops(s) PROVE c \in G <=> s \in T \/ Under(s)
      <3>1. c \in Operands /\ c # TmpA /\ c # TmpB /\ c \notin Objects
        BY OperandNames
      <3>2. \A o \in Objects : c \in Ops(o) <=> o = s
        BY OperandNames
      <3> QED
        BY <1>0, <1>1, <1>2, <3>1, <3>2
    <2> QED
      BY <2>2, <2>3
  <1>4. \A s \in Objects : Under(s) => s \in LentIn(heap)
    <2> SUFFICES ASSUME NEW s \in Objects, NEW o \in T, NEW c \in Ops(o),
                        Arith(heap, c), number[c].shared = s
                 PROVE  s \in LentIn(heap)
      OBVIOUS
    <2> QED
      BY <1>0, <1>1, Nested DEF LentIn
  <1>5. ASSUME NEW c \in Operands, Arith(heap, c)
        PROVE  c \in G <=> number[c].shared \in G
    <2> DEFINE i == number[c].shared
    <2>1. PICK s \in Objects : c \in Ops(s)
      BY OperandNames
    <2>2. i \in Objects /\ i \in LentIn(heap)
      BY <1>0, <1>5, Nested DEF LentIn
    <2>3. ~Under(s)
      <3> SUFFICES ASSUME NEW o \in T, NEW d \in Ops(o), Arith(heap, d), number[d].shared = s
                   PROVE  FALSE
        OBVIOUS
      <3> QED
        BY <1>0, <1>1, <1>5, <2>1, Nested
    <2>4. Under(i) <=> s \in T
      <3>1. ASSUME NEW o \in T, NEW d \in Ops(o), Arith(heap, d), number[d].shared = i
            PROVE  s \in T
        <4>1. d = c
          BY <1>0, <1>1, <1>5, <3>1 DEF Shape
        <4> QED
          BY <1>0, <2>1, <4>1, OperandNames
      <3> QED
        BY <1>5, <2>1, <3>1
    <2> HIDE DEF i, Under
    <2>5. i \notin T
      BY <1>0, <2>2
    <2> QED
      BY <1>3, <2>1, <2>2, <2>3, <2>4, <2>5 DEF i
  <1>6. TmpA \in G /\ TmpB \in G
    BY <1>2
  <1>7. Closed(heap, G)
    <2> HIDE DEF Under
    <2> QED
      BY <1>0, <1>3, <1>5, <1>6 DEF Closed
  <1>8. \A o \in Objects \ LentIn(heap) : o \in G <=> o \in T
    <2> HIDE DEF Under
    <2> QED
      BY <1>3, <1>4
  <1> QED
    BY <1>7, <1>8 DEF G, T

-----------------------------------------------------------------------------
(* Reading operations: what they pull, they pull from their own copies, or *)
(* from an arithmetic result that then goes.                               *)

(* The heap g is h after digits of Numbers of S. *)
Walked(h, g, S, pos) ==
  /\ Stable(h, g, Below(h) \cup S)
  /\ \A j \in Objects : Arith(h, j) /\ InStep(h, j, pos) => InStep(g, j, pos)
  /\ \A d \in Slots \ (Below(h) \cup S) : Has(h, d) => Place(g, d) = Place(h, d)

\* A walk goes on with digits of one more Number of S.
LEMMA WalkedOn ==
  ASSUME NEW h, NEW S, NEW pos, NEW g, Walked(h, g, S, pos),
         NEW c \in S, NEW k, NEW n, Advanced(g, k, c, n, pos)
  PROVE  Walked(h, k, S, pos)
  <1>1. /\ Below(g) = Below(h)
        /\ \A d \in Slots : (Has(g, d) <=> Has(h, d)) /\ (Arith(g, d) <=> Arith(h, d))
    BY LentKept DEF Walked, Stable
  <1>2. Stable(h, k, (Below(h) \cup S) \cup (Below(h) \cup {c}))
    BY <1>1, StableTwice DEF Walked, Advanced
  <1>3. (Below(h) \cup S) \cup (Below(h) \cup {c}) = Below(h) \cup S
    OBVIOUS
  <1>4. \A j \in Objects : Arith(h, j) /\ InStep(h, j, pos) => InStep(k, j, pos)
    BY <1>1 DEF Walked, Advanced, Slots
  <1>5. \A d \in Slots \ (Below(h) \cup S) : Has(h, d) => Place(k, d) = Place(h, d)
    BY <1>1 DEF Walked, Advanced
  <1> QED
    BY <1>2, <1>3, <1>4, <1>5 DEF Walked

(* The heap k is h but for a new leaf in t, a copy of the Number o. *)
CopyOf(h, k, o, t) ==
  /\ Shape(k) /\ Below(k) = Below(h) /\ LentIn(k) = LentIn(h) /\ k.cell = h.cell
  /\ \A d \in Slots : Arith(k, d) <=> Arith(h, d)
  /\ \A d \in Slots \ {t} : k.number[d] = h.number[d] /\ (Has(k, d) <=> Has(h, d))
  /\ \A d \in Slots : Has(h, d) => Place(k, d) = Place(h, d)
  /\ number[o].tier # "arith" => Has(k, t) /\ Place(k, t) = At(number[o])

LEMMA CopyMade ==
  ASSUME NEW h, Shape(h), NEW o, NEW t \in {TmpA, TmpB}, ~Has(h, t),
         Loose(number[o]) \/ number[o].tier = "arith"
  PROVE  CopyOf(h, Copied(h, o, t), o, t)
  <1>1. CASE number[o].tier = "arith"
    BY <1>1 DEF Copied, CopyOf
  <1>2. CASE number[o].tier # "arith"
    <2> DEFINE n == number[o]
               k == [h EXCEPT !.number[t] = n]
    <2>1. t \in Slots \ Operands /\ Loose(n) /\ h \in Heaps
      BY <1>2, OperandNames DEF Slots, Shape
    <2>2. /\ Shape(k) /\ Has(k, t)
          /\ k.number = [h.number EXCEPT ![t] = n] /\ k.cell = h.cell
          /\ LentIn(k) = LentIn(h) /\ Below(k) = Below(h)
          /\ Place(k, t) = At(n)
          /\ \A d \in Slots : Has(h, d) => Has(k, d) /\ Place(k, d) = Place(h, d)
          /\ \A d \in Slots : Arith(k, d) <=> Arith(h, d)
          /\ \A d \in Slots \ {t} : Has(k, d) <=> Has(h, d)
      BY <2>1, LeafAdded
    <2>3. Copied(h, o, t) = k
      BY <1>2 DEF Copied
    <2> HIDE DEF k, n
    <2>4. \A d \in Slots \ {t} : k.number[d] = h.number[d]
      BY <2>1, <2>2 DEF Heaps
    <2> QED
      BY <2>2, <2>3, <2>4 DEF CopyOf, n
  <1> QED
    BY <1>1, <1>2

(* The heap k is the one in which a reading operation of x and y starts. *)
Prepared(k, x, y) ==
  /\ Shape(k) /\ Below(k) = Below(heap) /\ LentIn(k) = LentIn(heap) /\ Captured(k, ideal)
  /\ \A d \in Slots : Arith(k, d) <=> Arith(heap, d)
  /\ \A d \in Slots \ {TmpA, TmpB} :
       /\ k.number[d] = number[d] /\ (Has(k, d) <=> Has(heap, d))
       /\ Has(heap, d) => Place(k, d) = Place(heap, d)
  /\ \A j \in Objects : Arith(k, j) => InStep(k, j, ideal)
  /\ \A r \in {Reader(x, TmpA), Reader(y, TmpB)} : r \in Slots \ Below(k) /\ Has(k, r)
  /\ Place(k, Reader(x, TmpA)) = ideal[x] /\ Place(k, Reader(y, TmpB)) = ideal[y]

(* What a client may give to a reading operation. *)
Taken(o) == /\ o \in Objects \ LentIn(heap) /\ Born(o)
            /\ Loose(number[o]) \/ number[o].tier = "arith"

LEMMA CopiesMade ==
  ASSUME Good(heap, ideal), NEW x, NEW y, Taken(x), Taken(y)
  PROVE  Prepared(WithCopies(x, y), x, y)
  <1> DEFINE f == Copied(heap, x, TmpA)
             k == Copied(f, y, TmpB)
  <1>0. /\ TmpA \in Slots \ Operands /\ TmpB \in Slots \ Operands /\ TmpA # TmpB
        /\ x \in Slots \ {TmpA, TmpB} /\ y \in Slots \ {TmpA, TmpB}
        /\ Objects \subseteq Slots /\ Operands \subseteq Slots
        /\ Objects \cap {TmpA, TmpB} = {} /\ Operands \cap {TmpA, TmpB} = {}
    BY OperandNames, NamesAssumption DEF Slots, Taken
  <1>1. /\ Shape(heap) /\ ~Has(heap, TmpA) /\ ~Has(heap, TmpB)
        /\ heap.number = number /\ heap.cell = cell
        /\ Place(heap, x) = ideal[x] /\ Place(heap, y) = ideal[y]
        /\ Captured(heap, ideal)
        /\ \A j \in Objects : Arith(heap, j) => InStep(heap, j, ideal)
    <2>1. heap.number = number /\ heap.cell = cell
      BY DEF heap
    <2> QED
      BY <1>0, <2>1 DEF Good, Has, Taken, Born, Captured
  <1>2. CopyOf(heap, f, x, TmpA)
    BY <1>1, CopyMade DEF Taken
  <1>3. Shape(f) /\ ~Has(f, TmpB)
    BY <1>0, <1>1, <1>2 DEF CopyOf
  <1> HIDE DEF f
  <1>4. CopyOf(f, k, y, TmpB)
    BY <1>3, CopyMade DEF Taken
  <1>5. WithCopies(x, y) = k
    BY DEF WithCopies, f
  <1> HIDE DEF k
  <1>6. /\ Shape(k) /\ Below(k) = Below(heap) /\ LentIn(k) = LentIn(heap) /\ k.cell = cell
        /\ \A d \in Slots : Arith(k, d) <=> Arith(heap, d)
        /\ \A d \in Slots \ {TmpA, TmpB} :
             /\ k.number[d] = number[d] /\ (Has(k, d) <=> Has(heap, d))
             /\ Has(heap, d) => Place(k, d) = Place(heap, d)
    BY <1>1, <1>2, <1>4 DEF CopyOf
  <1>7. Captured(k, ideal)
    BY <1>0, <1>1, <1>6 DEF Captured
  <1>8. ASSUME NEW j \in Objects, Arith(k, j) PROVE InStep(k, j, ideal)
    <2>1. InStep(heap, j, ideal)
      BY <1>0, <1>1, <1>6, <1>8
    <2>2. \A side \in Sides : Place(k, Operand(j, side)) = Place(heap, Operand(j, side))
      <3>1. ASSUME NEW side \in Sides
            PROVE  Operand(j, side) \in Slots \ {TmpA, TmpB} /\ Has(heap, Operand(j, side))
        BY <1>0, <1>1, <1>6, <1>8, OperandNames DEF Shape
      <3> QED
        BY <1>6, <3>1
    <2> QED
      BY <1>1, <1>6, <2>1, <2>2 DEF InStep
  <1>9. TmpA \notin Below(k) /\ TmpB \notin Below(k)
    BY <1>0 DEF Below, LentIn
  <1>10. /\ Reader(x, TmpA) \in Slots \ Below(k) /\ Has(k, Reader(x, TmpA))
         /\ Place(k, Reader(x, TmpA)) = ideal[x]
    <2>1. CASE number[x].tier = "arith"
      <3>1. Reader(x, TmpA) = x
        BY <2>1 DEF Reader
      <3>2. x \in Objects \ LentIn(k) /\ Has(heap, x)
        BY <1>0, <1>1, <1>6 DEF Taken, Has, Born
      <3>3. x \notin Below(k)
        BY <1>0, <3>2, OperandNames DEF Below
      <3> QED
        BY <1>0, <1>1, <1>6, <3>1, <3>2, <3>3
    <2>2. CASE number[x].tier # "arith"
      <3>1. Place(heap, x) = At(number[x])
        BY <1>0, <1>1, <2>2, LoosePlace DEF Taken
      <3>2. Has(f, TmpA) /\ Place(f, TmpA) = At(number[x])
        BY <1>2, <2>2 DEF CopyOf
      <3>3. Has(k, TmpA) /\ Place(k, TmpA) = Place(f, TmpA)
        BY <1>0, <1>4, <3>2 DEF CopyOf
      <3> QED
        BY <1>0, <1>1, <1>9, <2>2, <3>1, <3>2, <3>3 DEF Reader
    <2> QED
      BY <2>1, <2>2
  <1>11. /\ Reader(y, TmpB) \in Slots \ Below(k) /\ Has(k, Reader(y, TmpB))
         /\ Place(k, Reader(y, TmpB)) = ideal[y]
    <2>1. CASE number[y].tier = "arith"
      <3>1. Reader(y, TmpB) = y
        BY <2>1 DEF Reader
      <3>2. y \in Objects \ LentIn(k) /\ Has(heap, y)
        BY <1>0, <1>1, <1>6 DEF Taken, Has, Born
      <3>3. y \notin Below(k)
        BY <1>0, <3>2, OperandNames DEF Below
      <3> QED
        BY <1>0, <1>1, <1>6, <3>1, <3>2, <3>3
    <2>2. CASE number[y].tier # "arith"
      <3>1. Place(heap, y) = At(number[y])
        BY <1>0, <1>1, <2>2, LoosePlace DEF Taken
      <3>2. Has(k, TmpB) /\ Place(k, TmpB) = At(number[y])
        BY <1>4, <2>2 DEF CopyOf
      <3> QED
        BY <1>0, <1>1, <1>9, <2>2, <3>1, <3>2 DEF Reader
    <2> QED
      BY <2>1, <2>2
  <1> QED
    BY <1>5, <1>6, <1>7, <1>8, <1>10, <1>11 DEF Prepared

(* The store of values in which the temporaries T are gone. *)
Forgotten(f, T) == [o \in Objects |-> IF o \in T THEN Null ELSE f[o]]

\* A reading operation leaves the objects in use where they were, but for
\* its temporaries.
LEMMA ReadingEnds ==
  ASSUME Careful, Good(heap, ideal), NEW x, NEW y, Taken(x), Taken(y),
         NEW k, Prepared(k, x, y),
         NEW g, Walked(k, g, {Reader(x, TmpA), Reader(y, TmpB)}, ideal),
         NEW d, d = Dropped(g, Gone({x, y}))
  PROVE  /\ d \in Heaps
         /\ Good(d, Without(ideal, Gone({x, y})))
         /\ Seen(d) = Forgotten(Seen(heap), Temporaries(x, y))
         /\ \A o \in Objects \ LentIn(d) : Has(d, o) => Place(d, o) = Place(heap, o)
  <1> DEFINE G == Gone({x, y})
             T == Temporaries(x, y)
             R == {Reader(x, TmpA), Reader(y, TmpB)}
             at == Without(ideal, G)
  <1>0. /\ Objects \subseteq Slots /\ Operands \subseteq Slots
        /\ TmpA \in Slots /\ TmpB \in Slots
        /\ Objects \cap {TmpA, TmpB} = {} /\ Operands \cap {TmpA, TmpB} = {}
        /\ Objects \cap Operands = {}
        /\ heap.number = number /\ Shape(heap)
    BY OperandNames, NamesAssumption DEF Slots, heap, Good
  <1>1. /\ Closed(heap, G)
        /\ \A o \in Objects \ LentIn(heap) : o \in G <=> o \in T
    BY <1>0, GoneClosed DEF Taken
  <1>2. \A r \in R : r \in {TmpA, TmpB} \cup T
    BY DEF Reader, Temporaries
  <1> HIDE DEF G, T, R
  <1>3. /\ Stable(k, g, Below(k) \cup R) /\ Shape(g)
        /\ \A j \in Objects : Arith(k, j) /\ InStep(k, j, ideal) => InStep(g, j, ideal)
        /\ \A c \in Slots \ (Below(k) \cup R) : Has(k, c) => Place(g, c) = Place(k, c)
    BY DEF Walked, Stable, R
  <1>4. /\ LentIn(g) = LentIn(heap) /\ Below(k) = Below(heap)
        /\ \A c \in Slots : Arith(g, c) <=> Arith(heap, c)
        /\ \A c \in Slots \ {TmpA, TmpB} :
             /\ Has(g, c) <=> Has(heap, c)
             /\ Arith(heap, c) => g.number[c] = number[c]
    BY <1>3, LentKept DEF Prepared, Stable
  <1>5. Closed(g, G)
    BY <1>0, <1>1, <1>4 DEF Closed
  <1>6. d = Dropped(g, G)
    BY DEF G
  <1>7. /\ Shape(d) /\ LentIn(d) = LentIn(g) \ G
        /\ \A c \in Slots \cap G : d.number[c] = Null /\ d.cell[c] = Null
        /\ \A c \in Slots \ G : /\ d.number[c] = g.number[c] /\ d.cell[c] = g.cell[c]
                                /\ Has(g, c) => Place(d, c) = Place(g, c)
    <2>1. Left(g, G, Dropped(g, G))
      BY <1>3, <1>5, ShapeDropped
    <2> QED
      BY <1>6, <2>1 DEF Left
  <1>8. TmpA \in G /\ TmpB \in G
    BY <1>1 DEF Closed
  <1>9. \A c \in Slots : /\ Has(d, c) <=> Has(heap, c) /\ c \notin G
                         /\ Arith(d, c) <=> Arith(heap, c) /\ c \notin G
    BY <1>4, <1>7, <1>8 DEF Has, Arith
  <1>10. /\ at \in [Slots -> Places \cup {Null}]
         /\ \A c \in Slots \ G : at[c] = ideal[c]
    BY DEF Without, Good
  <1> HIDE DEF at
  <1>11. \A c \in Slots : Has(d, c) => at[c] \in Places
    BY <1>9, <1>10 DEF Good
  <1>12. ASSUME NEW s \in Objects, Arith(d, s) PROVE InStep(d, s, at)
    <2>1. Arith(k, s) /\ s \in Slots \ G
      BY <1>0, <1>9, <1>12 DEF Prepared
    <2>2. InStep(g, s, ideal)
      BY <1>3, <2>1 DEF Prepared
    <2>3. ASSUME NEW side \in Sides
          PROVE  Operand(s, side) \in Slots \ G /\ Has(g, Operand(s, side))
      <3>1. Operand(s, side) \in Ops(s) /\ Operand(s, side) \in Slots
        BY <1>0, OperandNames
      <3>2. Operand(s, side) \notin G
        BY <1>1, <2>1, <3>1 DEF Closed
      <3>3. Arith(g, s)
        BY <1>0, <1>4, <1>9, <1>12
      <3> QED
        BY <1>3, <3>1, <3>2, <3>3 DEF Shape
    <2>4. \A side \in Sides : /\ Place(d, Operand(s, side)) = Place(g, Operand(s, side))
                              /\ at[Operand(s, side)] = ideal[Operand(s, side)]
      BY <1>7, <1>10, <2>3
    <2>5. d.cell[s] = g.cell[s]
      BY <1>7, <2>1
    <2> QED
      BY <2>2, <2>4, <2>5 DEF InStep
  <1>13. ASSUME NEW o \in Objects \ LentIn(d), Has(d, o)
         PROVE  /\ o \in Objects \ LentIn(heap) /\ o \notin T /\ Has(heap, o)
                /\ Place(d, o) = Place(heap, o) /\ at[o] = ideal[o]
    <2>1. o \in Slots \ G /\ Has(heap, o) /\ o \notin LentIn(heap)
      BY <1>0, <1>4, <1>7, <1>9, <1>13
    <2>2. o \notin T /\ o \notin R /\ o \notin Below(k) /\ o \notin {TmpA, TmpB}
      BY <1>0, <1>1, <1>2, <1>4, <2>1 DEF Below
    <2>3. Has(k, o) /\ Place(k, o) = Place(heap, o)
      BY <2>1, <2>2 DEF Prepared
    <2>4. Place(g, o) = Place(k, o) /\ Has(g, o)
      BY <1>3, <1>4, <2>1, <2>2, <2>3
    <2> QED
      BY <1>7, <1>10, <2>1, <2>2, <2>3, <2>4
  <1>14. \A o \in Objects \ LentIn(d) : Has(d, o) => Place(d, o) = at[o]
    BY <1>13 DEF Good
  <1>15. Good(d, at)
    BY <1>0, <1>7, <1>8, <1>10, <1>11, <1>12, <1>14 DEF Good
  <1>16. ASSUME NEW o \in Objects PROVE Seen(d)[o] = Forgotten(Seen(heap), T)[o]
    <2>1. CASE Has(d, o) /\ o \notin LentIn(d)
      BY <1>13, <2>1 DEF Seen, Forgotten
    <2>2. CASE ~(Has(d, o) /\ o \notin LentIn(d))
      <3>1. Seen(d)[o] = Null
        BY <2>2 DEF Seen
      <3>2. o \in T \/ Seen(heap)[o] = Null
        BY <1>0, <1>1, <1>4, <1>7, <1>9, <2>2 DEF Seen
      <3> QED
        BY <3>1, <3>2 DEF Forgotten
    <2> QED
      BY <2>1, <2>2
  <1>17. Seen(d) = Forgotten(Seen(heap), T)
    BY <1>16 DEF Seen, Forgotten
  <1>18. d \in Heaps
    BY <1>7 DEF Shape
  <1> QED
    BY <1>13, <1>15, <1>17, <1>18 DEF at, G, T

(* The outcomes of a comparison, and what it may have reached from k on,   *)
(* reading digits of a and b.                                              *)
Verdicts == {"pending", "equal", "less", "greater"}
Reached(k, a, b, pos) == [heap : {g \in Heaps : Walked(k, g, {a, b}, pos)}, said : Verdicts]

(* The digits that a comparison reads, from the places p and q on. *)
Agree(p, q, m) == DigitAt(Beyond(p, m)) = DigitAt(Beyond(q, m))

(* What i turns from p and q have found: no difference, or the first. *)
Compared(r, a, b, i, p, q) ==
  /\ r.said = "equal" =>
       /\ Place(r.heap, a) = Beyond(p, i) /\ Place(r.heap, b) = Beyond(q, i)
       /\ \A m \in 0..(i - 1) : Agree(p, q, m)
  /\ r.said \in {"less", "greater"} =>
       \E m \in 0..(i - 1) :
         /\ ~Agree(p, q, m) /\ \A l \in 0..(m - 1) : Agree(p, q, l)
         /\ r.said = Order(DigitAt(Beyond(p, m)), DigitAt(Beyond(q, m)))

\* Both readers are pulled in a turn.
LEMMA TurnWalks ==
  ASSUME NEW k, Shape(k), NEW pos, Captured(k, pos),
         NEW a \in Slots \ Below(k), Has(k, a), NEW b \in Slots \ Below(k), Has(k, b), a # b,
         NEW f, Walked(k, f, {a, b}, pos), NEW m \in Nat, NEW n \in Nat, NEW pa, NEW pb,
         NEW h \in Pulls(f, a, m, pa), NEW g \in Pulls(h, b, n, pb)
  PROVE  /\ Walked(k, g, {a, b}, pos) /\ g \in Heaps
         /\ Place(g, a) = Beyond(Place(f, a), m) /\ Place(h, b) = Place(f, b)
         /\ Place(g, b) = Beyond(Place(f, b), n)
  <1>1. /\ Shape(f) /\ Below(f) = Below(k) /\ Captured(f, pos) /\ Has(f, a) /\ Has(f, b)
    BY LentKept DEF Walked, Stable
  <1>2. Advanced(f, h, a, m, pos)
    BY <1>1, PulledMoves
  <1>3. Walked(k, h, {a, b}, pos)
    BY <1>2, WalkedOn
  <1>4. /\ Shape(h) /\ Below(h) = Below(k) /\ Captured(h, pos) /\ Has(h, a) /\ Has(h, b)
    <2>1. Stable(k, h, Below(k) \cup {a, b})
      BY <1>3 DEF Walked
    <2>2. Below(h) = Below(k) /\ (Captured(k, pos) <=> Captured(h, pos))
      BY <2>1, LentKept
    <2> QED
      BY <2>1, <2>2 DEF Stable
  <1>5. Advanced(h, g, b, n, pos)
    BY <1>4, PulledMoves
  <1>6. Walked(k, g, {a, b}, pos)
    BY <1>3, <1>5, WalkedOn
  <1>7. g \in Heaps
    BY <1>6 DEF Walked, Stable, Shape
  <1>8. Place(h, a) = Beyond(Place(f, a), m) /\ Place(h, b) = Place(f, b)
    BY <1>1, <1>2 DEF Advanced
  <1>9. Place(g, b) = Beyond(Place(h, b), n) /\ Place(g, a) = Place(h, a)
    BY <1>4, <1>5 DEF Advanced
  <1> QED
    BY <1>6, <1>7, <1>8, <1>9

\* A turn compares the next digit of both readers.
LEMMA TurnCompares ==
  ASSUME NEW k, Shape(k), NEW pos, Captured(k, pos),
         NEW a \in Slots \ Below(k), Has(k, a), NEW b \in Slots \ Below(k), Has(k, b), a # b,
         NEW p \in Places, NEW q \in Places, NEW i \in Nat,
         NEW r \in Reached(k, a, b, pos), r.said = "equal", Compared(r, a, b, i, p, q),
         NEW t \in Turns(r, a, b)
  PROVE  t \in Reached(k, a, b, pos) /\ Compared(t, a, b, i + 1, p, q)
  <1> DEFINE f == r.heap
             da == DigitAt(Beyond(p, i))
             db == DigitAt(Beyond(q, i))
             Many(pends) == IF pends THEN 0 ELSE 1
             Outcome(h, pa, pb) ==
               IF pa \/ pb THEN "pending"
               ELSE Order(DigitAt(Place(f, a)), DigitAt(Place(h, b)))
  <1>1. /\ Walked(k, f, {a, b}, pos)
        /\ Place(f, a) = Beyond(p, i) /\ Place(f, b) = Beyond(q, i)
        /\ \A m \in 0..(i - 1) : Agree(p, q, m)
    BY DEF Compared, Reached
  <1>2. PICK pa \in BOOLEAN, pb \in BOOLEAN :
          \E h \in Pulls(f, a, Many(pa), pa) : \E g \in Pulls(h, b, Many(pb), pb) :
            t = [heap |-> g, said |-> Outcome(h, pa, pb)]
    BY DEF Turns
  <1>3. PICK h \in Pulls(f, a, Many(pa), pa) :
          \E g \in Pulls(h, b, Many(pb), pb) : t = [heap |-> g, said |-> Outcome(h, pa, pb)]
    BY <1>2
  <1>4. PICK g \in Pulls(h, b, Many(pb), pb) : t = [heap |-> g, said |-> Outcome(h, pa, pb)]
    BY <1>3
  <1>5. Many(pa) \in Nat /\ Many(pb) \in Nat /\ (~pa => Many(pa) = 1) /\ (~pb => Many(pb) = 1)
    OBVIOUS
  <1> HIDE DEF f, Many
  <1>6. /\ Walked(k, g, {a, b}, pos) /\ g \in Heaps
        /\ Place(g, a) = Beyond(Place(f, a), Many(pa)) /\ Place(h, b) = Place(f, b)
        /\ Place(g, b) = Beyond(Place(f, b), Many(pb))
    BY <1>1, <1>3, <1>4, <1>5, TurnWalks
  <1>7. /\ Beyond(Beyond(p, i), 1) = Beyond(p, i + 1)
        /\ Beyond(Beyond(q, i), 1) = Beyond(q, i + 1)
    BY BeyondTwice
  <1>8. Agree(p, q, i) <=> da = db
    BY DEF Agree
  <1>9. t.heap = g /\ t.said = IF pa \/ pb THEN "pending" ELSE Order(da, db)
    BY <1>1, <1>4, <1>6
  <1> HIDE DEF da, db
  <1>10. /\ Order(da, db) \in {"equal", "less", "greater"}
         /\ Order(da, db) = "equal" <=> da = db
    BY DEF Order
  <1>11. t \in Reached(k, a, b, pos)
    <2>1. t.said \in Verdicts
      BY <1>9, <1>10 DEF Verdicts
    <2>2. t = [heap |-> t.heap, said |-> t.said]
      BY <1>4
    <2> QED
      BY <1>6, <1>9, <2>1, <2>2 DEF Reached
  <1>12. 0..((i + 1) - 1) = 0..(i - 1) \cup {i} /\ i \in 0..((i + 1) - 1)
    OBVIOUS
  <1>13. CASE t.said = "equal"
    <2>1. ~pa /\ ~pb /\ da = db
      BY <1>9, <1>10, <1>13
    <2>2. Place(g, a) = Beyond(p, i + 1) /\ Place(g, b) = Beyond(q, i + 1)
      BY <1>1, <1>5, <1>6, <1>7, <2>1
    <2>3. \A m \in 0..((i + 1) - 1) : Agree(p, q, m)
      BY <1>1, <1>8, <1>12, <2>1
    <2> QED
      BY <1>9, <1>11, <1>13, <2>2, <2>3 DEF Compared
  <1>14. CASE t.said # "equal"
    <2>1. ASSUME t.said \in {"less", "greater"}
          PROVE  /\ ~Agree(p, q, i) /\ \A l \in 0..(i - 1) : Agree(p, q, l)
                 /\ t.said = Order(DigitAt(Beyond(p, i)), DigitAt(Beyond(q, i)))
      BY <1>1, <1>8, <1>9, <1>10, <1>14, <2>1 DEF da, db
    <2> QED
      BY <1>11, <1>12, <1>14, <2>1 DEF Compared
  <1> QED
    BY <1>13, <1>14

(* The turns of a comparison of n digits, from the heap k on. *)
Turning(k, a, b, n) ==
  LET runs[i \in 0..n] ==
        IF i = 0 THEN {[heap |-> k, said |-> "equal"]}
        ELSE UNION {IF r.said = "equal" THEN Turns(r, a, b) ELSE {r} : r \in runs[i - 1]}
  IN  runs

\* All outcomes of a comparison have only walked, and say what they found.
LEMMA ComparisonsFind ==
  ASSUME NEW k, Shape(k), NEW pos, Captured(k, pos),
         NEW a \in Slots \ Below(k), Has(k, a), NEW b \in Slots \ Below(k), Has(k, b), a # b,
         \A j \in Objects : Arith(k, j) => InStep(k, j, pos), NEW n \in Nat
  PROVE  \A r \in Turning(k, a, b, n)[n] :
           /\ r \in Reached(k, a, b, pos)
           /\ Compared(r, a, b, n, Place(k, a), Place(k, b))
  <1> DEFINE R == Reached(k, a, b, pos)
             A == SUBSET R
             p == Place(k, a)
             q == Place(k, b)
             On(r) == IF r.said = "equal" THEN Turns(r, a, b) ELSE {r}
             Do(S) == UNION {On(r) : r \in S}
             c == {[heap |-> k, said |-> "equal"]}
             runs == Turning(k, a, b, n)
             OK(i, S) == \A r \in S : r \in R /\ Compared(r, a, b, i, p, q)
  <1>1. p \in Places /\ q \in Places
    BY PlaceTyped
  <1>2. Walked(k, k, {a, b}, pos) /\ k \in Heaps
    BY DEF Walked, Stable, Shape
  <1>3. c \in A
    BY <1>2 DEF Reached, Verdicts
  (* Where turns lead, whatever they find. *)
  <1>4. ASSUME NEW r \in R, r.said = "equal", NEW t \in Turns(r, a, b) PROVE t \in R
    <2> DEFINE P == Place(r.heap, a)
               Q == Place(r.heap, b)
    <2>1. Shape(r.heap) /\ Has(r.heap, a) /\ Has(r.heap, b)
      BY <1>4 DEF Reached, Walked, Stable
    <2>2. P \in Places /\ Q \in Places
      BY <2>1, PlaceTyped
    <2>3. Beyond(P, 0) = P /\ Beyond(Q, 0) = Q
      BY <2>2, BeyondTwice
    <2>4. Compared(r, a, b, 0, P, Q)
      BY <1>4, <2>3 DEF Compared
    <2> HIDE DEF P, Q
    <2> QED
      BY <1>4, <2>2, <2>4, TurnCompares
  <1> HIDE DEF R, p, q
  <1>5. \A S \in A : Do(S) \in A
    BY <1>4
  <1> DEFINE F == [i \in Nat |-> [S \in A |-> Do(S)]]
  <1>6. F \in [Nat -> [A -> A]]
    BY <1>5
  <1>7. PICK s \in [Nat -> A] : Runs(s, c, F)
    <2> HIDE DEF A, F, c
    <2> QED
      BY <1>3, <1>6, PrimitiveRecursion
  <1>8. s[0] = c /\ \A i \in Nat : s[i + 1] = Do(s[i])
    BY <1>7 DEF Runs
  <1> HIDE DEF A, F, Do, c
  <1> DEFINE t == [i \in 0..n |-> s[i]]
  <1>9. ASSUME NEW i \in 0..n PROVE s[i] = IF i = 0 THEN c ELSE Do(t[i - 1])
    <2>1. CASE i = 0
      BY <1>8, <2>1
    <2>2. CASE i # 0
      <3>1. i - 1 \in Nat /\ i - 1 \in 0..n /\ (i - 1) + 1 = i
        BY <2>2
      <3>2. s[(i - 1) + 1] = Do(s[i - 1])
        BY <1>8, <3>1
      <3> QED
        BY <2>2, <3>1, <3>2
    <2> QED
      BY <2>1, <2>2
  <1>10. t = [i \in 0..n |-> IF i = 0 THEN c ELSE Do(t[i - 1])]
    BY <1>9
  <1> HIDE DEF t
  <1>11. runs = [i \in 0..n |-> IF i = 0 THEN c ELSE Do(runs[i - 1])]
    BY <1>10 DEF Turning, c, Do
  <1> HIDE DEF runs
  <1> DEFINE U == {i \in Nat : OK(i, runs[i])}
  <1>12. 0 \in U
    <2>1. runs[0] = c
      BY <1>11
    <2>2. Beyond(p, 0) = p /\ Beyond(q, 0) = q
      BY <1>1, BeyondTwice
    <2>3. \A r \in c : Compared(r, a, b, 0, p, q)
      BY <2>2 DEF Compared, c, p, q
    <2> QED
      BY <1>3, <2>1, <2>3 DEF A
  <1>13. ASSUME NEW i \in Nat, i < n, i \in U PROVE i + 1 \in U
    <2>1. i + 1 \in 0..n /\ (i + 1) - 1 = i /\ i + 1 # 0
      BY <1>13
    <2>2. runs[i + 1] = Do(runs[i])
      BY <1>11, <2>1
    <2>3. ASSUME NEW u \in runs[i + 1] PROVE u \in R /\ Compared(u, a, b, i + 1, p, q)
      <3>1. PICK r \in runs[i] : u \in On(r)
        BY <2>2, <2>3 DEF Do
      <3>2. r \in R /\ Compared(r, a, b, i, p, q)
        BY <1>13
      <3>3. CASE r.said = "equal"
        BY <1>1, <3>1, <3>2, <3>3, TurnCompares DEF R
      <3>4. CASE r.said # "equal"
        BY <1>13, <3>1, <3>2, <3>4 DEF Compared
      <3> QED
        BY <3>3, <3>4
    <2> QED
      BY <2>3
  <1>14. \A i \in 0..n : i \in U
    <2> HIDE DEF U
    <2> QED
      BY <1>12, <1>13, BoundedInduction
  <1>15. OK(n, runs[n])
    BY <1>14
  <1> QED
    BY <1>15 DEF R, p, q, runs

\* What a comparison has found is what the digits of the two values say.
LEMMA FoundIsIdeal ==
  ASSUME NEW x, NEW y, NEW a, NEW b, NEW n \in Nat, NEW r,
         Compared(r, a, b, n, ideal[x], ideal[y]), r.said \in Verdicts, r.said # "pending"
  PROVE  r.said = IdealOrder(x, y, n)
  <1> DEFINE p == ideal[x]
             q == ideal[y]
             D == {l \in 0..(n - 1) :
                     DigitAt(Beyond(ideal[x], l)) # DigitAt(Beyond(ideal[y], l))}
  <1>1. \A l \in 0..(n - 1) : l \in D <=> ~Agree(p, q, l)
    BY DEF Agree
  <1>2. D \subseteq 0..(n - 1)
    OBVIOUS
  <1>3. IdealOrder(x, y, n)
          = IF D = {} THEN "equal"
            ELSE Order(DigitAt(Beyond(p, Min(D))), DigitAt(Beyond(q, Min(D))))
    BY DEF IdealOrder
  <1> HIDE DEF D
  <1>4. CASE r.said = "equal"
    <2>1. D = {}
      BY <1>1, <1>2, <1>4 DEF Compared
    <2> QED
      BY <1>3, <1>4, <2>1
  <1>5. CASE r.said # "equal"
    <2>1. PICK m \in 0..(n - 1) :
             /\ ~Agree(p, q, m) /\ \A l \in 0..(m - 1) : Agree(p, q, l)
             /\ r.said = Order(DigitAt(Beyond(p, m)), DigitAt(Beyond(q, m)))
      BY <1>5 DEF Compared, Verdicts
    <2>2. m \in D /\ \A l \in D : m <= l
      BY <1>1, <1>2, <2>1
    <2>3. Min(D) = m
      <3>1. \A l \in D : (\A j \in D : l <= j) => l = m
        BY <1>2, <2>2
      <3> QED
        BY <2>2, <3>1 DEF Min
    <2> QED
      BY <1>3, <2>1, <2>2, <2>3
  <1> QED
    BY <1>4, <1>5

-----------------------------------------------------------------------------
(* The store of values that the client sees.                               *)

store == [o \in Objects |-> IF InUse(o) THEN Place(heap, o) ELSE Null]

LEMMA StoreIsSeen ==
  ASSUME IInv, Careful
  PROVE  /\ store = Seen(heap)
         /\ \A o \in Objects : InUse(o) <=> Born(o) /\ o \notin LentIn(heap)
         /\ \A o \in Objects : Born(o) <=> Has(heap, o)
         /\ \A o \in Objects :
              InUse(o) => store[o] = ideal[o] /\ Place(heap, o) = ideal[o] /\ ideal[o] \in Places
         /\ \A o \in Objects : store[o] = Null <=> ~InUse(o)
  <1>1. Shape(heap) /\ \A o \in Objects : Born(o) <=> Has(heap, o)
    BY DEF IInv, Good, Born, Has, heap
  <1>2. \A o \in Objects : InUse(o) <=> Born(o) /\ o \notin LentIn(heap)
    BY <1>1, LentIsLent
  <1>3. \A o \in Objects :
          InUse(o) => Place(heap, o) = ideal[o] /\ ideal[o] \in Places
    BY <1>1, <1>2 DEF IInv, Good, Slots
  <1> QED
    BY <1>1, <1>2, <1>3, NullAssumption DEF store, Seen

\* The same, of the state after a step.
LEMMA StoreIsSeenNext == IInv' /\ Careful => store' = Seen(heap')
  <1>1. IInv /\ Careful => store = Seen(heap)
    BY StoreIsSeen
  <1>2. (IInv /\ Careful => store = Seen(heap))'
    BY <1>1, PTL
  <1> QED
    BY <1>2 DEF Careful

\* The steps of the store.
LEMMA StoreSteps ==
  ASSUME NEW c \in Objects, store[c] = Null
  PROVE  /\ \A b \in Bases : store' = [store EXCEPT ![c] = Start(b)] => Values!Next
         /\ \A o \in Objects : store[o] # Null =>
              /\ \A n \in Skips \cup {0} :
                   store' = [store EXCEPT ![c] = Beyond(store[o], n)] => Values!Next
              /\ \A b \in Bases :
                   store' = [store EXCEPT ![c] = [store[o] EXCEPT !.base = b]] => Values!Next
              /\ \A d \in Objects \ {c} :
                   store[d] = Null /\ store' = [store EXCEPT ![c] = store[o], ![d] = store[o]]
                     => Values!Next
              /\ \A y \in Objects : \A T \in SUBSET {o, y} :
                   /\ store[y] # Null
                   /\ store' = Replaced(store, T, c, Start(store[o].base))
                   => Values!Next
  <1> DEFINE Free == {o \in Objects : store[o] = Null}
  <1>1. Values!Free = Free /\ Values!Used = Objects \ Free
    BY DEF Values!Free, Values!Used, store
  <1>2. ASSUME NEW b \in Bases, store' = [store EXCEPT ![c] = Start(b)] PROVE Values!Next
    BY <1>1, <1>2 DEF Values!Next, Values!Make, store, Start, Unread, Values!Start, Values!Unread
  <1>3. ASSUME NEW o \in Objects, store[o] # Null, NEW n \in Skips \cup {0},
               store' = [store EXCEPT ![c] = Beyond(store[o], n)]
        PROVE  Values!Next
    <2>1. Values!Copy(o, c, n)
      BY <1>3 DEF Values!Copy, store, Beyond, Values!Beyond
    <2>2. c \in Values!Free /\ o \in Values!Used
      BY <1>1, <1>3
    <2> QED
      BY <2>1, <2>2 DEF Values!Next
  <1>4. ASSUME NEW o \in Objects, store[o] # Null, NEW b \in Bases,
               store' = [store EXCEPT ![c] = [store[o] EXCEPT !.base = b]]
        PROVE  Values!Next
    <2>1. Values!Rebase(o, c, b)
      BY <1>4 DEF Values!Rebase, store
    <2>2. c \in Values!Free /\ o \in Values!Used
      BY <1>1, <1>4
    <2> QED
      BY <2>1, <2>2 DEF Values!Next
  <1>5. ASSUME NEW o \in Objects, store[o] # Null, NEW d \in Objects \ {c}, store[d] = Null,
               store' = [store EXCEPT ![c] = store[o], ![d] = store[o]]
        PROVE  Values!Next
    <2>1. Values!Fork(o, c, d)
      BY <1>5 DEF Values!Fork, store
    <2>2. c \in Values!Free /\ d \in Values!Free \ {c} /\ o \in Values!Used
      BY <1>1, <1>5
    <2> QED
      BY <2>1, <2>2 DEF Values!Next
  <1>6. ASSUME NEW o \in Objects, store[o] # Null, NEW y \in Objects, store[y] # Null,
               NEW T \in SUBSET {o, y},
               store' = Replaced(store, T, c, Start(store[o].base))
        PROVE  Values!Next
    <2>1. Values!Combine(o, y, c)
      BY <1>6 DEF Values!Combine, Replaced, store, Start, Unread, Values!Start, Values!Unread
    <2>2. c \in Values!Free /\ o \in Values!Used /\ y \in Values!Used
      BY <1>1, <1>6
    <2> QED
      BY <2>1, <2>2 DEF Values!Next
  <1> QED
    BY <1>2, <1>3, <1>4, <1>5, <1>6

LEMMA StoreForget ==
  ASSUME NEW x \in Objects, store[x] # Null, NEW y \in Objects, store[y] # Null,
         NEW T \in SUBSET {x, y}, store' = Forgotten(store, T)
  PROVE  Values!Next
  <1>1. Values!Forget(x, y)
    BY DEF Values!Forget, Forgotten, store
  <1>2. x \in Values!Used /\ y \in Values!Used
    BY DEF Values!Used, Values!Free, store
  <1> QED
    BY <1>1, <1>2 DEF Values!Next

LEMMA StorePull ==
  ASSUME NEW o \in Objects, store[o] # Null, store' = [store EXCEPT ![o] = Beyond(@, 1)]
  PROVE  Values!Next
  BY DEF Values!Next, Values!Pull, Values!Free, Values!Used, store, Beyond, Values!Beyond

-----------------------------------------------------------------------------
(* Every action keeps the invariant and is a step of the store.            *)

\* One new leaf.
LEMMA AddStep ==
  ASSUME IInv, Careful, NEW c \in Objects, ~Born(c), NEW n, Loose(n),
         number' = [number EXCEPT ![c] = n], ideal' = [ideal EXCEPT ![c] = At(n)],
         UNCHANGED cell, verdict' = NoVerdict
  PROVE  IInv' /\ store[c] = Null /\ store' = [store EXCEPT ![c] = At(n)]
  <1>1. heap' = [heap EXCEPT !.number[c] = n]
    BY DEF heap
  <1>2. Good(heap, ideal) /\ ~Has(heap, c)
    BY DEF IInv, Has, Born, heap
  <1>3. Good(heap', ideal') /\ Seen(heap') = [Seen(heap) EXCEPT ![c] = At(n)]
    BY <1>1, <1>2, GoodAdded
  <1>4. IInv'
    BY <1>3 DEF IInv, NoFalseVerdict, NoVerdict
  <1>5. store' = Seen(heap')
    BY <1>4, StoreIsSeenNext
  <1> QED
    BY <1>3, <1>4, <1>5, StoreIsSeen DEF InUse

\* What a careful client copies from is a value in use, at its place.
LEMMA Source ==
  ASSUME IInv, Careful, NEW o \in Objects,
         MayCopy(o) \/ (Born(o) /\ number[o].tier = "automaton")
  PROVE  /\ Loose(number[o]) /\ number[o].tier # "arith" /\ ideal[o] = At(number[o])
         /\ store[o] = At(number[o]) /\ store[o] # Null /\ At(number[o]) \in Places
  <1>1. Loose(number[o]) /\ InUse(o)
    BY CopiesAreLoose DEF IInv, Good
  <1>2. Place(heap, o) = At(number[o]) /\ At(number[o]) \in Places
    BY <1>1, LoosePlace DEF heap, Slots
  <1> QED
    BY <1>1, <1>2, StoreIsSeen DEF Loose

LEMMA MakeStepKeeps ==
  ASSUME IInv, Careful, NEW o \in Objects, NEW c \in Objects
  PROVE  /\ \A t \in Tiers, b \in Bases : Construct(o, t, b) => IInv' /\ Values!Next
         /\ CopyTo(o, c) => IInv' /\ Values!Next
         /\ \A b \in Bases : InBase(o, c, b) => IInv' /\ Values!Next
         /\ \A n \in Skips : Skip(o, c, n) => IInv' /\ Values!Next
  <1>1. ASSUME NEW t \in Tiers, NEW b \in Bases, Construct(o, t, b)
        PROVE  IInv' /\ Values!Next
    <2> DEFINE n == Fresh(t, b)
    <2>1. Loose(n) /\ At(n) = Start(b)
      BY <1>1, TiersAssumption DEF Construct, Loose, Fresh, Records, At, Start, Unread
    <2>2. /\ ~Born(o) /\ number' = [number EXCEPT ![o] = n]
          /\ ideal' = [ideal EXCEPT ![o] = At(n)] /\ UNCHANGED cell /\ verdict' = NoVerdict
      BY <1>1, <2>1 DEF Construct
    <2> HIDE DEF n
    <2>3. IInv' /\ store[o] = Null /\ store' = [store EXCEPT ![o] = At(n)]
      BY <2>1, <2>2, AddStep
    <2> QED
      BY <2>1, <2>3, StoreSteps
  <1>2. ASSUME CopyTo(o, c) PROVE IInv' /\ Values!Next
    <2>1. /\ MayCopy(o) /\ ~Born(c) /\ number' = [number EXCEPT ![c] = number[o]]
          /\ ideal' = [ideal EXCEPT ![c] = ideal[o]] /\ UNCHANGED cell /\ verdict' = NoVerdict
      BY <1>2 DEF CopyTo, Derived
    <2>2. /\ Loose(number[o]) /\ ideal[o] = At(number[o]) /\ store[o] = At(number[o])
          /\ store[o] # Null /\ At(number[o]) \in Places
      BY <2>1, Source
    <2>3. IInv' /\ store[c] = Null /\ store' = [store EXCEPT ![c] = store[o]]
      BY <2>1, <2>2, AddStep
    <2>4. Beyond(store[o], 0) = store[o]
      BY <2>2, BeyondTwice
    <2> QED
      BY <2>2, <2>3, <2>4, StoreSteps
  <1>3. ASSUME NEW b \in Bases, InBase(o, c, b) PROVE IInv' /\ Values!Next
    <2> DEFINE n == [number[o] EXCEPT !.base = b]
    <2>1. MayCopy(o) /\ ~Born(c) /\ UNCHANGED cell /\ verdict' = NoVerdict
      BY <1>3 DEF InBase, Derived
    <2>2. /\ Loose(number[o]) /\ ideal[o] = At(number[o]) /\ store[o] = At(number[o])
          /\ store[o] # Null /\ number[o].tier # "arith"
      BY <2>1, Source
    <2>3. Loose(n) /\ At(n) = [At(number[o]) EXCEPT !.base = b]
      BY <2>2 DEF Loose, Records, At
    <2>4. /\ number' = [number EXCEPT ![c] = n]
          /\ ideal' = [ideal EXCEPT ![c] = At(n)]
      BY <1>3, <2>2, <2>3 DEF InBase, Derived
    <2> HIDE DEF n
    <2>5. IInv' /\ store[c] = Null /\ store' = [store EXCEPT ![c] = At(n)]
      BY <2>1, <2>3, <2>4, AddStep
    <2>6. store' = [store EXCEPT ![c] = [store[o] EXCEPT !.base = b]]
      BY <2>2, <2>3, <2>5
    <2>7. \A e \in Bases :
            store' = [store EXCEPT ![c] = [store[o] EXCEPT !.base = e]] => Values!Next
      BY <2>2, <2>5, StoreSteps
    <2> HIDE DEF Values!Next
    <2> QED
      BY <2>5, <2>6, <2>7
  <1>4. ASSUME NEW i \in Skips, Skip(o, c, i) PROVE IInv' /\ Values!Next
    <2> DEFINE n == [number[o] EXCEPT !.read[number[o].base] = @ + i]
    <2>1. /\ Born(o) /\ number[o].tier = "automaton" /\ ~Born(c) /\ UNCHANGED cell /\ verdict' = NoVerdict
          /\ number' = [number EXCEPT ![c] = n]
          /\ ideal' = [ideal EXCEPT ![c] = Beyond(ideal[o], i)]
      BY <1>4 DEF Skip, Derived
    <2>2. /\ Loose(number[o]) /\ ideal[o] = At(number[o]) /\ store[o] = At(number[o])
          /\ store[o] # Null
      BY <2>1, Source
    <2>3. Loose(n) /\ At(n) = Beyond(At(number[o]), i)
      BY <2>1, <2>2, CountsAssumption DEF Loose, Records, At, Beyond
    <2> HIDE DEF n
    <2>4. IInv' /\ store[c] = Null /\ store' = [store EXCEPT ![c] = At(n)]
      BY <2>1, <2>2, <2>3, AddStep
    <2>5. store' = [store EXCEPT ![c] = Beyond(store[o], i)]
      BY <2>2, <2>3, <2>4
    <2>6. \A j \in Skips \cup {0} :
            store' = [store EXCEPT ![c] = Beyond(store[o], j)] => Values!Next
      BY <2>2, <2>4, StoreSteps
    <2> HIDE DEF Values!Next
    <2> QED
      BY <2>4, <2>5, <2>6
  <1> QED
    BY <1>1, <1>2, <1>3, <1>4

LEMMA ForkKeeps ==
  ASSUME IInv, Careful, NEW o \in Objects, NEW a \in Objects, NEW b \in Objects, Fork(o, a, b)
  PROVE  IInv' /\ Values!Next
  <1> DEFINE n == number[o]
             f == [heap EXCEPT !.number[a] = n]
             g == [f EXCEPT !.number[b] = n]
             at == [ideal EXCEPT ![a] = At(n)]
  <1>1. /\ MayCopy(o) /\ ~Born(a) /\ ~Born(b) /\ a # b /\ UNCHANGED cell /\ verdict' = NoVerdict
    BY DEF Fork
  <1>2. /\ Loose(n) /\ ideal[o] = At(n) /\ store[o] = At(n) /\ store[o] # Null
    BY <1>1, Source
  <1>3. n.tier = "series" => Fresh("series", n.base) = n
    BY <1>2 DEF Loose, Records, Fresh
  <1>4. /\ number' = [number EXCEPT ![a] = n, ![b] = n]
        /\ ideal' = [at EXCEPT ![b] = At(n)]
    BY <1>2, <1>3 DEF Fork
  <1>5. heap' = [number |-> number', cell |-> cell]
    BY <1>1 DEF heap
  <1>6. Good(heap, ideal) /\ ~Has(heap, a) /\ ~Has(heap, b) /\ a \in Slots /\ b \in Slots
    BY <1>1 DEF IInv, Has, Born, heap, Slots
  <1> HIDE DEF n
  <1>7. heap' = g
    <2>1. f = [number |-> [number EXCEPT ![a] = n], cell |-> cell]
      BY DEF heap
    <2>2. number \in [Slots -> Records \cup {Null}]
      BY <1>6 DEF Good, Shape, Heaps, heap
    <2>3. [[number EXCEPT ![a] = n] EXCEPT ![b] = n] = [number EXCEPT ![a] = n, ![b] = n]
      BY <1>6, <2>2
    <2> HIDE DEF f
    <2>4. g = [number |-> [[number EXCEPT ![a] = n] EXCEPT ![b] = n], cell |-> cell]
      BY <2>1
    <2> HIDE DEF g
    <2> QED
      BY <1>4, <1>5, <2>3, <2>4
  <1>8. /\ Good(f, at) /\ ~Has(f, b)
        /\ Seen(f) = [Seen(heap) EXCEPT ![a] = At(n)]
    <2>1. /\ Good(f, at) /\ Seen(f) = [Seen(heap) EXCEPT ![a] = At(n)]
          /\ \A d \in Slots \ {a} : Has(f, d) <=> Has(heap, d)
      BY <1>2, <1>6, GoodAdded
    <2> HIDE DEF f, at
    <2> QED
      BY <1>1, <1>6, <2>1
  <1> HIDE DEF f, at
  <1>9. Good(g, ideal') /\ Seen(g) = [Seen(f) EXCEPT ![b] = At(n)]
    BY <1>2, <1>4, <1>8, GoodAdded
  <1>10. IInv'
    BY <1>1, <1>9, <1>7 DEF IInv, NoFalseVerdict, NoVerdict
  <1>11. store' = Seen(heap')
    BY <1>10, StoreIsSeenNext
  <1>12. store' = [store EXCEPT ![a] = At(n), ![b] = At(n)]
    BY <1>8, <1>9, <1>11, <1>7, StoreIsSeen
  <1>13. store[a] = Null /\ store[b] = Null
    BY <1>1, StoreIsSeen DEF InUse
  <1> QED
    BY <1>1, <1>2, <1>10, <1>12, <1>13, StoreSteps

LEMMA CombineKeeps ==
  ASSUME IInv, Careful, NEW x \in Objects, NEW y \in Objects, NEW o \in Objects,
         Combine(x, y, o)
  PROVE  IInv' /\ Values!Next
  <1> DEFINE r == [Fresh("arith", number[x].base) EXCEPT !.shared = o]
             T == {e \in {x, y} : Arith(heap, e)}
  <1>1. /\ ~Born(o) /\ Born(x) /\ Born(y) /\ MayTakeBoth(x, y) /\ Flat(x) /\ Flat(y)
        /\ number' = [number EXCEPT ![Operand(o, "x")] = number[x],
                                    ![Operand(o, "y")] = number[y], ![o] = r]
        /\ cell' = [cell EXCEPT ![o] = Stream(number[x].base)]
        /\ ideal' = [ideal EXCEPT ![Operand(o, "x")] = ideal[x],
                                  ![Operand(o, "y")] = ideal[y],
                                  ![o] = Start(ideal[x].base)]
        /\ verdict' = NoVerdict
    BY DEF Combine
  <1>2. /\ Good(heap, ideal) /\ Shape(heap) /\ heap.number = number /\ heap.cell = cell
        /\ number[x] \in Records /\ \A e \in Slots : Has(heap, e) <=> Born(e)
        /\ Objects \subseteq Slots
    BY <1>1 DEF IInv, Good, Shape, Heaps, Has, Born, heap, Slots
  <1>3. ASSUME NEW e \in {x, y}
        PROVE  /\ InUse(e) /\ e \in Objects \ LentIn(heap) /\ Has(heap, e)
               /\ Loose(number[e]) \/ Arith(heap, e)
               /\ Arith(heap, e) => \A c \in Ops(e) : ~Arith(heap, c)
    <2>1. InUse(e) /\ (MayCopy(e) \/ number[e].tier = "arith")
      BY <1>1 DEF MayTakeBoth, MayTake, MayCopy
    <2>2. Has(heap, e) /\ e \notin LentIn(heap) /\ e \in Slots
      BY <1>2, <2>1, StoreIsSeen
    <2>3. Loose(number[e]) \/ Arith(heap, e)
      BY <1>2, <2>1, <2>2, Source DEF Arith
    <2>4. ASSUME Arith(heap, e), NEW c \in Ops(e) PROVE ~Arith(heap, c)
      <3>1. number[e].tier = "arith" /\ number[e].shared = e
        BY <1>2, <2>4 DEF Shape, Arith
      <3>2. number[c].tier # "arith"
        BY <1>1, <2>4, <3>1 DEF Flat, Ops, Sides
      <3> QED
        BY <1>2, <3>2 DEF Arith
    <2> QED
      BY <2>1, <2>2, <2>3, <2>4
  <1>4. x = y => ~Arith(heap, x)
    BY <1>1, <1>2 DEF MayTakeBoth, Careful, Arith
  <1>5. /\ r \in Records /\ r.tier = "arith" /\ r.shared = o /\ r.base = number[x].base
    BY <1>2 DEF Records, Fresh, Unread, Slots
  <1>6. ideal[x].base = number[x].base /\ store[x] = ideal[x] /\ store[x] # Null
        /\ store[y] # Null /\ store[o] = Null
    BY <1>1, <1>2, <1>3, StoreIsSeen, PlaceTyped DEF InUse
  <1> HIDE DEF r
  <1>7. /\ heap'.number = Joined(heap.number, x, y, o, r)
        /\ heap'.cell = [heap.cell EXCEPT ![o] = Stream(r.base)]
        /\ heap' = [number |-> heap'.number, cell |-> heap'.cell]
        /\ ideal' = Joined(ideal, x, y, o, Start(r.base))
    BY <1>1, <1>5, <1>6 DEF heap, Joined
  <1>8. Good(heap', ideal') /\ Seen(heap') = Replaced(Seen(heap), T, o, Start(r.base))
    <2>1. /\ ~Has(heap, o)
          /\ x \in Objects \ LentIn(heap) /\ y \in Objects \ LentIn(heap)
          /\ Has(heap, x) /\ Has(heap, y)
          /\ Loose(heap.number[x]) \/ Arith(heap, x)
          /\ Loose(heap.number[y]) \/ Arith(heap, y)
          /\ Arith(heap, x) => \A c \in Ops(x) : ~Arith(heap, c)
          /\ Arith(heap, y) => \A c \in Ops(y) : ~Arith(heap, c)
          /\ r.base = heap.number[x].base
      BY <1>1, <1>2, <1>3, <1>5
    <2>2. ASSUME NEW g, g.number = Joined(heap.number, x, y, o, r),
                 g.cell = [heap.cell EXCEPT ![o] = Stream(r.base)],
                 g = [number |-> g.number, cell |-> g.cell],
                 NEW at, at = Joined(ideal, x, y, o, Start(r.base))
          PROVE  Good(g, at) /\ Seen(g) = Replaced(Seen(heap), T, o, Start(r.base))
      <3>1. Good(heap, ideal) /\ r \in Records /\ r.tier = "arith" /\ r.shared = o
        BY <1>2, <1>5
      <3> QED
        BY <1>4, <2>1, <2>2, <3>1, GoodCombined
    <2> HIDE DEF T
    <2> QED
      BY <1>7, <2>2
  <1>9. IInv'
    BY <1>1, <1>8 DEF IInv, NoFalseVerdict, NoVerdict
  <1>10. store' = Replaced(store, T, o, Start(store[x].base))
    BY <1>5, <1>6, <1>8, <1>9, StoreIsSeen, StoreIsSeenNext
  <1>11. T \in SUBSET {x, y}
    OBVIOUS
  <1> HIDE DEF T
  <1>12. Values!Next
    BY <1>6, <1>10, <1>11, StoreSteps
  <1> QED
    BY <1>9, <1>12

\* Digits of a number in use: a pull of its value.
LEMMA AdvancedStep ==
  ASSUME IInv, Careful, NEW o \in Objects, InUse(o), NEW g, NEW n \in Nat,
         Advanced(heap, g, o, n, ideal), SetHeap(g),
         ideal' = Moved(ideal, o, n), verdict' = NoVerdict
  PROVE  IInv' /\ store' = Moved(store, o, n) /\ store[o] # Null
  <1>1. g \in Heaps
    BY DEF Advanced, Stable, Shape
  <1>2. heap' = g
    BY <1>1 DEF SetHeap, heap, Heaps
  <1>3. o \in Objects \ LentIn(heap) /\ Has(heap, o) /\ Good(heap, ideal)
    BY StoreIsSeen DEF IInv
  <1>4. Good(g, ideal') /\ Seen(g) = Moved(Seen(heap), o, n)
    BY <1>3, GoodAdvanced
  <1>5. IInv'
    BY <1>2, <1>4 DEF IInv, NoFalseVerdict, NoVerdict
  <1> QED
    BY <1>2, <1>4, <1>5, StoreIsSeen, StoreIsSeenNext

LEMMA PullStepKeeps ==
  ASSUME IInv, Careful, NEW o \in Objects
  PROVE  /\ NextDigit(o) => IInv' /\ Values!Next
         /\ NextDigitPending(o) => IInv' /\ store' = store
         /\ IntegerPart(o) => IInv' /\ store' = store
  <1>1. /\ Shape(heap) /\ Captured(heap, ideal)
        /\ InUse(o) => /\ o \in Slots \ Below(heap) /\ Has(heap, o) /\ o \notin LentIn(heap)
                       /\ ideal[o] \in Places /\ store[o] \in Places
                       /\ Place(heap, o) = ideal[o]
    BY StoreIsSeen, OperandNames DEF IInv, Good, Captured, Below, Slots
  <1>2. ASSUME NextDigit(o) PROVE IInv' /\ Values!Next
    <2>1. PICK g \in Pulls(heap, o, 1, FALSE) : SetHeap(g)
      BY <1>2 DEF NextDigit
    <2>2. Advanced(heap, g, o, 1, ideal)
      BY <1>1, <1>2, <2>1, PulledMoves DEF NextDigit
    <2>3. IInv' /\ store' = Moved(store, o, 1) /\ store[o] # Null
      BY <1>2, <2>1, <2>2, AdvancedStep DEF NextDigit, Moved
    <2> QED
      BY <2>3, StorePull DEF Moved
  <1>3. ASSUME NEW g, Advanced(heap, g, o, 0, ideal), InUse(o), SetHeap(g),
               UNCHANGED ideal, verdict' = NoVerdict
        PROVE  IInv' /\ store' = store
    <2>1. Beyond(ideal[o], 0) = ideal[o] /\ Beyond(store[o], 0) = store[o]
      BY <1>1, <1>3, BeyondTwice
    <2>2. ideal' = Moved(ideal, o, 0)
      BY <1>3, <2>1 DEF IInv, Good, Moved
    <2>3. IInv' /\ store' = Moved(store, o, 0)
      BY <1>3, <2>2, AdvancedStep
    <2>4. Moved(store, o, 0) = store
      BY <2>1 DEF store, Moved
    <2> QED
      BY <2>1, <2>3, <2>4
  <1>4. ASSUME NextDigitPending(o) PROVE IInv' /\ store' = store
    <2>1. PICK g \in Pulls(heap, o, 0, TRUE) : SetHeap(g)
      BY <1>4 DEF NextDigitPending
    <2>2. Advanced(heap, g, o, 0, ideal)
      BY <1>1, <1>4, <2>1, PulledMoves DEF NextDigitPending
    <2> QED
      BY <1>3, <1>4, <2>1, <2>2 DEF NextDigitPending
  <1>5. ASSUME IntegerPart(o) PROVE IInv' /\ store' = store
    <2>1. InUse(o) /\ UNCHANGED ideal /\ verdict' = NoVerdict /\ number[o].tier = "arith"
      BY <1>5 DEF IntegerPart
    <2>2. Arith(heap, o) /\ number[o].shared = o
      BY <1>1, <2>1 DEF Arith, Shape, heap
    <2>3. PICK e \in Ends : \E g \in Calls(heap, o, 0, e) : SetHeap(g)
      BY <1>5, <2>2 DEF IntegerPart
    <2>4. PICK g \in Calls(heap, o, 0, e) : SetHeap(g)
      BY <2>3
    <2>5. Advanced(heap, g, o, 0, ideal)
      BY <1>1, <2>1, <2>2, <2>4, CallsMove
    <2> QED
      BY <1>3, <2>1, <2>4, <2>5
  <1> QED
    BY <1>2, <1>4, <1>5

\* The guards of a reading operation leave a loose leaf or an arithmetic
\* result in use.
LEMMA MayTakeIsTaken ==
  ASSUME IInv, Careful, NEW o \in Objects, MayTake(o)
  PROVE  Taken(o) /\ store[o] # Null /\ ideal[o] = Place(heap, o)
  <1>1. InUse(o) /\ (MayCopy(o) \/ number[o].tier = "arith")
    BY DEF MayTake, MayCopy
  <1>2. Loose(number[o]) \/ number[o].tier = "arith"
    BY <1>1, Source
  <1> QED
    BY <1>1, <1>2, StoreIsSeen DEF Taken

\* The objects in use after a step.
LEMMA InUseNext ==
  IInv' /\ Careful => \A o \in Objects : InUse(o)' => Has(heap', o) /\ o \notin LentIn(heap')
  <1>1. IInv /\ Careful => \A o \in Objects : InUse(o) => Has(heap, o) /\ o \notin LentIn(heap)
    BY StoreIsSeen
  <1>2. (IInv /\ Careful =>
           \A o \in Objects : InUse(o) => Has(heap, o) /\ o \notin LentIn(heap))'
    BY <1>1, PTL
  <1> QED
    BY <1>2 DEF Careful

\* A reading operation forgets its temporaries and moves nothing.
LEMMA ReadingStep ==
  ASSUME IInv, Careful, NEW x \in Objects, NEW y \in Objects, MayTake(x), MayTake(y),
         NEW k, Prepared(k, x, y),
         NEW g, Walked(k, g, {Reader(x, TmpA), Reader(y, TmpB)}, ideal),
         SetHeap(Dropped(g, Gone({x, y}))), ideal' = Without(ideal, Gone({x, y})),
         NoFalseVerdict'
  PROVE  /\ IInv' /\ Values!Next
         /\ \A o \in Objects : InUse(o)' => Place(heap', o) = Place(heap, o)
  <1> DEFINE d == Dropped(g, Gone({x, y}))
             T == Temporaries(x, y)
  <1>1. Taken(x) /\ Taken(y) /\ store[x] # Null /\ store[y] # Null /\ Good(heap, ideal)
    BY MayTakeIsTaken DEF IInv
  <1>2. /\ d \in Heaps
        /\ Good(d, ideal')
        /\ Seen(d) = Forgotten(Seen(heap), T)
        /\ \A o \in Objects \ LentIn(d) : Has(d, o) => Place(d, o) = Place(heap, o)
    BY <1>1, ReadingEnds
  <1> HIDE DEF d
  <1>3. heap' = d
    BY <1>2 DEF SetHeap, heap, Heaps, d
  <1>4. IInv'
    BY <1>2, <1>3 DEF IInv
  <1>5. store' = Forgotten(store, T)
    BY <1>2, <1>3, <1>4, StoreIsSeen, StoreIsSeenNext
  <1>6. T \in SUBSET {x, y}
    BY DEF Temporaries
  <1> HIDE DEF T
  <1>7. Values!Next
    BY <1>1, <1>5, <1>6, StoreForget
  <1>8. \A o \in Objects : InUse(o)' => Place(heap', o) = Place(heap, o)
    BY <1>2, <1>3, <1>4, InUseNext
  <1> QED
    BY <1>4, <1>7, <1>8

LEMMA ReadStepKeeps ==
  ASSUME IInv, Careful, NEW x \in Objects, NEW y \in Objects, NEW n \in Counts
  PROVE  Read(x, n) \/ Compare(x, y, n) =>
           /\ IInv' /\ Values!Next
           /\ \A o \in Objects : InUse(o)' => Place(heap', o) = Place(heap, o)
  <1> DEFINE Kept == /\ IInv' /\ Values!Next
                     /\ \A o \in Objects : InUse(o)' => Place(heap', o) = Place(heap, o)
  <1>1. Good(heap, ideal) /\ n \in Nat
    BY CountsAssumption DEF IInv
  <1>2. ASSUME Read(x, n) PROVE Kept
    <2> DEFINE k == WithCopies(x, x)
               a == Reader(x, TmpA)
    <2>1. /\ MayTake(x) /\ ideal' = Without(ideal, Gone({x})) /\ verdict' = NoVerdict
          /\ Taken(x)
      BY <1>2, MayTakeIsTaken DEF Read
    <2>2. PICK h \in AfterReading(x, n) : SetHeap(h)
      BY <1>2 DEF Read
    <2>3. PICK i \in 0..n : \E g \in Pulls(k, a, i, i < n) : h = Dropped(g, Gone({x}))
      BY <2>2 DEF AfterReading
    <2>4. PICK g \in Pulls(k, a, i, i < n) : h = Dropped(g, Gone({x}))
      BY <2>3
    <2>5. Prepared(k, x, x)
      BY <1>1, <2>1, CopiesMade
    <2> HIDE DEF k, a
    <2>6. /\ Shape(k) /\ a \in Slots \ Below(k) /\ Has(k, a) /\ Captured(k, ideal)
          /\ i \in Nat
      BY <2>5 DEF Prepared, a
    <2>7. Advanced(k, g, a, i, ideal)
      BY <2>4, <2>6, PulledMoves
    <2>8. Walked(k, k, {a, Reader(x, TmpB)}, ideal)
      BY <2>6 DEF Walked, Stable
    <2>9. Walked(k, g, {a, Reader(x, TmpB)}, ideal)
      BY <2>7, <2>8, WalkedOn
    <2>10. NoFalseVerdict'
      BY <2>1 DEF NoFalseVerdict, NoVerdict
    <2>11. {x, x} = {x}
      OBVIOUS
    <2>12. SetHeap(Dropped(g, Gone({x, x}))) /\ ideal' = Without(ideal, Gone({x, x}))
      BY <2>1, <2>2, <2>4, <2>11
    <2> QED
      BY <2>1, <2>5, <2>9, <2>10, <2>12, ReadingStep DEF a
  <1>3. ASSUME Compare(x, y, n) PROVE Kept
    <2> DEFINE k == WithCopies(x, y)
               a == Reader(x, TmpA)
               b == Reader(y, TmpB)
    <2>1. /\ MayTake(x) /\ MayTake(y) /\ ideal' = Without(ideal, Gone({x, y}))
          /\ Taken(x) /\ Taken(y)
          /\ x = y => number[x].tier # "arith"
      BY <1>3, MayTakeIsTaken DEF Compare, MayTakeBoth, Careful
    <2>2. PICK r \in Comparisons(x, y, n) :
            /\ SetHeap(r.heap)
            /\ verdict' = [said |-> r.said, ideal |-> IdealOrder(x, y, n)]
      BY <1>3 DEF Compare
    <2>3. PICK q \in Turning(k, a, b, n)[n] : r = [q EXCEPT !.heap = Dropped(@, Gone({x, y}))]
      BY <2>2 DEF Comparisons, Turning
    <2>4. Prepared(k, x, y)
      BY <1>1, <2>1, CopiesMade
    <2>5. a # b
      BY <2>1, NamesAssumption DEF Reader, Taken
    <2> HIDE DEF k
    <2>6. /\ Shape(k) /\ a \in Slots \ Below(k) /\ Has(k, a) /\ b \in Slots \ Below(k)
          /\ Has(k, b) /\ Captured(k, ideal) /\ Place(k, a) = ideal[x] /\ Place(k, b) = ideal[y]
          /\ \A j \in Objects : Arith(k, j) => InStep(k, j, ideal)
      BY <2>4 DEF Prepared
    <2> HIDE DEF a, b
    <2>7. q \in Reached(k, a, b, ideal) /\ Compared(q, a, b, n, ideal[x], ideal[y])
      BY <1>1, <2>3, <2>5, <2>6, ComparisonsFind
    <2>8. /\ r.heap = Dropped(q.heap, Gone({x, y})) /\ r.said = q.said
          /\ Walked(k, q.heap, {a, b}, ideal) /\ q.said \in Verdicts
      BY <2>3, <2>7 DEF Reached
    <2>9. q.said # "pending" => q.said = IdealOrder(x, y, n)
      BY <1>1, <2>7, <2>8, FoundIsIdeal
    <2>10. NoFalseVerdict'
      BY <2>2, <2>8, <2>9 DEF NoFalseVerdict
    <2> QED
      BY <2>1, <2>2, <2>4, <2>8, <2>10, ReadingStep DEF a, b
  <1> QED
    BY <1>2, <1>3

LEMMA StepKeeps == IInv /\ Careful /\ [Next]_vars => IInv' /\ [Values!Next]_store
  <1> SUFFICES ASSUME IInv, Careful, [Next]_vars
               PROVE  IInv' /\ (Values!Next \/ store' = store)
    OBVIOUS
  <1>1. ASSUME MakeStep PROVE IInv' /\ Values!Next
    BY <1>1, MakeStepKeeps, ForkKeeps, CombineKeeps DEF MakeStep
  <1>2. ASSUME PullStep PROVE IInv' /\ (Values!Next \/ store' = store)
    BY <1>2, PullStepKeeps DEF PullStep
  <1>3. ASSUME ReadStep PROVE IInv' /\ Values!Next
    BY <1>3, ReadStepKeeps DEF ReadStep
  <1>4. ASSUME UNCHANGED vars PROVE IInv' /\ store' = store
    <2>1. UNCHANGED <<number, cell, ideal, verdict>>
      BY <1>4 DEF vars
    <2> QED
      BY <2>1 DEF IInv, heap, NoFalseVerdict, store, InUse, Lent, Born
  <1> QED
    BY <1>1, <1>2, <1>3, <1>4 DEF Next

LEMMA InitKeeps == Init /\ Careful => IInv /\ Values!Init
  <1> SUFFICES ASSUME Init, Careful PROVE IInv /\ Values!Init
    OBVIOUS
  <1>1. /\ \A c \in Slots : ~Has(heap, c) /\ ~Arith(heap, c) /\ ~Born(c)
        /\ TmpA \in Slots /\ TmpB \in Slots /\ Objects \subseteq Slots /\ Operands \subseteq Slots
    BY DEF Init, Has, Arith, Born, heap, Slots
  <1>2. heap \in Heaps /\ ideal \in [Slots -> Places \cup {Null}]
    BY DEF Init, heap, Heaps
  <1>3. \A s \in Objects : Ops(s) \subseteq Slots
    BY OperandNames DEF Slots
  <1>4. Shape(heap)
    BY <1>1, <1>2, <1>3 DEF Shape
  <1>5. Good(heap, ideal)
    BY <1>1, <1>2, <1>4 DEF Good, Init, heap
  <1>6. NoFalseVerdict
    BY DEF Init, NoFalseVerdict, NoVerdict
  <1>7. Values!Init
    BY <1>1 DEF Values!Init, InUse
  <1> QED
    BY <1>5, <1>6, <1>7 DEF IInv

LEMMA Invariant == Careful => (Spec => []IInv)
  <1>1. Init /\ Careful => IInv
    BY InitKeeps
  <1>2. IInv /\ Careful /\ [Next]_vars => IInv'
    BY StepKeeps
  <1>3. CASE Careful
    BY <1>1, <1>2, <1>3, PTL DEF Spec
  <1> QED
    BY <1>3

-----------------------------------------------------------------------------
(* Theorems.                                                               *)

\* What is done with copies, forks, operands and comparisons of a Number
\* never shows in its next digit: the copy constructor copies the pointer,
\* but a careful client copies before there is one (number.hpp).
THEOREM NumbersAreValues == Careful => (Spec => []ValueSemantics)
  <1>1. IInv /\ Careful => ValueSemantics
    BY StoreIsSeen DEF ValueSemantics
  <1>2. CASE Careful
    BY <1>1, <1>2, Invariant, PTL
  <1> QED
    BY <1>2

\* The next digit of a Number is one of the base it was made in, and base()
\* names that base.
THEOREM DigitsInTheirBase == Careful => (Spec => []ReadsInItsBase)
  <1>1. ASSUME IInv, Careful, NEW o \in Objects, InUse(o)
        PROVE  Place(heap, o).base = ideal[o].base /\ number[o].base = ideal[o].base
    <2>1. Place(heap, o) = ideal[o] /\ Has(heap, o) /\ o \in Slots /\ Shape(heap)
      BY <1>1, StoreIsSeen DEF InUse, IInv, Good, Slots
    <2>2. Place(heap, o).base = heap.number[o].base
      BY <2>1, PlaceTyped
    <2> QED
      BY <2>1, <2>2 DEF heap
  <1>2. IInv /\ Careful => ReadsInItsBase
    BY <1>1 DEF ReadsInItsBase
  <1>3. CASE Careful
    BY <1>2, <1>3, Invariant, PTL
  <1> QED
    BY <1>3

\* What combine captures, only the new stream reads: whenever a read of y is
\* pending after one of x, and however the operands drift apart, each stands
\* the digits in its box beyond the place of its capture.
THEOREM StreamsReadAlone == Careful => (Spec => []OperandsUnshared)
  <1>1. ASSUME IInv, NEW s \in Objects, NEW side \in Sides, Born(Operand(s, side))
        PROVE  Place(heap, Operand(s, side))
                 = Beyond(ideal[Operand(s, side)], cell[s].taken[side])
    <2>1. Operand(s, side) \in Ops(s) /\ Has(heap, Operand(s, side))
      BY <1>1, OperandNames DEF Has, Born, heap
    <2>2. Arith(heap, s) /\ InStep(heap, s, ideal)
      BY <1>1, <2>1 DEF IInv, Good, Shape
    <2> QED
      BY <1>1, <2>1, <2>2 DEF InStep, heap
  <1>2. IInv => OperandsUnshared
    BY <1>1 DEF OperandsUnshared
  <1>3. CASE Careful
    BY <1>2, <1>3, Invariant, PTL
  <1> QED
    BY <1>3

\* "less", "greater" and "equal", which definitely_less_than, compare and
\* agrees_with answer, are what the digits of the two values say, in all three
\* tiers and whichever read is pending in the meantime.
THEOREM ComparisonsAreTrue == Careful => (Spec => []NoFalseVerdict)
  <1>1. IInv => NoFalseVerdict
    BY DEF IInv
  <1>2. CASE Careful
    BY <1>1, <1>2, Invariant, PTL
  <1> QED
    BY <1>2

\* Comparing and rendering move no Number that the client still has, though an
\* arithmetic result is read in place and takes its operands with it.
THEOREM ReadingMovesNothing == Careful => (Spec => ReadingIsPure)
  <1>1. IInv /\ Careful /\ [Next]_vars =>
          [ReadStep => \A o \in Objects : InUse(o)' => Place(heap', o) = Place(heap, o)]_vars
    BY ReadStepKeeps DEF ReadStep
  <1>2. CASE Careful
    BY <1>1, <1>2, Invariant, PTL DEF Spec, ReadingIsPure
  <1> QED
    BY <1>2

\* A careful client's Numbers implement the store of values, step by step.
THEOREM NumberImplementsValues == Careful => (Spec => ImplementsValues)
  <1>1. Init /\ Careful => Values!Init
    BY InitKeeps
  <1>2. IInv /\ Careful /\ [Next]_vars => [Values!Next]_store
    BY StepKeeps
  <1>3. CASE Careful
    BY <1>1, <1>2, <1>3, Invariant, PTL DEF Spec, ImplementsValues, Values!Spec, store
  <1> QED
    BY <1>3

-----------------------------------------------------------------------------
(* The precision Numbers are displayed under.  When every task has a       *)
(* thread of its own and no object is entered twice, a thread always reads *)
(* the digits of its innermost block, and leaving a block restores what    *)
(* entering it found.                                                      *)


\* The two conditions the guarantee needs.
Disciplined ==
    /\ Reenter = FALSE
    /\ \A t, u \in Tasks : ThreadOf[t] = ThreadOf[u] => t = u

\* Each open block holds the guard of its own object, saved what the blocks
\* outside it ask for, and shares its object with no other open block.
GuardsSaved ==
    \A t \in Tasks : \A i \in 1..Len(scopes[t]) :
        /\ scopes[t][i].ctx \in held
        /\ prev[scopes[t][i].ctx] = scopes[t][i].before
        /\ scopes[t][i].before = InForce(scopes[t], i - 1)
GuardsUnshared ==
    \A t, u \in Tasks :
        \A i \in 1..Len(scopes[t]) : \A j \in 1..Len(scopes[u]) :
            scopes[t][i].ctx = scopes[u][j].ctx => t = u /\ i = j

PrecisionIInv == PrecisionTypeOK /\ GuardsSaved /\ GuardsUnshared /\ InScope

\* What is in force under n blocks does not depend on the blocks above them.
LEMMA InForceAppend ==
    ASSUME NEW s \in Seq(Block), NEW b \in Block, NEW n \in 0..Len(s)
    PROVE  InForce(Append(s, b), n) = InForce(s, n)
BY DEF InForce

LEMMA InForceFront ==
    ASSUME NEW s \in Seq(Block), s # <<>>, NEW n \in 0..(Len(s) - 1)
    PROVE  /\ SubSeq(s, 1, Len(s) - 1) \in Seq(Block)
           /\ Len(SubSeq(s, 1, Len(s) - 1)) = Len(s) - 1
           /\ \A i \in 1..(Len(s) - 1) : SubSeq(s, 1, Len(s) - 1)[i] = s[i]
           /\ InForce(SubSeq(s, 1, Len(s) - 1), n) = InForce(s, n)
<1> DEFINE m == Len(s) - 1
<1>1. /\ m \in Nat
      /\ \A i \in 1..m : s[i] \in Block
  OBVIOUS
<1>2. /\ SubSeq(s, 1, m) \in Seq(Block)
      /\ Len(SubSeq(s, 1, m)) = IF 1 <= m THEN m - 1 + 1 ELSE 0
      /\ \A i \in 1 .. m - 1 + 1 : SubSeq(s, 1, m)[i] = s[1 + i - 1]
  BY <1>1, SubSeqProperties
<1>3. /\ Len(SubSeq(s, 1, m)) = m
      /\ \A i \in 1 .. m : SubSeq(s, 1, m)[i] = s[i]
  <2> HIDE DEF m
  <2>1. \A i \in 1 .. m : 1 + i - 1 = i /\ i \in 1 .. m - 1 + 1
    BY <1>1
  <2> QED BY <1>1, <1>2, <2>1
<1>4. n = 0 \/ n \in 1..m
  OBVIOUS
<1> HIDE DEF m
<1>5. InForce(SubSeq(s, 1, m), n) = InForce(s, n)
  BY <1>3, <1>4 DEF InForce
<1> QED BY <1>2, <1>3, <1>5 DEF m

LEMMA EnterKeeps ==
    ASSUME PrecisionIInv, Disciplined, NEW t \in Tasks, NEW c \in Contexts, Enter(t, c)
    PROVE  PrecisionIInv'
<1> DEFINE th == ThreadOf[t]
           b == [ctx |-> c, before |-> current[th]]
<1>1. /\ th \in Threads
      /\ b \in Block
      /\ c \notin held
      /\ scopes[t] \in Seq(Block)
      /\ DigitsOf[c] \in Requested
  BY PrecisionAssumption DEF PrecisionIInv, PrecisionTypeOK, Enter, Disciplined, Block, Requested
<1>2. /\ held' = held \cup {c}
      /\ prev' = [prev EXCEPT ![c] = current[th]]
      /\ current' = [current EXCEPT ![th] = DigitsOf[c]]
      /\ scopes' = [scopes EXCEPT ![t] = Append(@, b)]
  BY <1>1 DEF Enter, Released
<1>3. PrecisionTypeOK'
  <2>1. current' \in [Threads -> Requested] /\ prev' \in [Contexts -> Requested]
    BY <1>1, <1>2 DEF PrecisionIInv, PrecisionTypeOK
  <2>2. held' \subseteq Contexts
    BY <1>2 DEF PrecisionIInv, PrecisionTypeOK
  <2>3. Append(scopes[t], b) \in Seq(Block)
    BY <1>1
  <2>4. scopes' \in [Tasks -> Seq(Block)]
    BY <1>2, <2>3 DEF PrecisionIInv, PrecisionTypeOK
  <2> QED BY <2>1, <2>2, <2>4 DEF PrecisionTypeOK
<1>4. /\ \A u \in Tasks \ {t} : scopes'[u] = scopes[u]
      /\ scopes'[t] = Append(scopes[t], b)
      /\ Len(scopes'[t]) = Len(scopes[t]) + 1
      /\ Len(scopes[t]) \in Nat
      /\ scopes'[t][Len(scopes[t]) + 1] = b
      /\ \A i \in 1..Len(scopes[t]) : scopes'[t][i] = scopes[t][i]
  BY <1>1, <1>2 DEF PrecisionIInv, PrecisionTypeOK
<1>5. \A u \in Tasks : \A i \in 1..Len(scopes[u]) :
          /\ scopes[u][i].ctx # c
          /\ scopes[u][i].ctx \in Contexts
          /\ scopes[u][i].ctx \in held
          /\ prev'[scopes[u][i].ctx] = prev[scopes[u][i].ctx]
  BY <1>1, <1>2 DEF PrecisionIInv, GuardsSaved, PrecisionTypeOK
<1>6. prev'[c] = current[th] /\ current[th] = InForce(scopes[t], Len(scopes[t]))
  BY <1>1, <1>2 DEF PrecisionIInv, PrecisionTypeOK, InScope
<1>7. GuardsSaved'
  <2> SUFFICES ASSUME NEW u \in Tasks, NEW i \in 1..Len(scopes'[u])
               PROVE  /\ scopes'[u][i].ctx \in held'
                      /\ prev'[scopes'[u][i].ctx] = scopes'[u][i].before
                      /\ scopes'[u][i].before = InForce(scopes'[u], i - 1)
    BY DEF GuardsSaved, InForce
  <2>1. CASE u # t
    BY <2>1, <1>2, <1>4, <1>5 DEF PrecisionIInv, GuardsSaved
  <2>2. CASE u = t /\ i \in 1..Len(scopes[t])
    <3>1. i - 1 \in 0..Len(scopes[t])
      BY <2>2, <1>4
    <3>2. InForce(scopes'[t], i - 1) = InForce(scopes[t], i - 1)
      BY <3>1, <1>1, <1>4, InForceAppend
    <3> QED BY <2>2, <3>2, <1>2, <1>4, <1>5 DEF PrecisionIInv, GuardsSaved
  <2>3. CASE u = t /\ i = Len(scopes[t]) + 1
    <3>1. InForce(scopes'[t], i - 1) = InForce(scopes[t], Len(scopes[t]))
      BY <2>3, <1>1, <1>4, InForceAppend
    <3> QED BY <2>3, <3>1, <1>2, <1>4, <1>6
  <2> QED BY <2>1, <2>2, <2>3, <1>4
<1>8. GuardsUnshared'
  <2> SUFFICES ASSUME NEW u \in Tasks, NEW v \in Tasks,
                      NEW i \in 1..Len(scopes'[u]), NEW j \in 1..Len(scopes'[v]),
                      scopes'[u][i].ctx = scopes'[v][j].ctx
               PROVE  u = v /\ i = j
    BY DEF GuardsUnshared
  <2>0. /\ i \in 1..Len(scopes[u]) \/ (u = t /\ i = Len(scopes[t]) + 1)
        /\ j \in 1..Len(scopes[v]) \/ (v = t /\ j = Len(scopes[t]) + 1)
    <3>1. ASSUME NEW w \in Tasks, NEW k \in 1..Len(scopes'[w])
          PROVE  k \in 1..Len(scopes[w]) \/ (w = t /\ k = Len(scopes[t]) + 1)
      <4>1. CASE w = t
        BY <4>1, <1>4
      <4>2. CASE w # t
        BY <4>2, <1>4
      <4> QED BY <4>1, <4>2
    <3> QED BY <3>1
  <2> DEFINE Old(w, k) == k \in 1..Len(scopes[w])
  <2>1. \A w \in Tasks : \A k : Old(w, k) => /\ scopes'[w][k] = scopes[w][k]
                                           /\ scopes'[w][k].ctx # c
    <3> SUFFICES ASSUME NEW w \in Tasks, NEW k \in 1..Len(scopes[w])
                 PROVE  /\ scopes'[w][k] = scopes[w][k]
                        /\ scopes'[w][k].ctx # c
      OBVIOUS
    <3>1. scopes'[w][k] = scopes[w][k]
      BY <1>4
    <3> QED BY <3>1, <1>5
  <2>2. scopes'[t][Len(scopes[t]) + 1].ctx = c
    BY <1>4
  <2>3. CASE Old(u, i) /\ Old(v, j)
    <3>1. scopes'[u][i] = scopes[u][i] /\ scopes'[v][j] = scopes[v][j]
      BY <2>1, <2>3
    <3>2. scopes[u][i].ctx = scopes[v][j].ctx
      BY <3>1
    <3>3. i \in 1..Len(scopes[u]) /\ j \in 1..Len(scopes[v])
      BY <2>3
    <3>4. GuardsUnshared
      BY DEF PrecisionIInv
    <3> HIDE DEF Old
    <3> QED BY <3>2, <3>3, <3>4 DEF GuardsUnshared
  <2>4. CASE u = t /\ i = Len(scopes[t]) + 1
    <3>1. ~Old(v, j)
      BY <2>1, <2>2, <2>4
    <3> QED BY <2>0, <2>4, <3>1
  <2>5. CASE v = t /\ j = Len(scopes[t]) + 1
    <3>1. ~Old(u, i)
      BY <2>1, <2>2, <2>5
    <3> QED BY <2>0, <2>5, <3>1
  <2> QED BY <2>0, <2>3, <2>4, <2>5
<1>9. InScope'
  <2> SUFFICES ASSUME NEW u \in Tasks
               PROVE  current'[ThreadOf[u]] = InForce(scopes'[u], Len(scopes'[u]))
    BY DEF InScope, InForce
  <2>1. CASE u = t
    BY <2>1, <1>1, <1>2, <1>4 DEF PrecisionIInv, PrecisionTypeOK, InForce
  <2>2. CASE u # t
    <3>1. ThreadOf[u] # th
      BY <2>2 DEF Disciplined
    <3> QED BY <2>2, <3>1, <1>2, <1>4 DEF PrecisionIInv, InScope, PrecisionTypeOK
  <2> QED BY <2>1, <2>2
<1> QED BY <1>3, <1>7, <1>8, <1>9 DEF PrecisionIInv

LEMMA ExitRestores ==
    ASSUME PrecisionIInv, Disciplined, NEW t \in Tasks, Exit(t)
    PROVE  /\ PrecisionIInv'
           /\ current'[ThreadOf[t]] = scopes[t][Len(scopes[t])].before
<1> DEFINE th == ThreadOf[t]
           n == Len(scopes[t])
           c == scopes[t][n].ctx
<1>1. /\ th \in Threads
      /\ scopes[t] \in Seq(Block)
      /\ scopes[t] # <<>>
      /\ n \in Nat /\ n >= 1
      /\ scopes[t][n] \in Block
      /\ c \in held
      /\ prev[c] = scopes[t][n].before
      /\ scopes[t][n].before = InForce(scopes[t], n - 1)
  <2>1. th \in Threads /\ scopes[t] \in Seq(Block) /\ scopes[t] # <<>>
    BY PrecisionAssumption DEF PrecisionIInv, PrecisionTypeOK, Exit
  <2>2. n \in Nat /\ n >= 1
    BY <2>1
  <2>3. scopes[t][n] \in Block /\ n \in 1..n
    BY <2>1, <2>2
  <2> QED BY <2>1, <2>2, <2>3 DEF PrecisionIInv, GuardsSaved
<1>2. /\ held' = held \ {c}
      /\ prev' = prev
      /\ current' = [current EXCEPT ![th] = prev[c]]
      /\ scopes' = [scopes EXCEPT ![t] = SubSeq(@, 1, n - 1)]
  BY <1>1 DEF Exit, Released
<1>3. /\ \A u \in Tasks \ {t} : scopes'[u] = scopes[u]
      /\ scopes'[t] = SubSeq(scopes[t], 1, n - 1)
      /\ scopes'[t] \in Seq(Block)
      /\ Len(scopes'[t]) = n - 1
      /\ \A i \in 1..(n - 1) : scopes'[t][i] = scopes[t][i]
  BY <1>1, <1>2, InForceFront, n - 1 \in 0..(n - 1) DEF PrecisionIInv, PrecisionTypeOK
<1>4. PrecisionTypeOK'
  BY <1>1, <1>2, <1>3 DEF PrecisionIInv, PrecisionTypeOK, Block
<1>5. current'[th] = scopes[t][n].before
  BY <1>1, <1>2 DEF PrecisionIInv, PrecisionTypeOK
<1>6. \A u \in Tasks : \A i \in 1..Len(scopes'[u]) :
          /\ i \in 1..Len(scopes[u])
          /\ scopes'[u][i] = scopes[u][i]
          /\ ~(u = t /\ i = n)
  <2> TAKE u \in Tasks
  <2>1. CASE u # t
    BY <2>1, <1>3
  <2>2. CASE u = t
    <3> HIDE DEF n
    <3>1. Len(scopes[u]) = n
      BY <2>2 DEF n
    <3> QED BY <2>2, <3>1, <1>1, <1>3
  <2> QED BY <2>1, <2>2
<1>7. GuardsUnshared'
  <2> SUFFICES ASSUME NEW u \in Tasks, NEW v \in Tasks,
                      NEW i \in 1..Len(scopes'[u]), NEW j \in 1..Len(scopes'[v]),
                      scopes'[u][i].ctx = scopes'[v][j].ctx
               PROVE  u = v /\ i = j
    BY DEF GuardsUnshared
  <2>1. scopes[u][i].ctx = scopes[v][j].ctx
    BY <1>6
  <2> QED BY <2>1, <1>6 DEF PrecisionIInv, GuardsUnshared
<1>8. GuardsSaved'
  <2> SUFFICES ASSUME NEW u \in Tasks, NEW i \in 1..Len(scopes'[u])
               PROVE  /\ scopes'[u][i].ctx \in held'
                      /\ prev'[scopes'[u][i].ctx] = scopes'[u][i].before
                      /\ scopes'[u][i].before = InForce(scopes'[u], i - 1)
    BY DEF GuardsSaved, InForce
  <2>1. scopes[u][i].ctx # c
    BY <1>1, <1>6 DEF PrecisionIInv, GuardsUnshared
  <2>2. InForce(scopes'[u], i - 1) = InForce(scopes[u], i - 1)
    <3>1. CASE u = t
      <4>1. i - 1 \in 0..(n - 1)
        BY <3>1, <1>1, <1>3
      <4> QED BY <3>1, <4>1, <1>1, <1>3, InForceFront
    <3>2. CASE u # t
      BY <3>2, <1>3
    <3> QED BY <3>1, <3>2
  <2>3. /\ scopes[u][i].ctx \in held
        /\ prev[scopes[u][i].ctx] = scopes[u][i].before
        /\ scopes[u][i].before = InForce(scopes[u], i - 1)
    BY <1>6 DEF PrecisionIInv, GuardsSaved
  <2>4. scopes'[u][i] = scopes[u][i]
    BY <1>6
  <2> QED BY <2>1, <2>2, <2>3, <2>4, <1>2
<1>9. InScope'
  <2> SUFFICES ASSUME NEW u \in Tasks
               PROVE  current'[ThreadOf[u]] = InForce(scopes'[u], Len(scopes'[u]))
    BY DEF InScope, InForce
  <2>1. CASE u = t
    BY <2>1, <1>1, <1>3, <1>5, InForceFront, n - 1 \in 0..(n - 1)
  <2>2. CASE u # t
    <3>1. ThreadOf[u] # th
      BY <2>2 DEF Disciplined
    <3> QED BY <2>2, <3>1, <1>2, <1>3 DEF PrecisionIInv, InScope, PrecisionTypeOK
  <2> QED BY <2>1, <2>2
<1> QED BY <1>4, <1>5, <1>7, <1>8, <1>9 DEF PrecisionIInv

LEMMA PrecisionEstablished == PrecisionInit => PrecisionIInv
BY PrecisionAssumption
   DEF PrecisionInit, PrecisionIInv, PrecisionTypeOK, GuardsSaved, GuardsUnshared, InScope, InForce, Requested, Block

LEMMA PrecisionKeeps == Disciplined /\ PrecisionIInv /\ [PrecisionNext]_precisionVars => PrecisionIInv'
<1> SUFFICES ASSUME Disciplined, PrecisionIInv, [PrecisionNext]_precisionVars
             PROVE  PrecisionIInv'
  OBVIOUS
<1>1. CASE PrecisionNext
  BY <1>1, EnterKeeps, ExitRestores DEF PrecisionNext
<1>2. CASE UNCHANGED precisionVars
  BY <1>2 DEF precisionVars, PrecisionIInv, PrecisionTypeOK, GuardsSaved, GuardsUnshared, InScope, InForce
<1> QED BY <1>1, <1>2

\* A thread reads the digits its innermost open block asked for, the default
\* outside every block (PrecisionContext::digits).
THEOREM PrecisionInScope ==
    ASSUME Disciplined
    PROVE  PrecisionSpec => []InScope
<1>1. PrecisionIInv => InScope
  BY DEF PrecisionIInv
<1>2. PrecisionIInv /\ [PrecisionNext]_precisionVars => PrecisionIInv'
  BY PrecisionKeeps
<1> QED BY <1>1, <1>2, PrecisionEstablished, PTL DEF PrecisionSpec

\* Leaving a block restores the digits entering it found (~PrecisionContext).
THEOREM PrecisionRestored ==
    ASSUME Disciplined
    PROVE  PrecisionSpec => RestoredOnExit
<1> DEFINE Restores == \A t \in Tasks : Len(scopes'[t]) < Len(scopes[t]) =>
               current'[ThreadOf[t]] = scopes[t][Len(scopes[t])].before
<1>1. ASSUME PrecisionIInv, PrecisionNext
      PROVE  Restores
  <2>1. CASE \E t \in Tasks : Exit(t)
    <3> PICK t \in Tasks : Exit(t)
      BY <2>1
    <3>1. \A u \in Tasks \ {t} : scopes'[u] = scopes[u]
      BY <1>1 DEF Exit, PrecisionIInv, PrecisionTypeOK
    <3>2. \A u \in Tasks \ {t} : Len(scopes[u]) \in Nat
      BY <1>1 DEF PrecisionIInv, PrecisionTypeOK
    <3> QED BY <1>1, <3>1, <3>2, ExitRestores
  <2>2. CASE \E t \in Tasks, c \in Contexts : Enter(t, c)
    <3> PICK t \in Tasks, c \in Contexts : Enter(t, c)
      BY <2>2
    <3>1. \A u \in Tasks : Len(scopes[u]) \in Nat
      BY <1>1 DEF PrecisionIInv, PrecisionTypeOK
    <3>2. /\ \A u \in Tasks \ {t} : scopes'[u] = scopes[u]
          /\ scopes'[t] = Append(scopes[t],
                 [ctx |-> c, before |-> current[ThreadOf[t]]])
          /\ scopes[t] \in Seq(Block)
      BY <1>1 DEF Enter, PrecisionIInv, PrecisionTypeOK
    <3>3. Len(scopes'[t]) = Len(scopes[t]) + 1
      BY <3>2
    <3> QED BY <3>1, <3>2, <3>3
  <2> QED BY <1>1, <2>1, <2>2 DEF PrecisionNext
<1>2. PrecisionIInv /\ [PrecisionNext]_precisionVars => [Restores]_precisionVars
  BY <1>1
<1>3. PrecisionIInv /\ [PrecisionNext]_precisionVars => PrecisionIInv'
  BY PrecisionKeeps
<1> QED BY <1>2, <1>3, PrecisionEstablished, PTL DEF PrecisionSpec, RestoredOnExit
====
