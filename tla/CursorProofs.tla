---------------------------- MODULE CursorProofs ----------------------------
(***************************************************************************)
(* Checkpoints are exact for every machine: whatever Digit and After are,  *)
(* an object reached by any chain of forks, texts, spawned cursors and     *)
(* resolved expressions stands where an uninterrupted run would.           *)
(***************************************************************************)
EXTENDS Cursor, Recursion, SequenceTheorems

-----------------------------------------------------------------------------
(* Recursive definitions of Cursor. *)

\* The uninterrupted run starts at its config and steps.
LEMMA Run ==
    ASSUME NEW c \in Configs
    PROVE  /\ At(c, 0) = c
           /\ \A n \in Nat : At(c, n) \in Configs /\ At(c, n + 1) = After(At(c, n))
  <1> DEFINE F == [k \in Nat |-> [x \in Configs |-> After(x)]]
             at == CHOOSE at : at = [k \in Nat |-> IF k = 0 THEN c ELSE After(at[k - 1])]
  <1>1. PICK g \in [Nat -> Configs] : Runs(g, c, F)
    <2>1. F \in [Nat -> [Configs -> Configs]]
      BY MachineAssumption
    <2> HIDE DEF F
    <2> QED
      BY <2>1, PrimitiveRecursion
  <1>2. \A k \in Nat : g[k] = IF k = 0 THEN c ELSE After(g[k - 1])
    <2>1. ASSUME NEW k \in Nat, k # 0 PROVE g[k] = After(g[k - 1])
      <3>1. k - 1 \in Nat /\ (k - 1) + 1 = k
        BY <2>1
      <3> QED
        BY <3>1, <1>1 DEF Runs
    <2> QED
      BY <2>1, <1>1 DEF Runs
  <1>3. g = [k \in Nat |-> IF k = 0 THEN c ELSE After(g[k - 1])]
    BY <1>2
  <1>4. at = [k \in Nat |-> IF k = 0 THEN c ELSE After(at[k - 1])]
    BY <1>3
  <1>5. \A n \in Nat : At(c, n) = at[n]
    BY DEF At
  <1> HIDE DEF at
  <1>6. at[0] = c /\ \A n \in Nat : at[n + 1] = After(at[n])
    BY <1>4
  <1>7. \A n \in Nat : at[n] \in Configs
    <2> DEFINE S == {n \in Nat : at[n] \in Configs}
    <2>1. 0 \in S /\ \A n \in Nat : n \in S => n + 1 \in S
      BY <1>6, MachineAssumption
    <2> HIDE DEF S
    <2>2. \A n \in Nat : n \in S
      BY <2>1, SetInduction
    <2> QED
      BY <2>2 DEF S
  <1> QED
    BY <1>5, <1>6, <1>7

Under(x, b) == [x EXCEPT !.base = b]
Resolution(c, bases) ==
    CHOOSE at : at = [k \in Nat |->
        IF k = 0 THEN c ELSE [at[k - 1] EXCEPT !.base = bases[k]]]

\* The rebase nodes of a tree apply to its leaf one after another.
LEMMA ResolutionSteps ==
    ASSUME NEW c \in Configs, NEW bases
    PROVE  /\ Resolved(Tree(c, bases)) = Resolution(c, bases)[Len(bases)]
           /\ Resolution(c, bases)[0] = c
           /\ \A k \in Nat : Resolution(c, bases)[k + 1]
                                 = Under(Resolution(c, bases)[k], bases[k + 1])
  <1> DEFINE A == [gen : {c.gen}, state : {c.state},
                   base : {c.base} \cup {bases[k] : k \in Nat}]
             F == [k \in Nat |-> [x \in A |-> Under(x, bases[k + 1])]]
             at == Resolution(c, bases)
  <1>1. c \in A
    BY DEF Configs
  <1>2. \A k \in Nat, x \in A : Under(x, bases[k + 1]) \in A
    BY DEF Under
  <1>3. F \in [Nat -> [A -> A]]
    BY <1>2
  <1>4. PICK g \in [Nat -> A] : Runs(g, c, F)
    <2> HIDE DEF A, F
    <2> QED
      BY <1>1, <1>3, PrimitiveRecursion
  <1>5. \A n \in Nat : g[n + 1] = Under(g[n], bases[n + 1])
    BY <1>4 DEF Runs
  <1>6. \A k \in Nat : g[k] = IF k = 0 THEN c ELSE [g[k - 1] EXCEPT !.base = bases[k]]
    <2>1. ASSUME NEW k \in Nat, k # 0 PROVE g[k] = [g[k - 1] EXCEPT !.base = bases[k]]
      <3>1. k - 1 \in Nat /\ (k - 1) + 1 = k
        BY <2>1
      <3> QED
        BY <3>1, <1>5 DEF Under
    <2> QED
      BY <2>1, <1>4 DEF Runs
  <1> HIDE DEF A, F
  <1>7. g = [k \in Nat |-> IF k = 0 THEN c ELSE [g[k - 1] EXCEPT !.base = bases[k]]]
    BY <1>6
  <1>8. at = [k \in Nat |-> IF k = 0 THEN c ELSE [at[k - 1] EXCEPT !.base = bases[k]]]
    BY <1>7 DEF Resolution
  <1>9. Resolved(Tree(c, bases)) = at[Len(bases)]
    BY DEF Resolved, Tree, Resolution
  <1> HIDE DEF at
  <1>10. at[0] = c /\ \A k \in Nat : at[k + 1] = Under(at[k], bases[k + 1])
    BY <1>8 DEF Under
  <1> QED
    BY <1>9, <1>10 DEF at

\* A tree resolves to a config, and another node above it changes its base.
LEMMA Rebased ==
    ASSUME NEW c \in Configs, NEW bases \in Seq(Bases)
    PROVE  /\ Resolved(Tree(c, <<>>)) = c
           /\ Resolved(Tree(c, bases)) \in Configs
           /\ \A b \in Bases : Resolved(Tree(c, Append(bases, b)))
                                   = Under(Resolved(Tree(c, bases)), b)
  <1>1. Resolved(Tree(c, <<>>)) = c
    <2>1. Resolved(Tree(c, <<>>)) = Resolution(c, <<>>)[Len(<<>>)]
      BY ResolutionSteps
    <2>2. Resolution(c, <<>>)[0] = c
      BY ResolutionSteps
    <2> QED
      BY <2>1, <2>2
  <1>2. Resolved(Tree(c, bases)) \in Configs
    <2> DEFINE S == {k \in Nat : Resolution(c, bases)[k] \in Configs}
    <2>1. 0 \in S
      BY ResolutionSteps
    <2>2. ASSUME NEW k \in Nat, k < Len(bases), k \in S PROVE k + 1 \in S
      <3>1. bases[k + 1] \in Bases
        BY <2>2
      <3>2. Under(Resolution(c, bases)[k], bases[k + 1]) \in Configs
        BY <2>2, <3>1 DEF Under, Configs
      <3>3. Resolution(c, bases)[k + 1]
                = Under(Resolution(c, bases)[k], bases[k + 1])
        BY ResolutionSteps
      <3> QED
        BY <3>2, <3>3
    <2>3. \A k \in 0..Len(bases) : k \in S
      <3> HIDE DEF S
      <3> QED
        BY <2>1, <2>2, BoundedInduction
    <2>4. Resolved(Tree(c, bases)) = Resolution(c, bases)[Len(bases)]
      BY ResolutionSteps
    <2>5. Len(bases) \in S
      BY <2>3
    <2> QED
      BY <2>4, <2>5
  <1>3. ASSUME NEW b \in Bases
        PROVE  Resolved(Tree(c, Append(bases, b))) = Under(Resolved(Tree(c, bases)), b)
    <2> DEFINE more == Append(bases, b)
               n == Len(bases)
               S == {k \in Nat : Resolution(c, more)[k] = Resolution(c, bases)[k]}
    <2>1. n \in Nat /\ Len(more) = n + 1 /\ more[n + 1] = b
      OBVIOUS
    <2>2. \A k \in Nat : k < n => more[k + 1] = bases[k + 1]
      OBVIOUS
    <2> HIDE DEF more
    <2>3. 0 \in S
      BY ResolutionSteps
    <2>4. ASSUME NEW k \in Nat, k < n, k \in S PROVE k + 1 \in S
      BY <2>2, <2>4, ResolutionSteps
    <2>5. \A k \in 0..n : k \in S
      <3> HIDE DEF S
      <3> QED
        BY <2>1, <2>3, <2>4, BoundedInduction
    <2>6. Resolution(c, more)[n] = Resolution(c, bases)[n]
      BY <2>1, <2>5
    <2>7. Resolved(Tree(c, more)) = Under(Resolution(c, more)[n], b)
      <3>1. Resolved(Tree(c, more)) = Resolution(c, more)[Len(more)]
        BY ResolutionSteps
      <3>2. Resolution(c, more)[n + 1] = Under(Resolution(c, more)[n], more[n + 1])
        BY <2>1, ResolutionSteps
      <3> QED
        BY <2>1, <3>1, <3>2
    <2> QED
      BY <2>6, <2>7, ResolutionSteps DEF more
  <1> QED
    BY <1>1, <1>2, <1>3

-----------------------------------------------------------------------------
(* The text of a machine. *)

\* A register survives its way through an int64_t.
LEMMA Recast ==
    ASSUME NEW n \in Nat, n < Word, Word \in Nat
    PROVE  Unsigned(Signed(n)) = n
  <1>1. CASE n < Word \div 2
    BY <1>1 DEF Unsigned, Signed
  <1>2. CASE ~(n < Word \div 2)
    <2>1. (n - Word) % Word = n
      BY SMT
    <2> QED
      BY <1>2, <2>1 DEF Unsigned, Signed
  <1> QED
    BY <1>1, <1>2

-----------------------------------------------------------------------------
(* The inductive invariant: what a value is, given its history.  That an   *)
(* object resumes says nothing of texts and trees, from which objects are  *)
(* made; the invariant says that a text is the text of a machine that      *)
(* stands where it should, and a tree resolves to where its history starts. *)

Digits == {Digit(c) : c \in Configs}

\* The digits read along a descent are those of the run from where it began.
Faithful(h) ==
    /\ h \in [from : Configs, read : Seq(Digits), since : Nat]
    /\ h.since <= Len(h.read) /\ Len(h.read) <= MaxReads
    /\ \A k \in 1..Len(h.read) : h.read[k] = Digit(At(h.from, k - 1))

Stands(c, h) == Faithful(h) /\ c = At(h.from, Len(h.read))
Count(h) == Len(h.read) - h.since

Held(v, h) ==
    \E c \in Configs :
        /\ Stands(c, h)
        /\ v \in {Config(c), Iterator(c, Count(h)), Number(c, Count(h))}
Written(v, h) == \E w : Held(w, h) /\ v = Saved(w)
Planted(v, h) ==
    /\ Faithful(h) /\ h.read = <<>> /\ h.since = 0
    /\ \E c \in Configs, bases \in Seq(Bases) : v = Tree(c, bases)
    /\ h.from = Resolved(v)
Kept(v, h) == v = Nothing \/ Held(v, h) \/ Written(v, h) \/ Planted(v, h)

IInv ==
    /\ DOMAIN object = Objects /\ DOMAIN history = Objects
    /\ \A o \in Objects : Kept(object[o], history[o])

\* The kind of a value says which.
LEMMA KindsApart ==
    ASSUME NEW v, NEW h, Kept(v, h)
    PROVE  /\ v.kind \in Kinds => Held(v, h)
           /\ v.kind = "text" => Written(v, h)
           /\ v.kind = "tree" => Planted(v, h)
  BY DEF Kept, Held, Written, Planted, Kinds, Nothing, Config, Iterator, Number,
         Tree, Saved, Text

\* Which kind of value stands for which machine.
LEMMA HeldKinds ==
    ASSUME NEW v, NEW h, Held(v, h)
    PROVE  /\ v.config \in Configs /\ Stands(v.config, h) /\ v.kind \in Kinds
           /\ v.kind = "config" => v = Config(v.config)
           /\ v.kind = "iterator" => v = Iterator(v.config, Count(h))
           /\ v.kind = "number" => v = Number(v.config, Count(h))
  BY DEF Held, Kinds, Config, Iterator, Number

\* An assignment of a value that is kept.
LEMMA BecomesKeeps ==
    ASSUME IInv, NEW o \in Objects, NEW v, NEW h, Becomes(o, v, h), Kept(v, h)
    PROVE  IInv'
  BY DEF IInv, Becomes

\* What is saved is loaded as it was.
LEMMA LoadedIsSaved ==
    ASSUME NEW v, NEW h, Held(v, h)
    PROVE  Loaded(Saved(v)) = v
  <1> USE CursorAssumption
  <1> DEFINE c == v.config
  <1>1. c \in Configs /\ Count(h) \in Nat /\ Count(h) < Word /\ Word \in Nat
    BY HeldKinds DEF Stands, Faithful, Count
  <1>2. c = [gen |-> c.gen, base |-> c.base, state |-> c.state]
        /\ c.state \in Nat /\ c.state < Word
    BY <1>1 DEF Configs
  <1>3. Unsigned(Signed(c.state)) = c.state /\ Unsigned(Signed(Count(h))) = Count(h)
    BY <1>1, <1>2, Recast
  <1>4. CASE v.kind = "config"
    <2>1. v = Config(c) /\ Saved(v) = Text(v, 0)
      BY <1>4, HeldKinds DEF Saved
    <2> QED
      BY <1>2, <1>3, <2>1 DEF Loaded, Text, Config, Read
  <1>5. CASE v.kind = "iterator"
    <2>1. v = Iterator(c, Count(h)) /\ v.pos = Count(h) /\ Saved(v) = Text(v, v.pos)
      BY <1>5, HeldKinds DEF Saved, Iterator
    <2>2. Loaded(Text(v, Count(h))) = Iterator(c, Count(h))
      BY <1>2, <1>3, <1>5 DEF Loaded, Text, Read
    <2> QED
      BY <2>1, <2>2
  <1>6. CASE v.kind = "number"
    <2>1. v = Number(c, Count(h)) /\ v.pos = Count(h) /\ Saved(v) = Text(v, v.pos)
      BY <1>6, HeldKinds DEF Saved, Number
    <2>2. Loaded(Text(v, Count(h))) = Number(c, Count(h))
      BY <1>2, <1>3, <1>6 DEF Loaded, Text, Read
    <2> QED
      BY <2>1, <2>2
  <1> QED
    BY <1>4, <1>5, <1>6, HeldKinds DEF Kinds

\* A config on its own begins a run.
LEMMA OriginStands ==
    ASSUME NEW c \in Configs
    PROVE  Faithful(Origin(c)) /\ Stands(c, Origin(c))
  BY CursorAssumption, Run DEF Faithful, Stands, Origin

\* Counting from here on does not change where a machine stands.
LEMMA RecountedStands ==
    ASSUME NEW c, NEW h, Stands(c, h)
    PROVE  Stands(c, Recounted(h)) /\ Count(Recounted(h)) = 0
  BY DEF Stands, Faithful, Recounted, Count

\* A digit read and the step after it.
LEMMA ReadStands ==
    ASSUME NEW c \in Configs, NEW h, Stands(c, h), Len(h.read) < MaxReads
    PROVE  LET g == [h EXCEPT !.read = Append(@, Digit(c))]
           IN  /\ Stands(After(c), g) /\ After(c) \in Configs
               /\ Count(g) = Count(h) + 1
  <1> DEFINE g == [h EXCEPT !.read = Append(@, Digit(c))]
             n == Len(h.read)
  <1>1. /\ h \in [from : Configs, read : Seq(Digits), since : Nat]
        /\ n \in Nat /\ Digit(c) \in Digits
    BY DEF Stands, Faithful, Digits
  <1>2. /\ g \in [from : Configs, read : Seq(Digits), since : Nat]
        /\ g.from = h.from /\ g.since = h.since /\ g.read = Append(h.read, Digit(c))
    BY <1>1
  <1>3. /\ Len(g.read) = n + 1 /\ g.read[n + 1] = Digit(c)
        /\ \A k \in 1..n : g.read[k] = h.read[k]
    BY <1>1, <1>2
  <1>4. c = At(h.from, n) /\ At(h.from, n + 1) = After(c)
    BY <1>1, Run DEF Stands
  <1>5. ASSUME NEW k \in 1..(n + 1) PROVE g.read[k] = Digit(At(g.from, k - 1))
    <2>1. CASE k = n + 1
      <3>1. k - 1 = n
        BY <1>1, <2>1
      <3> QED
        BY <2>1, <3>1, <1>2, <1>3, <1>4
    <2>2. CASE k # n + 1
      BY <2>2, <1>1, <1>2, <1>3 DEF Stands, Faithful
    <2> QED
      BY <2>1, <2>2
  <1>6. Faithful(g)
    BY <1>1, <1>2, <1>3, <1>5, CursorAssumption DEF Stands, Faithful
  <1> HIDE DEF g
  <1>7. Stands(After(c), g) /\ Count(g) = Count(h) + 1
    BY <1>1, <1>2, <1>3, <1>4, <1>6 DEF Stands, Count
  <1> QED
    BY <1>7, MachineAssumption DEF g

-----------------------------------------------------------------------------
(* One lemma for the steps that make a value, one for those that read one. *)

LEMMA InitKept == Init => IInv
  BY DEF Init, IInv, Kept

\* Configs and trees that are built, rebased and resolved.
LEMMA BuildingKeeps ==
    ASSUME IInv, NEW o \in Objects, NEW p \in Objects,
           \/ Build(o) \/ Leaf(o) \/ InBase(o, p) \/ Rebase(o, p) \/ Resolve(o, p)
    PROVE  IInv'
  <1>0. Kept(object[o], history[o])
    BY DEF IInv
  <1>1. CASE Build(o)
    <2>1. PICK c \in Seeds : Becomes(o, Config(c), Origin(c))
      BY <1>1 DEF Build
    <2>2. c \in Configs
      BY MachineAssumption
    <2> QED
      BY <2>1, <2>2, OriginStands, BecomesKeeps DEF Kept, Held
  <1>2. CASE Leaf(o)
    <2>1. PICK c \in Seeds : Becomes(o, Tree(c, <<>>), Origin(c))
      BY <1>2 DEF Leaf
    <2>2. c \in Configs /\ <<>> \in Seq(Bases)
      BY MachineAssumption
    <2>3. Planted(Tree(c, <<>>), Origin(c))
      <3>1. Faithful(Origin(c)) /\ Resolved(Tree(c, <<>>)) = c
        BY <2>2, OriginStands, Rebased
      <3> QED
        BY <3>1, <2>2 DEF Planted, Origin
    <2> QED
      BY <2>1, <2>3, BecomesKeeps DEF Kept
  <1>3. CASE InBase(o, p)
    <2>1. PICK b \in Bases :
              LET c == Under(object[o].config, b)
              IN  Becomes(p, Config(c), Origin(c))
      BY <1>3 DEF InBase, Under
    <2>2. object[o].config \in Configs
      BY <1>0, <1>3, KindsApart, HeldKinds DEF InBase, Kinds
    <2>3. Under(object[o].config, b) \in Configs
      BY <2>2 DEF Under, Configs
    <2> QED
      BY <2>1, <2>3, OriginStands, BecomesKeeps DEF Kept, Held
  <1>4. CASE Rebase(o, p)
    <2>1. PICK c \in Configs, bases \in Seq(Bases) :
              /\ object[o] = Tree(c, bases)
              /\ history[o].from = Resolved(Tree(c, bases))
      BY <1>0, <1>4, KindsApart DEF Rebase, Planted
    <2>2. PICK b \in Bases :
              Becomes(p, Tree(c, Append(bases, b)), Origin(Under(history[o].from, b)))
      <3>1. object[o].config = c /\ object[o].rebased = bases
        BY <2>1 DEF Tree
      <3> QED
        BY <1>4, <3>1 DEF Rebase, Under
    <2>3. /\ Resolved(Tree(c, Append(bases, b))) = Under(history[o].from, b)
          /\ history[o].from \in Configs
      BY <2>1, Rebased
    <2>4. Under(history[o].from, b) \in Configs
      BY <2>3 DEF Under, Configs
    <2>5. Planted(Tree(c, Append(bases, b)), Origin(Under(history[o].from, b)))
      <3>1. Faithful(Origin(Under(history[o].from, b)))
        BY <2>4, OriginStands
      <3>2. Append(bases, b) \in Seq(Bases)
        OBVIOUS
      <3> QED
        BY <2>3, <3>1, <3>2 DEF Planted, Origin
    <2> QED
      BY <2>2, <2>5, BecomesKeeps DEF Kept
  <1>5. CASE Resolve(o, p)
    <2>1. /\ Becomes(p, Config(Resolved(object[o])), history[o])
          /\ Planted(object[o], history[o])
      BY <1>0, <1>5, KindsApart DEF Resolve
    <2>2. Resolved(object[o]) \in Configs /\ Len(history[o].read) = 0
          /\ Faithful(history[o]) /\ history[o].from = Resolved(object[o])
      BY <2>1, Rebased DEF Planted
    <2>3. Stands(Resolved(object[o]), history[o])
      BY <2>2, Run DEF Stands
    <2> QED
      BY <2>1, <2>2, <2>3, BecomesKeeps DEF Kept, Held
  <1> QED
    BY <1>1, <1>2, <1>3, <1>4, <1>5

\* Cursors and numbers that are spawned, copied, stepped, saved and loaded.
LEMMA RunningKeeps ==
    ASSUME IInv, NEW o \in Objects, NEW p \in Objects,
           \/ Iterate(o, p) \/ FromSeed(o, p) \/ LiveConfig(o, p) \/ Advance(o)
           \/ NextDigit(o) \/ Copy(o, p) \/ Save(o, p) \/ Load(o, p)
           \/ \E q \in Objects : Fork(o, p, q)
    PROVE  IInv'
  <1> DEFINE v == object[o]
             h == history[o]
             c == object[o].config
  <1>0. Kept(v, h)
    BY DEF IInv
  <1>1. CASE Iterate(o, p) \/ FromSeed(o, p)
    <2>1. Held(v, h)
      BY <1>0, <1>1, KindsApart DEF Iterate, FromSeed, Kinds
    <2>2. c \in Configs /\ Stands(c, Recounted(h)) /\ Count(Recounted(h)) = 0
      BY <2>1, HeldKinds, RecountedStands
    <2>3. Held(Iterator(c, 0), Recounted(h)) /\ Held(Number(c, 0), Recounted(h))
      BY <2>2 DEF Held
    <2> QED
      BY <1>1, <2>3, BecomesKeeps DEF Iterate, FromSeed, Kept
  <1>2. CASE LiveConfig(o, p)
    <2>1. Held(v, h)
      BY <1>0, <1>2, KindsApart DEF LiveConfig, Kinds
    <2>2. Held(Config(c), h)
      BY <2>1, HeldKinds DEF Held
    <2> QED
      BY <1>2, <2>2, BecomesKeeps DEF LiveConfig, Kept
  <1>3. CASE Advance(o)
    <2>1. Held(v, h) /\ v.kind = "iterator"
      BY <1>0, <1>3, KindsApart DEF Advance, Kinds
    <2>2. v = Iterator(c, Count(h)) /\ v.current = Digit(c) /\ v.pos = Count(h)
      BY <2>1, HeldKinds DEF Iterator
    <2> DEFINE g == [h EXCEPT !.read = Append(@, Digit(c))]
    <2>3. Becomes(o, Iterator(After(c), Count(h) + 1), g)
      BY <1>3, <2>2 DEF Advance, Advanced
    <2>4. Stands(After(c), g) /\ After(c) \in Configs /\ Count(g) = Count(h) + 1
      BY <1>3, <2>1, HeldKinds, ReadStands DEF Advance
    <2> HIDE DEF g
    <2> QED
      BY <2>3, <2>4, BecomesKeeps DEF Kept, Held
  <1>4. CASE NextDigit(o)
    <2>1. Held(v, h) /\ v.kind = "number"
      BY <1>0, <1>4, KindsApart DEF NextDigit, Kinds
    <2>2. v = Number(c, Count(h)) /\ v.pos = Count(h)
      BY <2>1, HeldKinds DEF Number
    <2> DEFINE g == [h EXCEPT !.read = Append(@, Digit(c))]
    <2>3. Becomes(o, Number(After(c), Count(h) + 1), g)
      BY <1>4, <2>2 DEF NextDigit
    <2>4. Stands(After(c), g) /\ After(c) \in Configs /\ Count(g) = Count(h) + 1
      BY <1>4, <2>1, HeldKinds, ReadStands DEF NextDigit
    <2> HIDE DEF g
    <2> QED
      BY <2>3, <2>4, BecomesKeeps DEF Kept, Held
  <1>5. CASE Copy(o, p)
    BY <1>0, <1>5, BecomesKeeps DEF Copy
  <1>6. CASE Save(o, p)
    <2>1. Held(v, h)
      BY <1>0, <1>6, KindsApart DEF Save
    <2> QED
      BY <1>6, <2>1, BecomesKeeps DEF Save, Kept, Written
  <1>7. CASE Load(o, p)
    <2>1. PICK w : Held(w, h) /\ v = Saved(w)
      BY <1>0, <1>7, KindsApart DEF Load, Written
    <2> QED
      BY <1>7, <2>1, LoadedIsSaved, BecomesKeeps DEF Load, Kept
  <1>8. ASSUME NEW q \in Objects, Fork(o, p, q) PROVE IInv'
    <2> DEFINE g == Recounted(h)
               w == Number(c, 0)
    <2>1. Held(v, h)
      BY <1>0, <1>8, KindsApart DEF Fork, Kinds
    <2>2. c \in Configs /\ Stands(c, g) /\ Count(g) = 0
      BY <2>1, HeldKinds, RecountedStands
    <2>3. Held(w, g)
      BY <2>2 DEF Held
    <2>4. /\ object' = [object EXCEPT ![p] = v, ![q] = w]
          /\ history' = [history EXCEPT ![p] = h, ![q] = g]
      BY <1>8 DEF Fork
    <2> HIDE DEF g, w
    <2>5. Kept(w, g) /\ Kept(v, h)
      BY <1>0, <2>3 DEF Kept
    <2> QED
      BY <2>4, <2>5 DEF IInv
  <1> QED
    BY <1>1, <1>2, <1>3, <1>4, <1>5, <1>6, <1>7, <1>8

LEMMA NextKeeps == IInv /\ [Next]_vars => IInv'
  <1> SUFFICES ASSUME IInv, [Next]_vars PROVE IInv'
    OBVIOUS
  <1>1. CASE Next
    BY <1>1, BuildingKeeps, RunningKeeps DEF Next
  <1>2. CASE UNCHANGED vars
    BY <1>2 DEF vars, IInv
  <1> QED
    BY <1>1, <1>2

-----------------------------------------------------------------------------

\* Over every chain of copies, forks, texts, spawned cursors, rebuilt numbers
\* and resolved expressions an object stands where the run that was never
\* interrupted would, with the digits of that run read, and counts those read
\* since it was spawned, built of a config or forked off as a second half
\* (serialize.hpp:258-259, "resumed byte-identically").
THEOREM MachinesResume == Spec => []ResumesIdentically
  <1>1. IInv => ResumesIdentically
    <2> SUFFICES ASSUME IInv, NEW o \in Objects, Alive(o)
                 PROVE  /\ object[o].config = Uninterrupted(o)
                        /\ \A k \in 1..Len(history[o].read) :
                               history[o].read[k] = Digit(At(history[o].from, k - 1))
                        /\ Live(o) => object[o].pos
                                          = Len(history[o].read) - history[o].since
      BY DEF ResumesIdentically
    <2>1. Held(object[o], history[o])
      BY KindsApart DEF IInv, Alive
    <2>2. Stands(object[o].config, history[o])
      BY <2>1, HeldKinds
    <2>3. Live(o) => object[o].pos = Count(history[o])
      BY <2>1, HeldKinds DEF Live, Iterator, Number
    <2> QED
      BY <2>2, <2>3 DEF Stands, Faithful, Uninterrupted, Count
  <1> QED
    BY <1>1, InitKept, NextKeeps, PTL DEF Spec

\* A cursor always shows the digit its machine would emit next, also when it
\* was loaded from a text that does not hold that digit (serialize.hpp:374-375).
THEOREM CursorsSeeNext == Spec => []CursorSeesNext
  <1>1. IInv => CursorSeesNext
    <2> SUFFICES ASSUME IInv, NEW o \in Objects, object[o].kind = "iterator"
                 PROVE  object[o].current = Digit(Uninterrupted(o))
      BY DEF CursorSeesNext
    <2>1. Held(object[o], history[o])
      BY KindsApart DEF IInv, Kinds
    <2>2. /\ object[o] = Iterator(object[o].config, Count(history[o]))
          /\ Stands(object[o].config, history[o])
      BY <2>1, HeldKinds
    <2> QED
      BY <2>2 DEF Stands, Uninterrupted, Iterator
  <1> QED
    BY <1>1, InitKept, NextKeeps, PTL DEF Spec
=============================================================================
