------------------------------- MODULE Cursor -------------------------------
(***************************************************************************)
(* The automaton tier as values that are built, advanced, forked, saved    *)
(* and resumed (serialize.hpp, and the seed and JSON part of number.hpp):  *)
(* SeedConfigs, the MachineIterators spawned from them, Numbers, and the   *)
(* JSON texts of all three; and the expression trees of expr.hpp, which    *)
(* resolve to what a SeedConfig holds.  A machine is abstract here, Digit  *)
(* and After; RationalVM, SqrtVM and PAdicVM are the machines.             *)
(*                                                                         *)
(* history is auxiliary: the config an object descends from, the digits    *)
(* read from it along that descent, whoever read them, and how many of     *)
(* them were read before the object's own count began.                     *)
(***************************************************************************)
EXTENDS Integers, Sequences, SequencesExt

CONSTANTS Seeds,     \* the configs built: [gen, base, state]
          Digit(_),  \* step(...).digit of a config
          After(_),  \* the config with step(...).next for its state
          Bases,     \* the bases of SeedConfig::in_base
          Word,      \* the values of a uint64_t register, 0..(Word - 1)
          Objects,   \* the values a program holds
          MaxReads,  \* bound: digits read along one descent
          MaxDepth   \* bound: rebase nodes above a leaf

ASSUME CursorAssumption ==
    {MaxReads, MaxDepth, Word} \subseteq Nat /\ MaxReads < Word

\* A config: a tag, a base and the register, a uint64_t.
Configs == [gen : {c.gen : c \in Seeds},
            base : {c.base : c \in Seeds} \cup Bases, state : 0..(Word - 1)]

\* A step keeps the tag and the base of a config and its register in its word.
ASSUME MachineAssumption ==
    Seeds \subseteq Configs /\ \A c \in Configs : After(c) \in Configs

VARIABLES object,  \* what each value is: its kind, config, count and digit
          history
vars == <<object, history>>

Kinds == {"config", "iterator", "number"}
Nothing == [kind |-> "nothing"]
Config(c) == [kind |-> "config", config |-> c]
Iterator(c, n) == [kind |-> "iterator", config |-> c, pos |-> n, current |-> Digit(c)]
Number(c, n) == [kind |-> "number", config |-> c, pos |-> n]
Tree(c, bases) == [kind |-> "tree", config |-> c, rebased |-> bases]

Origin(c) == [from |-> c, read |-> <<>>, since |-> 0]
Recounted(h) == [h EXCEPT !.since = Len(h.read)]

Init ==
    /\ object = [o \in Objects |-> Nothing]
    /\ history = [o \in Objects |-> [from |-> Nothing, read |-> <<>>, since |-> 0]]

Becomes(o, v, h) ==
    /\ object' = [object EXCEPT ![o] = v]
    /\ history' = [history EXCEPT ![o] = h]

-----------------------------------------------------------------------------
\* SeedConfig::rational, sqrt, padic
Build(o) == \E c \in Seeds : Becomes(o, Config(c), Origin(c))

\* SeedConfig::in_base
InBase(o, p) ==
    /\ object[o].kind = "config"
    /\ \E b \in Bases :
           LET c == [object[o].config EXCEPT !.base = b]
           IN Becomes(p, Config(c), Origin(c))

\* Expr::leaf_rational, leaf_sqrt, leaf_padic
Leaf(o) == \E c \in Seeds : Becomes(o, Tree(c, <<>>), Origin(c))

\* Expr::rebase: a node above a tree that stays as it is.
Rebase(o, p) ==
    /\ object[o].kind = "tree"
    /\ Len(object[o].rebased) < MaxDepth
    /\ \E b \in Bases :
           Becomes(p, Tree(object[o].config, Append(object[o].rebased, b)),
                   Origin([history[o].from EXCEPT !.base = b]))

\* mutant: the rebase nodes are applied on the way down
ResolvedDownward(t) ==
    FoldRight(LAMBDA b, c : [c EXCEPT !.base = b], t.rebased, t.config)

\* resolve_expr: the leaf, then each rebase node on the way up.
Resolved(t) ==
    LET at[k \in Nat] ==
          IF k = 0 THEN t.config ELSE [at[k - 1] EXCEPT !.base = t.rebased[k]]
    IN at[Len(t.rebased)]
Resolve(o, p) ==
    /\ object[o].kind = "tree"
    /\ Becomes(p, Config(Resolved(object[o])), history[o])

\* iterate, Number::machine: a cursor at the config, its count from zero.
Iterate(o, p) ==
    /\ object[o].kind \in {"config", "number"}
    /\ Becomes(p, Iterator(object[o].config, 0), Recounted(history[o]))

\* Number::from_seed
FromSeed(o, p) ==
    /\ object[o].kind = "config"
    /\ Becomes(p, Number(object[o].config, 0), Recounted(history[o]))

\* live_config, Number::seed_config: the config of where the machine now is.
LiveConfig(o, p) ==
    /\ object[o].kind \in {"iterator", "number"}
    /\ Becomes(p, Config(object[o].config), history[o])

\* mutant: the cursor keeps the digit it had before it moved
AdvancedStale(v) == [v EXCEPT !.config = After(@), !.pos = @ + 1]

\* MachineIterator::advance: the next digit is looked up after the step.
Advanced(v) == Iterator(After(v.config), v.pos + 1)

\* operator++ and next(), which hands out the digit at the cursor.
Advance(o) ==
    /\ object[o].kind = "iterator"
    /\ Len(history[o].read) < MaxReads
    /\ Becomes(o, Advanced(object[o]),
               [history[o] EXCEPT !.read = Append(@, object[o].current)])

\* Number::next_digit of the automaton tier.
NextDigit(o) ==
    /\ object[o].kind = "number"
    /\ Len(history[o].read) < MaxReads
    /\ LET c == object[o].config
       IN Becomes(o, Number(After(c), object[o].pos + 1),
                  [history[o] EXCEPT !.read = Append(@, Digit(c))])

\* A plain copy, and MachineIterator::fork, which is one.
Copy(o, p) ==
    /\ object[o].kind \in Kinds
    /\ Becomes(p, object[o], history[o])

\* Number::fork: the first half is a copy; the second is built from a default
\* Number, whose count is zero, and gets the machine alone.
Fork(o, p, q) ==
    /\ object[o].kind = "number" /\ p # q
    /\ object' = [object EXCEPT ![p] = object[o], ![q] = Number(object[o].config, 0)]
    /\ history' = [history EXCEPT ![p] = history[o], ![q] = Recounted(history[o])]

\* A register or a count is written as an int64_t and read back as a uint64_t,
\* here with Word for 2^64.
Signed(n) == IF n < Word \div 2 THEN n ELSE n - Word
Unsigned(i) == i % Word

\* The fields of a JSON object; direction and scale go with gen.
Text(v, pos) ==
    [kind |-> "text", of |-> v.kind, gen |-> v.config.gen,
     base |-> v.config.base, state |-> Signed(v.config.state), pos |-> Signed(pos)]
Read(t) == [gen |-> t.gen, base |-> t.base, state |-> Unsigned(t.state)]

\* mutant: a text holds the machine but not how far it has come
SavedUncounted(v) == Text(v, 0)

\* to_json: a config has no count, a cursor's digit is not written.
Saved(v) == Text(v, IF v.kind = "config" THEN 0 ELSE v.pos)
Save(o, p) ==
    /\ object[o].kind \in Kinds
    /\ Becomes(p, Saved(object[o]), history[o])

\* mutant: the register is not brought back from int64_t
LoadedSigned(t) ==
    LET c == [Read(t) EXCEPT !.state = t.state] IN
    CASE t.of = "config" -> Config(c)
      [] t.of = "iterator" -> Iterator(c, Unsigned(t.pos))
      [] t.of = "number" -> Number(c, Unsigned(t.pos))

\* from_json: the digit at a cursor is looked up again.
Loaded(t) ==
    CASE t.of = "config" -> Config(Read(t))
      [] t.of = "iterator" -> Iterator(Read(t), Unsigned(t.pos))
      [] t.of = "number" -> Number(Read(t), Unsigned(t.pos))
Load(o, p) ==
    /\ object[o].kind = "text"
    /\ Becomes(p, Loaded(object[o]), history[o])

Next ==
    \E o, p \in Objects :
        \/ Build(o) \/ Leaf(o) \/ Advance(o) \/ NextDigit(o)
        \/ Rebase(o, p) \/ Resolve(o, p)
        \/ InBase(o, p) \/ Iterate(o, p) \/ FromSeed(o, p) \/ LiveConfig(o, p)
        \/ Copy(o, p) \/ Save(o, p) \/ Load(o, p)
        \/ \E q \in Objects : Fork(o, p, q)

Spec == Init /\ [][Next]_vars

-----------------------------------------------------------------------------
(* What it promises. *)

Alive(o) == object[o].kind \in Kinds
Live(o) == object[o].kind \in {"iterator", "number"}

\* The machine where a run that was never interrupted would have it.
At(c, n) == LET at[k \in Nat] == IF k = 0 THEN c ELSE After(at[k - 1]) IN at[n]
Uninterrupted(o) == At(history[o].from, Len(history[o].read))

\* "a long run can be checkpointed and resumed byte-identically"
\* (serialize.hpp:258-259): over any chain of copies, forks, texts, spawned
\* cursors, rebuilt numbers and resolved expressions, an object stands where
\* the uninterrupted run would, the digits read along the chain are that run's
\* digits, and its count (position(), a Number's "emitted") is of those read
\* since it was spawned, or built of a config, or was the second half of a
\* Number::fork; copies and texts hand the count on.
ResumesIdentically ==
    \A o \in Objects : Alive(o) =>
        /\ object[o].config = Uninterrupted(o)
        /\ \A k \in 1..Len(history[o].read) :
               history[o].read[k] = Digit(At(history[o].from, k - 1))
        /\ Live(o) => object[o].pos = Len(history[o].read) - history[o].since

\* A cursor shows "the digit the live state would emit next"
\* (serialize.hpp:374-375).
CursorSeesNext ==
    \A o \in Objects :
        object[o].kind = "iterator" =>
            object[o].current = Digit(Uninterrupted(o))
=============================================================================
