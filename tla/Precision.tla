----------------------------- MODULE Precision -----------------------------
(***************************************************************************)
(* The scoped precision of number.hpp.  PrecisionContext is a guard: its   *)
(* constructor saves the thread-local digit count and overwrites it, its   *)
(* destructor writes the saved value back.  The Python and WebAssembly     *)
(* bindings keep the guard in a unique_ptr inside a context object that a  *)
(* `with` block (or nam.js precision_context) enters and exits.            *)
(*                                                                         *)
(* A task is what runs the blocks in order: a thread, or a coroutine that  *)
(* shares its thread with others.  Blocks of one task nest; nothing orders *)
(* the blocks of two tasks.                                                *)
(***************************************************************************)
EXTENDS Integers, Sequences

CONSTANTS Tasks, Threads, ThreadOf,   \* who runs on which thread
          Contexts, DigitsOf,         \* context objects and what each asks for
          Reenter,                    \* may an entered object be entered again?
          MaxDepth                    \* bound on the nesting of one task

ASSUME PrecisionAssumption ==
    /\ ThreadOf \in [Tasks -> Threads]
    /\ DigitsOf \in [Contexts -> Int]
    /\ Reenter \in BOOLEAN
    /\ MaxDepth \in Nat

\* `static thread_local int d = 30`
Default == 30

VARIABLES current,  \* the thread-local digit count, per thread
          held,     \* the context objects whose guard_ is not null
          prev,     \* the prev_ of the guard each of those holds
          scopes    \* the open blocks of each task: object and digits before it
precisionVars == <<current, held, prev, scopes>>

\* The digit counts anything asks for.
Requested == {Default} \cup {DigitsOf[c] : c \in Contexts}
Block == [ctx : Contexts, before : Requested]

\* The thread-local, every saved value and every value a block found is a
\* digit count someone asked for: guards copy counts, they never combine them.
PrecisionTypeOK ==
    /\ current \in [Threads -> Requested]
    /\ held \subseteq Contexts
    /\ prev \in [Contexts -> Requested]
    /\ scopes \in [Tasks -> Seq(Block)]

PrecisionInit ==
    /\ current = [th \in Threads |-> Default]
    /\ held = {}
    /\ prev = [c \in Contexts |-> Default]
    /\ scopes = [t \in Tasks |-> <<>>]

\* The digit count that destroying the guard of c leaves when it was d.
Released(c, d) == IF c \in held THEN prev[c] ELSE d

\* mutant: one digit count for the process: the default is read and written for all
EnterEverywhere(t, c) ==
    /\ Len(scopes[t]) < MaxDepth
    /\ Reenter \/ c \notin held
    /\ held' = held \cup {c}
    /\ prev' = [prev EXCEPT ![c] = current[ThreadOf[t]]]
    /\ current' = [th \in Threads |-> Released(c, DigitsOf[c])]
    /\ scopes' = [scopes EXCEPT ![t] =
                     Append(@, [ctx |-> c, before |-> current[ThreadOf[t]]])]

\* enter(): make_unique builds the new guard first, the assignment to guard_
\* then destroys the one the object already held.
Enter(t, c) ==
    LET th == ThreadOf[t] IN
    /\ Len(scopes[t]) < MaxDepth
    /\ Reenter \/ c \notin held
    /\ held' = held \cup {c}
    /\ prev' = [prev EXCEPT ![c] = current[th]]
    /\ current' = [current EXCEPT ![th] = Released(c, DigitsOf[c])]
    /\ scopes' = [scopes EXCEPT ![t] =
                     Append(@, [ctx |-> c, before |-> current[th]])]

\* mutant: exit forgets to write the saved digits back
ExitUnrestored(t) ==
    /\ scopes[t] # <<>>
    /\ held' = held \ {scopes[t][Len(scopes[t])].ctx}
    /\ scopes' = [scopes EXCEPT ![t] = SubSeq(@, 1, Len(@) - 1)]
    /\ UNCHANGED <<current, prev>>

\* exit(): guard_.reset(), a no-op on an empty pointer.
Exit(t) ==
    /\ scopes[t] # <<>>
    /\ LET c == scopes[t][Len(scopes[t])].ctx
           th == ThreadOf[t]
       IN /\ current' = [current EXCEPT ![th] = Released(c, @)]
          /\ held' = held \ {c}
    /\ scopes' = [scopes EXCEPT ![t] = SubSeq(@, 1, Len(@) - 1)]
    /\ UNCHANGED prev

PrecisionNext == \E t \in Tasks : Exit(t) \/ \E c \in Contexts : Enter(t, c)

PrecisionSpec == PrecisionInit /\ [][PrecisionNext]_precisionVars

-----------------------------------------------------------------------------

\* The digits in force under the n outermost blocks of a task.
InForce(s, n) == IF n = 0 THEN Default ELSE DigitsOf[s[n].ctx]

\* The digit count a thread reads is the one its innermost open block asked
\* for, the default outside every block (PrecisionContext::digits).
InScope ==
    \A t \in Tasks :
        current[ThreadOf[t]] = InForce(scopes[t], Len(scopes[t]))

\* Leaving a block restores the digit count found on entering it, whatever
\* the blocks of the same task inside it and of other threads meanwhile did.
RestoredOnExit ==
    [][\A t \in Tasks : Len(scopes'[t]) < Len(scopes[t]) =>
           current'[ThreadOf[t]] = scopes[t][Len(scopes[t])].before]_precisionVars

\* When every block is closed, every thread is back at the default: nothing
\* leaks out of a scope (PrecisionContext, the README's "no global mutable
\* precision leaking across threads or scopes").
NothingLeaks ==
    (\A t \in Tasks : scopes[t] = <<>>) =>
        \A th \in Threads : current[th] = Default
=============================================================================
