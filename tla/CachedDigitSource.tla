-------------------------- MODULE CachedDigitSource --------------------------
(***************************************************************************)
(* memo.hpp: CachedDigitSource, random access to the digits of a producer  *)
(* that yields them in order.  digit(i) answers from the cache, or calls   *)
(* the producer until digit i has come by, caching every digit on the way. *)
(* The producer may answer "pending" (nullopt) at any call and yield that  *)
(* same digit at a later one.                                              *)
(***************************************************************************)
EXTENDS LruDigitCache

CONSTANT Digit      \* Digit[i], what the producer yields at its i-th success

ASSUME IndicesAssumption ==
  /\ Indices \subseteq Nat
  /\ 0 \in Indices
  /\ \A i \in Indices : 0..i \subseteq Indices
ASSUME DigitAssumption == Digit \in [Indices -> Digits]

VARIABLES
  produced,     \* produced_
  pc, want,     \* the call digit(want): "idle" or "compute"
  answer,       \* what the last call returned
  pended        \* history: the producer was pending in the current call

vars == <<lruVars, produced, pc, want, answer, pended>>

Init == /\ LruInit
        /\ produced = 0
        /\ pc = "idle" /\ want = 0 /\ answer = None /\ pended = FALSE

-----------------------------------------------------------------------------
(* digit(i): a hit returns at once. *)
CallHit(i) ==
  /\ pc = "idle"
  /\ GetHit(i)
  /\ want' = i
  /\ answer' = map[i]
  /\ pended' = FALSE
  /\ UNCHANGED <<produced, pc>>

CallMiss(i) ==
  /\ pc = "idle"
  /\ GetMiss(i)
  /\ want' = i
  /\ pc' = "compute"
  /\ pended' = FALSE
  /\ UNCHANGED <<produced, answer>>

ProduceUncounted ==                     \* mutant: ++produced_ before the put
  /\ pc = "compute"
  /\ produced <= want
  /\ produced' = produced + 1
  /\ IF produced' \in Indices THEN Put(produced', Digit[produced])
                              ELSE UNCHANGED lruVars
  /\ UNCHANGED <<pc, want, answer, pended>>

(* One turn of the loop "while (produced_ <= index)": a digit, *)
Produce ==
  /\ pc = "compute"
  /\ produced <= want
  /\ Put(produced, Digit[produced])
  /\ produced' = produced + 1
  /\ UNCHANGED <<pc, want, answer, pended>>

(* or a pending, which ends the call; what was produced stays produced. *)
ProducePending ==
  /\ pc = "compute"
  /\ produced <= want
  /\ pc' = "idle"
  /\ answer' = None
  /\ pended' = TRUE
  /\ UNCHANGED <<lruVars, produced, want>>

ReturnNewest ==                         \* mutant: returns the last one produced
  /\ pc = "compute"
  /\ produced > want
  /\ Get(want)
  /\ answer' = Lookup(produced - 1)
  /\ pc' = "idle"
  /\ UNCHANGED <<produced, want, pended>>

(* After the loop the call looks the digit up once more. *)
Return ==
  /\ pc = "compute"
  /\ produced > want
  /\ Get(want)
  /\ answer' = Lookup(want)
  /\ pc' = "idle"
  /\ UNCHANGED <<produced, want, pended>>

Next == (\E i \in Indices : CallHit(i) \/ CallMiss(i))
        \/ Produce \/ ProducePending \/ Return

Spec == Init /\ [][Next]_vars

-----------------------------------------------------------------------------
(* Properties *)

SourceTypeOK ==
  /\ TypeOK
  /\ produced \in Nat
  /\ pc \in {"idle", "compute"}
  /\ want \in Indices
  /\ answer \in Digits \cup {None}
  /\ pended \in BOOLEAN

(* A digit that is served is the producer's digit at the index asked for,  *)
(* however many calls, pendings and evictions came before.                 *)
ServesTheStream ==
  pc = "idle" /\ answer # None => answer = Digit[want]

(* The cache holds no digit the producer has not yielded, and no digit     *)
(* under another one's index.                                              *)
CacheIsStream == \A i \in Cached : i < produced /\ map[i] = Digit[i]

(* An answer of nullopt from a producer that was not pending is a digit    *)
(* that was evicted: at least Slots other indices were used after it, and  *)
(* no call will ever produce it again.                                     *)
UnansweredWasEvicted ==
  [][pc = "compute" /\ pc' = "idle" /\ answer' = None /\ ~pended'
     => /\ want < produced
        /\ \E p \in 1..Len(recent) : recent[p] = want /\ p > Slots]_vars

(* memo.hpp promises "serves cache hits for any already-computed index"    *)
(* and "nullopt propagates an honest pending from the producer".           *)
PendingIsHonest ==
  [][pc = "compute" /\ pc' = "idle" /\ answer' = None => pended']_vars
=============================================================================
