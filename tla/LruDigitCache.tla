--------------------------- MODULE LruDigitCache ---------------------------
(***************************************************************************)
(* memo.hpp: LruDigitCache, the bounded map from digit index to digit that *)
(* Number::cached and CachedDigitSource keep.  Two structures must agree:  *)
(* order_, the list of the cached indices from the most to the least       *)
(* recently used, and map_, from an index to its digit and its list node.  *)
(* A client may call get and put with any index, in any order.             *)
(***************************************************************************)
EXTENDS Integers, SequencesExt

CONSTANTS
  Capacity,     \* capacity_
  Indices,      \* the digit indices a client uses
  Digits,       \* the digit values
  None          \* nullopt

ASSUME CapacityAssumption == Capacity \in Nat
ASSUME NoneAssumption == None \notin Digits

VARIABLES
  order,        \* order_, front first
  map,          \* map_: the digit of each cached index
  recent,       \* history: every index used so far, the latest use first
  stored        \* history: the digit last put at each index, None if none

lruVars == <<order, map, recent, stored>>

Cached == DOMAIN map
EmptyMap == [i \in {} |-> None]

LruInit == /\ order = <<>>
           /\ map = EmptyMap
           /\ recent = <<>>
           /\ stored = [i \in Indices |-> None]

-----------------------------------------------------------------------------
(* order_.splice of the node at position p to the front *)
MoveToFront(s, p) ==
  [k \in 1..Len(s) |-> IF k = 1 THEN s[p] ELSE IF k <= p THEN s[k - 1] ELSE s[k]]

Position(s, i) == CHOOSE p \in 1..Len(s) : s[p] = i

SpliceForgotten(i) == order             \* mutant: a use that does not count

Spliced(i) == MoveToFront(order, Position(order, i))

Used(i) == recent' = <<i>> \o RemoveFirst(recent, i)

(* What get returns; only a hit counts as a use. *)
Lookup(i) == IF i \in Cached THEN map[i] ELSE None

GetHit(i) ==
  /\ i \in Cached
  /\ order' = Spliced(i)
  /\ Used(i)
  /\ UNCHANGED <<map, stored>>

GetMiss(i) ==
  /\ i \notin Cached
  /\ UNCHANGED lruVars

Get(i) == GetHit(i) \/ GetMiss(i)

PutExistingKeepsDigit(i, d) ==          \* mutant: the old digit survives
  /\ i \in Cached
  /\ order' = Spliced(i)
  /\ Used(i)
  /\ stored' = [stored EXCEPT ![i] = d]
  /\ UNCHANGED map

PutExisting(i, d) ==
  /\ i \in Cached
  /\ map' = [map EXCEPT ![i] = d]
  /\ order' = Spliced(i)
  /\ Used(i)
  /\ stored' = [stored EXCEPT ![i] = d]

PutNewNoErase(i, d) ==                  \* mutant: map_.erase(evict) dropped
  /\ i \notin Cached
  /\ LET full == Cardinality(Cached) >= Capacity /\ order # <<>>
     IN  order' = <<i>> \o (IF full THEN Front(order) ELSE order)
  /\ map' = [j \in Cached \cup {i} |-> IF j = i THEN d ELSE map[j]]
  /\ Used(i)
  /\ stored' = [stored EXCEPT ![i] = d]

PutNewLate(i, d) ==                     \* mutant: size > capacity
  /\ i \notin Cached
  /\ LET full == Cardinality(Cached) > Capacity /\ order # <<>>
         kept == IF full THEN Cached \ {Last(order)} ELSE Cached
     IN  /\ order' = <<i>> \o (IF full THEN Front(order) ELSE order)
         /\ map' = [j \in kept \cup {i} |-> IF j = i THEN d ELSE map[j]]
  /\ Used(i)
  /\ stored' = [stored EXCEPT ![i] = d]

PutNewEvictsFront(i, d) ==              \* mutant: the latest use goes
  /\ i \notin Cached
  /\ LET full == Cardinality(Cached) >= Capacity /\ order # <<>>
         kept == IF full THEN Cached \ {Head(order)} ELSE Cached
     IN  /\ order' = <<i>> \o (IF full THEN Tail(order) ELSE order)
         /\ map' = [j \in kept \cup {i} |-> IF j = i THEN d ELSE map[j]]
  /\ Used(i)
  /\ stored' = [stored EXCEPT ![i] = d]

(* put of an absent index: the back of the list goes when the map is full. *)
PutNew(i, d) ==
  /\ i \notin Cached
  /\ LET full == Cardinality(Cached) >= Capacity /\ order # <<>>
         kept == IF full THEN Cached \ {Last(order)} ELSE Cached
     IN  /\ order' = <<i>> \o (IF full THEN Front(order) ELSE order)
         /\ map' = [j \in kept \cup {i} |-> IF j = i THEN d ELSE map[j]]
  /\ Used(i)
  /\ stored' = [stored EXCEPT ![i] = d]

Put(i, d) == PutExisting(i, d) \/ PutNew(i, d)

LruNext == \E i \in Indices : Get(i) \/ \E d \in Digits : Put(i, d)

LruSpec == LruInit /\ [][LruNext]_lruVars

-----------------------------------------------------------------------------
(* Properties *)

Slots == IF Capacity = 0 THEN 1 ELSE Capacity

TypeOK ==
  /\ order \in Seq(Indices)
  /\ Cached \subseteq Indices
  /\ map \in [Cached -> Digits]
  /\ stored \in [Indices -> Digits \cup {None}]

(* The list and the map hold the same indices, each once: no node of the   *)
(* map points to a list node that is gone, and none is listed twice.       *)
Coherent ==
  /\ \A p, q \in 1..Len(order) : order[p] = order[q] => p = q
  /\ {order[p] : p \in 1..Len(order)} = Cached

(* No sequence of gets and puts makes the map outgrow its capacity, except *)
(* that a cache of capacity 0 holds one entry.                             *)
Bounded == Cardinality(Cached) <= Slots

(* Eviction is by recency: the list is the front of the sequence of all    *)
(* indices ever used, latest use first, as far as the capacity reaches.    *)
RecencyKept ==
  order = SubSeq(recent, 1, IF Len(recent) < Slots THEN Len(recent) ELSE Slots)

(* A cached index answers with the digit last put there.                   *)
ReadsLastPut == \A i \in Cached : map[i] = stored[i]

(* memo.hpp: "Bounded to `capacity` entries".                              *)
BoundedByCapacity == Cardinality(Cached) <= Capacity
=============================================================================
