--------------------------------- MODULE Lru ---------------------------------
(***************************************************************************)
(* What LruCache (src/include/lrucache.h) promises its users: a list of    *)
(* keys with their values, the most recently used first, that loses its    *)
(* last element when a new key finds it full.                              *)
(***************************************************************************)
EXTENDS Integers, Sequences

CONSTANTS Key, Val, Sizes, None

VARIABLES
  items,    \* sequence of [key, val], most recently used first
  maxSize,
  result    \* what the last operation returned

vars == <<items, maxSize, result>>

At(k) == {i \in 1..Len(items) : items[i].key = k}
Pair(k, v) == [key |-> k, val |-> v]

\* The items before and after the one at i.
Without(i) == SubSeq(items, 1, i - 1) \o SubSeq(items, i + 1, Len(items))

Init == items = <<>> /\ maxSize \in Sizes /\ result = None

\* A key that is there is updated; a new one may push out the last.
Insert(k, v) ==
  /\ \/ At(k) = {} /\ (items = <<>> \/ Len(items) < maxSize) /\ items' = <<Pair(k, v)>> \o items
     \/ At(k) = {} /\ items # <<>> /\ Len(items) >= maxSize /\ items' = <<Pair(k, v)>> \o Without(Len(items))
     \/ \E i \in At(k) : items' = <<Pair(k, v)>> \o Without(i)
  /\ result' = None
  /\ UNCHANGED maxSize

Get(k) ==
  /\ IF At(k) = {}
     THEN result' = None /\ UNCHANGED items
     ELSE \E i \in At(k) : /\ result' = items[i].val
                           /\ items' = <<items[i]>> \o Without(i)
  /\ UNCHANGED maxSize

Erase(k) ==
  /\ IF At(k) = {} THEN UNCHANGED items ELSE \E i \in At(k) : items' = Without(i)
  /\ result' = None
  /\ UNCHANGED maxSize

Clear == items' = <<>> /\ result' = None /\ UNCHANGED maxSize

SetMaxSize(n) == maxSize' = n /\ result' = None /\ UNCHANGED items

Next ==
  \/ \E k \in Key, v \in Val : Insert(k, v)
  \/ \E k \in Key : Get(k) \/ Erase(k)
  \/ Clear
  \/ \E n \in Sizes : SetMaxSize(n)

Spec == Init /\ [][Next]_vars
=============================================================================
