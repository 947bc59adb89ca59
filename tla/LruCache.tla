------------------------------ MODULE LruCache ------------------------------
(***************************************************************************)
(* LruCache (src/include/lrucache.h): an unordered_map into a doubly       *)
(* linked list of heap nodes, most recently used first.  An operation runs *)
(* under its user's mutex, so it is one step; inside, the pointers are     *)
(* assigned in the order of the code, on the record list of the heap and   *)
(* its two ends.  A new node may have any address that is free.            *)
(***************************************************************************)
EXTENDS Integers, Sequences, FiniteSets

CONSTANTS
  Key, Val,
  Node,     \* heap addresses
  Null,     \* nullptr, and the nullopt of get
  Sizes     \* values of maxSize

\* Evicting from a list of one node follows its null prev: the caches of the
\* library hold 1000 elements, and one element is as small as none.
ASSUME LruAssumption == Null \notin Node \cup Val /\ Sizes \subseteq Nat \ {0, 1}

VARIABLES
  list,      \* hd, tl, and the fields of every node
  map,       \* per key its node, Null if it is not in the map
  live,      \* nodes allocated and not deleted
  maxSize,
  result     \* what the last operation returned

vars == <<list, map, live, maxSize, result>>

Size == Cardinality({k \in Key : map[k] # Null})

\* Node's members as new Node leaves them, and with key and value assigned.
Fresh(k, v) == [next |-> Null, prev |-> Null, key |-> k, val |-> v]

\* A node that is not allocated; what memory holds then is read by nobody
\* (NoBadPointer).
Blank == Fresh(Null, Null)

Delete(l, dead) ==
  [l EXCEPT !.node = [n \in Node |-> IF n \in dead THEN Blank ELSE @[n]]]

Init ==
  /\ list = [hd |-> Null, tl |-> Null, node |-> [n \in Node |-> Blank]]
  /\ map = [k \in Key |-> Null]
  /\ live = {} /\ result = Null
  /\ maxSize \in Sizes

-----------------------------------------------------------------------------
(* The private operations on the list l *)

\* Mutant: the tail moved to the front stays the tail.
MoveToHeadKeepsTail(l, p) ==
  LET before == l.node[p].prev
      after  == l.node[p].next
  IN IF p = l.hd THEN l
     ELSE IF p = l.tl
     THEN [l EXCEPT !.hd = p,
             !.node = [@ EXCEPT ![before].next = Null, ![l.hd].prev = p,
                                ![p].next = l.hd, ![p].prev = Null]]
     ELSE [l EXCEPT !.hd = p,
             !.node = [@ EXCEPT ![before].next = after, ![after].prev = before,
                                ![l.hd].prev = p, ![p].next = l.hd,
                                ![p].prev = Null]]

\* Mutant: a hit does not move.
MoveToHeadNever(l, p) == l

MoveToHead(l, p) ==
  LET before == l.node[p].prev
      after  == l.node[p].next
  IN IF p = l.hd THEN l
     ELSE IF p = l.tl
     THEN [hd |-> p, tl |-> before,
           node |-> [l.node EXCEPT ![before].next = Null, ![l.hd].prev = p,
                                   ![p].next = l.hd, ![p].prev = Null]]
     ELSE [l EXCEPT !.hd = p,
             !.node = [@ EXCEPT ![before].next = after, ![after].prev = before,
                                ![l.hd].prev = p, ![p].next = l.hd,
                                ![p].prev = Null]]

\* A node n before the head.
PushFront(l, n, k, v) ==
  [l EXCEPT !.hd = n,
     !.node = [@ EXCEPT ![l.hd].prev = n,
                        ![n] = [Fresh(k, v) EXCEPT !.next = l.hd]]]

\* The tail cut off.
CutTail(l) ==
  LET before == l.node[l.tl].prev IN
  [l EXCEPT !.tl = before, !.node = [@ EXCEPT ![before].next = Null]]

\* Erasing the head leaves tl alone, even when it was the last node.
CutHead(l) ==
  LET after == l.node[l.hd].next IN
  [l EXCEPT !.hd = after,
            !.node = IF after = Null THEN @ ELSE [@ EXCEPT ![after].prev = Null]]

\* Mutant: only the forward link goes around the node.
CutMiddleForward(l, p) ==
  LET before == l.node[p].prev
      after  == l.node[p].next
  IN [l EXCEPT !.node = [@ EXCEPT ![before].next = after]]

CutMiddle(l, p) ==
  LET before == l.node[p].prev
      after  == l.node[p].next
  IN [l EXCEPT !.node = [@ EXCEPT ![before].next = after, ![after].prev = before]]

-----------------------------------------------------------------------------
(* The public operations *)

\* The first node of an empty list.
InsertFirst(k, v) ==
  /\ list.hd = Null
  /\ \E n \in Node \ live :
       /\ list' = [hd |-> n, tl |-> n, node |-> [list.node EXCEPT ![n] = Fresh(k, v)]]
       /\ map' = [map EXCEPT ![k] = n]
       /\ live' = live \cup {n}
  /\ result' = Null /\ UNCHANGED maxSize

InsertAgain(k, v) ==
  /\ list.hd # Null /\ map[k] # Null
  /\ list' = MoveToHead([list EXCEPT !.node[map[k]].val = v], map[k])
  /\ result' = Null /\ UNCHANGED <<map, live, maxSize>>

Full == Size >= maxSize

\* A new key: the tail is evicted when the map is full.
InsertNew(k, v) ==
  /\ list.hd # Null /\ map[k] = Null
  /\ LET l == IF Full THEN CutTail(list) ELSE list
         m == IF Full THEN [map EXCEPT ![list.node[list.tl].key] = Null] ELSE map
         used == IF Full THEN live \ {list.tl} ELSE live
     IN \E n \in Node \ used :
          /\ list' = PushFront(Delete(l, live \ used), n, k, v)
          /\ map' = [m EXCEPT ![k] = n]
          /\ live' = used \cup {n}
  /\ result' = Null /\ UNCHANGED maxSize

Get(k) ==
  /\ IF map[k] = Null
     THEN result' = Null /\ UNCHANGED list
     ELSE /\ list' = MoveToHead(list, map[k])
          /\ result' = list.node[map[k]].val
  /\ UNCHANGED <<map, live, maxSize>>

\* Mutant: the node is unlinked but not deleted.
EraseLeaks(k) ==
  /\ IF map[k] = Null
     THEN UNCHANGED <<list, map, live>>
     ELSE /\ list' = IF map[k] = list.hd THEN CutHead(list)
                     ELSE IF map[k] = list.tl THEN CutTail(list)
                     ELSE CutMiddle(list, map[k])
          /\ map' = [map EXCEPT ![k] = Null]
          /\ UNCHANGED live
  /\ result' = Null /\ UNCHANGED maxSize

Erase(k) ==
  /\ IF map[k] = Null
     THEN UNCHANGED <<list, map, live>>
     ELSE /\ list' = Delete(IF map[k] = list.hd THEN CutHead(list)
                            ELSE IF map[k] = list.tl THEN CutTail(list)
                            ELSE CutMiddle(list, map[k]), {map[k]})
          /\ map' = [map EXCEPT ![k] = Null]
          /\ live' = live \ {map[k]}
  /\ result' = Null /\ UNCHANGED maxSize

Clear ==
  /\ map' = [k \in Key |-> Null] /\ live' = {}
  /\ list' = [Delete(list, live) EXCEPT !.hd = Null, !.tl = Null]
  /\ result' = Null /\ UNCHANGED maxSize

SetMaxSize(n) ==
  /\ maxSize' = n
  /\ result' = Null /\ UNCHANGED <<list, map, live>>

Next ==
  \/ \E k \in Key, v \in Val : InsertFirst(k, v) \/ InsertAgain(k, v) \/ InsertNew(k, v)
  \/ \E k \in Key : Get(k) \/ Erase(k)
  \/ Clear
  \/ \E n \in Sizes : SetMaxSize(n)

Spec == Init /\ [][Next]_vars

-----------------------------------------------------------------------------
\* Every pointer the next operation may follow leads to a node that was not
\* deleted, although tl is left behind when the last node is erased.
NoBadPointer ==
  /\ list.hd # Null => list.tl \in live
  /\ list.hd # Null /\ Full => list.node[list.tl].prev \in live
  /\ \A k \in Key : map[k] # Null =>
       LET p == map[k] IN
       /\ p \in live /\ list.hd \in live
       /\ p # list.hd => list.node[p].prev \in live
       /\ p \notin {list.hd, list.tl} => list.node[p].next \in live

\* The map holds every node allocated, under its key: nothing leaks.
NothingLeaks ==
  /\ live = {map[k] : k \in Key} \ {Null}
  /\ \A k \in Key : map[k] # Null => list.node[map[k]].key = k

\* The map grows only up to maxSize, also after maxSize was lowered: what IsLru
\* says of the size, without the pointers.
GrowsToMax ==
  [][Size' > Size => Size' <= maxSize]_vars

-----------------------------------------------------------------------------
\* The first n nodes of the list l, followed from its head.
Nodes(l, n) ==
  LET at[i \in 1..n] == IF i = 1 THEN l.hd ELSE l.node[at[i - 1]].next IN at

\* What the list holds, as long as the map says it is.
Follow ==
  LET at == Nodes(list, Size)
  IN [i \in 1..Size |-> [key |-> list.node[at[i]].key, val |-> list.node[at[i]].val]]

Promise == INSTANCE Lru WITH items <- Follow, None <- Null

\* The cache does what Lru promises: the list, from its head, holds the keys in
\* the order of their last use, and get returns the value last inserted.
IsLru == Promise!Spec
=============================================================================
