--------------------------- MODULE LruCacheProofs ---------------------------
(***************************************************************************)
(* What TLAPS proves of LruCache, for every set of keys, values and        *)
(* addresses and all sizes: it follows no pointer to a deleted node, leaks *)
(* none, grows only up to maxSize, and implements Lru.                     *)
(*                                                                         *)
(* The list is a function s from 1..n to the nodes, which no variable      *)
(* holds; every operation maps it to another.                              *)
(***************************************************************************)
EXTENDS LruCache, FiniteSetTheorems, SequenceTheorems, WellFoundedInduction, TLAPS

Ends == Node \cup {Null}
Fields == [next : Ends, prev : Ends, key : Key \cup {Null}, val : Val \cup {Null}]
Lists == [hd : Ends, tl : Ends, node : [Node -> Fields]]

TypeInv ==
  /\ list \in Lists
  /\ map \in [Key -> Ends]
  /\ live \subseteq Node
  /\ maxSize \in Sizes
  /\ result \in Val \cup {Null}

\* No node is in s twice.
Distinct(n, s) == \A i, j \in 1..n : s[i] = s[j] => i = j

\* The pointers of l lead through s, to and fro.
Linked(l, n, s) ==
  /\ l.hd = IF n = 0 THEN Null ELSE s[1]
  /\ n > 0 => l.tl = s[n]
  /\ \A i \in 1..n : /\ l.node[s[i]].prev = IF i = 1 THEN Null ELSE s[i - 1]
                     /\ l.node[s[i]].next = IF i = n THEN Null ELSE s[i + 1]

\* The map m leads from each key to the node of s that has it.
Mapped(l, m, n, s) ==
  /\ \A i \in 1..n : /\ l.node[s[i]].key \in Key /\ l.node[s[i]].val \in Val
                     /\ m[l.node[s[i]].key] = s[i]
  /\ \A k \in Key : m[k] # Null => \E i \in 1..n : s[i] = m[k] /\ l.node[s[i]].key = k

\* All of it: the list l through s, the map m and the nodes allocated agree.
Held(l, m, used, n, s) ==
  /\ Distinct(n, s)
  /\ Linked(l, n, s)
  /\ Mapped(l, m, n, s)
  /\ used = {s[i] : i \in 1..n}

Chain(n, s) == Held(list, map, live, n, s)

ListInv == \E n \in Nat : \E s \in [1..n -> Node] : Chain(n, s)

\* What l holds along s.
Item == [key : Key, val : Val]
Items(l, n, s) == [i \in 1..n |-> [key |-> l.node[s[i]].key, val |-> l.node[s[i]].val]]

\* What the operations make of s, of the items along s, of the map and of the nodes.
Pushed(n, s, x) == [j \in 1..(n + 1) |-> IF j = 1 THEN x ELSE s[j - 1]]
Removed(n, s, i) == [j \in 1..(n - 1) |-> IF j < i THEN s[j] ELSE s[j + 1]]
Less(S, x) == S \ {x}
Changed(s, i, x) == [s EXCEPT ![i] = x]
Fronted(n, s, i) == [j \in 1..n |-> IF j = 1 THEN s[i] ELSE IF j <= i THEN s[j - 1] ELSE s[j]]

\* D, M and gone are the list, the map and the nodes without s[i], whose r others are left.
CutOut(l, m, used, n, s, i, D, M, gone, r) ==
  /\ l \in Lists /\ m \in [Key -> Ends] /\ n \in Nat /\ s \in [1..n -> Node]
  /\ Held(l, m, used, n, s) /\ i \in 1..n
  /\ r \in Nat /\ r = n - 1
  /\ D \in Lists /\ Linked(D, r, Removed(n, s, i))
  /\ \A y \in Node \ {s[i]} : D.node[y].key = l.node[y].key /\ D.node[y].val = l.node[y].val
  /\ M \in [Key -> Ends]
  /\ \A q \in Key : M[q] = IF q = l.node[s[i]].key THEN Null ELSE m[q]
  /\ \A y : y \in gone <=> y \in used /\ y # s[i]

-----------------------------------------------------------------------------
(* The list *)

\* Assigning one pointer of a node leaves the rest of the heap alone.
LEMMA SetPrev ==
  ASSUME NEW N \in [Node -> Fields], NEW x \in Node, NEW y \in Ends
  PROVE  /\ [N EXCEPT ![x].prev = y] \in [Node -> Fields]
         /\ \A z \in Node : /\ [N EXCEPT ![x].prev = y][z].prev = IF z = x THEN y ELSE N[z].prev
                            /\ [N EXCEPT ![x].prev = y][z].next = N[z].next
                            /\ [N EXCEPT ![x].prev = y][z].key = N[z].key
                            /\ [N EXCEPT ![x].prev = y][z].val = N[z].val
<1>1. \A z \in Node : N[z] \in Fields
  OBVIOUS
<1>2. \A z \in Node : [N EXCEPT ![x].prev = y][z] = IF z = x THEN [N[x] EXCEPT !.prev = y] ELSE N[z]
  OBVIOUS
<1>3. [N[x] EXCEPT !.prev = y] \in Fields
  BY <1>1 DEF Fields
<1> QED BY <1>1, <1>2, <1>3 DEF Fields

\* The same of the other pointer.
LEMMA SetNext ==
  ASSUME NEW N \in [Node -> Fields], NEW x \in Node, NEW y \in Ends
  PROVE  /\ [N EXCEPT ![x].next = y] \in [Node -> Fields]
         /\ \A z \in Node : /\ [N EXCEPT ![x].next = y][z].next = IF z = x THEN y ELSE N[z].next
                            /\ [N EXCEPT ![x].next = y][z].prev = N[z].prev
                            /\ [N EXCEPT ![x].next = y][z].key = N[z].key
                            /\ [N EXCEPT ![x].next = y][z].val = N[z].val
<1>1. \A z \in Node : N[z] \in Fields
  OBVIOUS
<1>2. \A z \in Node : [N EXCEPT ![x].next = y][z] = IF z = x THEN [N[x] EXCEPT !.next = y] ELSE N[z]
  OBVIOUS
<1>3. [N[x] EXCEPT !.next = y] \in Fields
  BY <1>1 DEF Fields
<1> QED BY <1>1, <1>2, <1>3 DEF Fields

\* Assigning a value.
LEMMA SetVal ==
  ASSUME NEW l \in Lists, NEW x \in Node, NEW v \in Val
  PROVE  LET L == [l EXCEPT !.node[x].val = v] IN
         /\ L \in Lists /\ L.hd = l.hd /\ L.tl = l.tl
         /\ \A y \in Node : /\ L.node[y].next = l.node[y].next /\ L.node[y].prev = l.node[y].prev
                            /\ L.node[y].key = l.node[y].key
                            /\ L.node[y].val = IF y = x THEN v ELSE l.node[y].val
<1> DEFINE L == [l EXCEPT !.node[x].val = v]
           N == [l.node EXCEPT ![x].val = v]
<1>1. L = [l EXCEPT !.node = N] /\ l.node \in [Node -> Fields]
  BY DEF Lists
<1>2. N \in [Node -> Fields] /\ \A y \in Node :
        /\ N[y].next = l.node[y].next /\ N[y].prev = l.node[y].prev /\ N[y].key = l.node[y].key
        /\ N[y].val = IF y = x THEN v ELSE l.node[y].val
  <2>1. \A y \in Node : N[y] = IF y = x THEN [l.node[y] EXCEPT !.val = v] ELSE l.node[y]
    BY <1>1
  <2>2. \A y \in Node : l.node[y] \in Fields /\ [l.node[y] EXCEPT !.val = v] \in Fields
    BY <1>1 DEF Fields
  <2> QED BY <1>1, <2>1, <2>2 DEF Fields
<1> HIDE DEF N
<1>3. L \in Lists /\ L.hd = l.hd /\ L.tl = l.tl /\ L.node = N
  BY <1>1, <1>2 DEF Lists
<1> QED BY <1>2, <1>3

\* Moving a node to the head changes its place and no key or value.
LEMMA MoveLinked ==
  ASSUME NEW l \in Lists, NEW n \in Nat, NEW s \in [1..n -> Node],
         Distinct(n, s), Linked(l, n, s), NEW i \in 1..n
  PROVE  /\ MoveToHead(l, s[i]) \in Lists
         /\ Fronted(n, s, i) \in [1..n -> Node] /\ Distinct(n, Fronted(n, s, i))
         /\ Linked(MoveToHead(l, s[i]), n, Fronted(n, s, i))
         /\ \A x \in Node : /\ MoveToHead(l, s[i]).node[x].key = l.node[x].key
                            /\ MoveToHead(l, s[i]).node[x].val = l.node[x].val
<1> DEFINE t == Fronted(n, s, i)
           p == s[i]
           L == MoveToHead(l, p)
           before == l.node[p].prev
           after == l.node[p].next
<1>1. /\ n >= 1 /\ l.hd = s[1] /\ l.tl = s[n] /\ p \in Node /\ s[1] \in Node /\ s[n] \in Node
      /\ 1 \in 1..n /\ n \in 1..n
  BY DEF Linked
<1>2. t \in [1..n -> Node] /\ Distinct(n, t)
  BY DEF Distinct, Fronted
<1>3. CASE i = 1
  <2>1. L = l
    BY <1>1, <1>3 DEF MoveToHead
  <2>2. t = s
    BY <1>3 DEF Fronted
  <2> QED BY <1>2, <2>1, <2>2
<1>4. CASE i # 1
  <2>1. p # l.hd /\ before = s[i - 1] /\ i - 1 \in 1..n /\ before \in Node
    BY <1>1, <1>4 DEF Linked, Distinct
  <2>2. CASE i = n
    <3> DEFINE N == [l.node EXCEPT ![before].next = Null, ![l.hd].prev = p,
                                   ![p].next = l.hd, ![p].prev = Null]
    <3>1. L = [hd |-> p, tl |-> before, node |-> N]
      BY <1>1, <2>1, <2>2 DEF MoveToHead
    <3>2. /\ N \in [Node -> Fields]
          /\ \A x \in Node : /\ N[x].key = l.node[x].key /\ N[x].val = l.node[x].val
                             /\ N[x].prev = IF x = p THEN Null ELSE IF x = l.hd THEN p ELSE l.node[x].prev
                             /\ N[x].next = IF x = p THEN l.hd ELSE IF x = before THEN Null ELSE l.node[x].next
      <4> DEFINE N1 == [l.node EXCEPT ![before].next = Null]
                 N2 == [N1 EXCEPT ![l.hd].prev = p]
                 N3 == [N2 EXCEPT ![p].next = l.hd]
                 N4 == [N3 EXCEPT ![p].prev = Null]
      <4>1. l.node \in [Node -> Fields] /\ Null \in Ends /\ p \in Ends /\ l.hd \in Ends /\ l.hd \in Node
        BY <1>1 DEF Lists, Ends
      <4>2. N = N4
        OBVIOUS
      <4> HIDE DEF N, N4
      <4>3. N1 \in [Node -> Fields] /\ \A x \in Node :
              /\ N1[x].key = l.node[x].key /\ N1[x].val = l.node[x].val /\ N1[x].prev = l.node[x].prev
              /\ N1[x].next = IF x = before THEN Null ELSE l.node[x].next
        BY <2>1, <4>1, SetNext
      <4> HIDE DEF N1
      <4>4. N2 \in [Node -> Fields] /\ \A x \in Node :
              /\ N2[x].key = N1[x].key /\ N2[x].val = N1[x].val /\ N2[x].next = N1[x].next
              /\ N2[x].prev = IF x = l.hd THEN p ELSE N1[x].prev
        BY <4>1, <4>3, SetPrev
      <4> HIDE DEF N2
      <4>5. N3 \in [Node -> Fields] /\ \A x \in Node :
              /\ N3[x].key = N2[x].key /\ N3[x].val = N2[x].val /\ N3[x].prev = N2[x].prev
              /\ N3[x].next = IF x = p THEN l.hd ELSE N2[x].next
        BY <1>1, <4>1, <4>4, SetNext
      <4> HIDE DEF N3
      <4>6. N4 \in [Node -> Fields] /\ \A x \in Node :
              /\ N4[x].key = N3[x].key /\ N4[x].val = N3[x].val /\ N4[x].next = N3[x].next
              /\ N4[x].prev = IF x = p THEN Null ELSE N3[x].prev
        BY <1>1, <4>1, <4>5, SetPrev DEF N4
      <4> QED BY <2>1, <4>2, <4>3, <4>4, <4>5, <4>6
    <3> HIDE DEF N
    <3>3. L \in Lists /\ L.hd = p /\ L.tl = before /\ L.node = N
      BY <1>1, <2>1, <3>1, <3>2 DEF Lists, Ends
    <3>4. Linked(L, n, t)
      <4>1. L.hd = t[1] /\ L.tl = t[n]
        BY <1>1, <1>4, <2>1, <2>2, <3>1 DEF Fronted
      <4>2. ASSUME NEW j \in 1..n
            PROVE  /\ N[t[j]].prev = IF j = 1 THEN Null ELSE t[j - 1]
                   /\ N[t[j]].next = IF j = n THEN Null ELSE t[j + 1]
        <5>1. CASE j = 1
          BY <1>1, <1>4, <2>1, <2>2, <3>2, <5>1 DEF Fronted
        <5>2. CASE j # 1
          <6>1. t[j] = s[j - 1] /\ j - 1 \in 1..n /\ t[j - 1] = IF j = 2 THEN p ELSE s[j - 2]
            BY <1>2, <2>2, <5>2 DEF Fronted
          <6>2. s[j - 1] # p
            BY <2>2, <5>2, <6>1 DEF Distinct
          <6>3. s[j - 1] = l.hd <=> j = 2
            BY <1>1, <5>2, <6>1 DEF Distinct
          <6>4. s[j - 1] = before <=> j = n
            BY <1>1, <2>1, <2>2, <5>2, <6>1 DEF Distinct
          <6>5. l.node[s[j - 1]].prev = (IF j = 2 THEN Null ELSE s[j - 2]) /\ l.node[s[j - 1]].next = s[j]
            BY <5>2, <6>1 DEF Linked
          <6>6. j # n => t[j + 1] = s[j]
            BY <2>2, <5>2 DEF Fronted
          <6> QED BY <3>2, <5>2, <6>1, <6>2, <6>3, <6>4, <6>5, <6>6
        <5> QED BY <5>1, <5>2
      <4> QED BY <1>1, <3>3, <4>1, <4>2 DEF Linked
    <3> QED BY <1>2, <3>2, <3>3, <3>4
  <2>3. CASE i # n
    <3> DEFINE N == [l.node EXCEPT ![before].next = after, ![after].prev = before,
                                   ![l.hd].prev = p, ![p].next = l.hd, ![p].prev = Null]
    <3>0. after = s[i + 1] /\ i + 1 \in 1..n /\ after \in Node /\ p # l.tl
      BY <1>1, <2>3 DEF Linked, Distinct
    <3>1. L = [l EXCEPT !.hd = p, !.node = N]
      BY <1>1, <2>1, <2>3, <3>0 DEF MoveToHead
    <3>2. /\ N \in [Node -> Fields]
          /\ \A x \in Node : /\ N[x].key = l.node[x].key /\ N[x].val = l.node[x].val
                             /\ N[x].prev = IF x = p THEN Null ELSE IF x = l.hd THEN p
                                            ELSE IF x = after THEN before ELSE l.node[x].prev
                             /\ N[x].next = IF x = p THEN l.hd ELSE IF x = before THEN after ELSE l.node[x].next
      <4> DEFINE N1 == [l.node EXCEPT ![before].next = after]
                 N2 == [N1 EXCEPT ![after].prev = before]
                 N3 == [N2 EXCEPT ![l.hd].prev = p]
                 N4 == [N3 EXCEPT ![p].next = l.hd]
                 N5 == [N4 EXCEPT ![p].prev = Null]
      <4>1. l.node \in [Node -> Fields] /\ {Null, p, before, after, l.hd} \subseteq Ends /\ l.hd \in Node
        BY <1>1, <2>1, <3>0 DEF Lists, Ends
      <4>2. N = N5
        OBVIOUS
      <4> HIDE DEF N, N5
      <4>3. N1 \in [Node -> Fields] /\ \A x \in Node :
              /\ N1[x].key = l.node[x].key /\ N1[x].val = l.node[x].val /\ N1[x].prev = l.node[x].prev
              /\ N1[x].next = IF x = before THEN after ELSE l.node[x].next
        BY <2>1, <4>1, SetNext
      <4> HIDE DEF N1
      <4>4. N2 \in [Node -> Fields] /\ \A x \in Node :
              /\ N2[x].key = N1[x].key /\ N2[x].val = N1[x].val /\ N2[x].next = N1[x].next
              /\ N2[x].prev = IF x = after THEN before ELSE N1[x].prev
        BY <3>0, <4>1, <4>3, SetPrev
      <4> HIDE DEF N2
      <4>5. N3 \in [Node -> Fields] /\ \A x \in Node :
              /\ N3[x].key = N2[x].key /\ N3[x].val = N2[x].val /\ N3[x].next = N2[x].next
              /\ N3[x].prev = IF x = l.hd THEN p ELSE N2[x].prev
        BY <4>1, <4>4, SetPrev
      <4> HIDE DEF N3
      <4>6. N4 \in [Node -> Fields] /\ \A x \in Node :
              /\ N4[x].key = N3[x].key /\ N4[x].val = N3[x].val /\ N4[x].prev = N3[x].prev
              /\ N4[x].next = IF x = p THEN l.hd ELSE N3[x].next
        BY <1>1, <4>1, <4>5, SetNext
      <4> HIDE DEF N4
      <4>7. N5 \in [Node -> Fields] /\ \A x \in Node :
              /\ N5[x].key = N4[x].key /\ N5[x].val = N4[x].val /\ N5[x].next = N4[x].next
              /\ N5[x].prev = IF x = p THEN Null ELSE N4[x].prev
        BY <1>1, <4>1, <4>6, SetPrev DEF N5
      <4> QED BY <2>1, <3>0, <4>2, <4>3, <4>4, <4>5, <4>6, <4>7
    <3> HIDE DEF N
    <3>3. L \in Lists /\ L.hd = p /\ L.tl = l.tl /\ L.node = N
      BY <1>1, <2>1, <3>1, <3>2 DEF Lists, Ends
    <3>4. Linked(L, n, t)
      <4>1. L.hd = t[1] /\ L.tl = t[n]
        BY <1>1, <1>4, <2>1, <2>3, <3>3 DEF Fronted
      <4>2. ASSUME NEW j \in 1..n
            PROVE  /\ N[t[j]].prev = IF j = 1 THEN Null ELSE t[j - 1]
                   /\ N[t[j]].next = IF j = n THEN Null ELSE t[j + 1]
        <5>1. CASE j = 1
          BY <1>1, <1>4, <2>1, <2>3, <3>2, <5>1 DEF Fronted
        <5>2. CASE j # 1 /\ j <= i
          <6>1. t[j] = s[j - 1] /\ j - 1 \in 1..n /\ t[j - 1] = IF j = 2 THEN p ELSE s[j - 2]
            BY <1>2, <5>2 DEF Fronted
          <6>2. s[j - 1] # p /\ s[j - 1] # after
            BY <3>0, <5>2, <6>1 DEF Distinct
          <6>3. s[j - 1] = l.hd <=> j = 2
            BY <1>1, <5>2, <6>1 DEF Distinct
          <6>4. s[j - 1] = before <=> j = i
            BY <1>1, <2>1, <5>2, <6>1 DEF Distinct
          <6>5. l.node[s[j - 1]].prev = (IF j = 2 THEN Null ELSE s[j - 2]) /\ l.node[s[j - 1]].next = s[j]
            BY <5>2, <6>1 DEF Linked
          <6>6. j # n /\ t[j + 1] = IF j = i THEN s[j + 1] ELSE s[j]
            BY <2>3, <5>2 DEF Fronted
          <6> QED BY <3>0, <3>2, <5>2, <6>1, <6>2, <6>3, <6>4, <6>5, <6>6
        <5>3. CASE j > i
          <6>1. t[j] = s[j] /\ j # 1 /\ (j # n => t[j + 1] = s[j + 1]) /\ (j > i + 1 => t[j - 1] = s[j - 1])
                /\ (j = i + 1 => t[j - 1] = before)
            BY <1>2, <1>4, <2>1, <5>3 DEF Fronted
          <6>2. s[j] # p /\ s[j] # before /\ s[j] # l.hd /\ (s[j] = after <=> j = i + 1)
            BY <1>1, <2>1, <3>0, <5>3 DEF Distinct
          <6>3. l.node[s[j]].prev = s[j - 1] /\ l.node[s[j]].next = IF j = n THEN Null ELSE s[j + 1]
            BY <5>3, <6>1 DEF Linked
          <6> QED BY <3>2, <5>3, <6>1, <6>2, <6>3
        <5> QED BY <5>1, <5>2, <5>3
      <4> QED BY <1>1, <3>3, <4>1, <4>2 DEF Linked
    <3> QED BY <1>2, <3>2, <3>3, <3>4
  <2> QED BY <2>2, <2>3
<1> QED BY <1>3, <1>4

\* A node in front of a list that is not empty.
LEMMA PushLinked ==
  ASSUME NEW l \in Lists, NEW n \in Nat, n > 0, NEW s \in [1..n -> Node],
         Distinct(n, s), Linked(l, n, s),
         NEW x \in Node, \A i \in 1..n : s[i] # x, NEW k \in Key, NEW v \in Val
  PROVE  /\ PushFront(l, x, k, v) \in Lists
         /\ Pushed(n, s, x) \in [1..(n + 1) -> Node] /\ Distinct(n + 1, Pushed(n, s, x))
         /\ Linked(PushFront(l, x, k, v), n + 1, Pushed(n, s, x))
         /\ PushFront(l, x, k, v).node[x].key = k /\ PushFront(l, x, k, v).node[x].val = v
         /\ \A y \in Node \ {x} : /\ PushFront(l, x, k, v).node[y].key = l.node[y].key
                                  /\ PushFront(l, x, k, v).node[y].val = l.node[y].val
<1> DEFINE t == Pushed(n, s, x)
           L == PushFront(l, x, k, v)
           N1 == [l.node EXCEPT ![l.hd].prev = x]
           new == [Fresh(k, v) EXCEPT !.next = l.hd]
           N == [N1 EXCEPT ![x] = new]
<1>1. l.hd = s[1] /\ l.tl = s[n] /\ l.hd \in Node /\ l.tl \in Node /\ x \in Ends
  BY DEF Linked, Ends
<1>2. new = [next |-> l.hd, prev |-> Null, key |-> k, val |-> v] /\ new \in Fields
  BY <1>1 DEF Fresh, Fields, Ends
<1>3. N1 \in [Node -> Fields] /\ \A y \in Node :
        /\ N1[y].key = l.node[y].key /\ N1[y].val = l.node[y].val /\ N1[y].next = l.node[y].next
        /\ N1[y].prev = IF y = l.hd THEN x ELSE l.node[y].prev
  <2>1. l.node \in [Node -> Fields]
    BY DEF Lists
  <2> QED BY <1>1, <2>1, SetPrev
<1>4. L = [l EXCEPT !.hd = x, !.node = N]
  BY DEF PushFront
<1> HIDE DEF N1, new
<1>5. N \in [Node -> Fields] /\ \A y \in Node : N[y] = IF y = x THEN new ELSE N1[y]
  BY <1>2, <1>3
<1> HIDE DEF N, L
<1>6. L \in Lists /\ L.hd = x /\ L.tl = l.tl /\ L.node = N
  BY <1>1, <1>4, <1>5 DEF Lists
<1>7. t \in [1..(n + 1) -> Node] /\ t[1] = x /\ \A j \in 2..(n + 1) : t[j] = s[j - 1] /\ j - 1 \in 1..n
  BY DEF Pushed
<1> HIDE DEF t
<1>8. Distinct(n + 1, t)
  BY <1>7 DEF Distinct
<1>9. ASSUME NEW j \in 1..(n + 1)
      PROVE  /\ N[t[j]].prev = IF j = 1 THEN Null ELSE t[j - 1]
             /\ N[t[j]].next = IF j = n + 1 THEN Null ELSE t[j + 1]
  <2>1. CASE j = 1
    BY <1>1, <1>2, <1>5, <1>7, <2>1
  <2>2. CASE j # 1
    <3>1. t[j] = s[j - 1] /\ j - 1 \in 1..n /\ t[j - 1] = (IF j = 2 THEN x ELSE s[j - 2]) /\ (j # n + 1 => t[j + 1] = s[j])
      BY <1>7, <2>2
    <3>2. s[j - 1] # x /\ (s[j - 1] = l.hd <=> j = 2)
      BY <1>1, <2>2, <3>1 DEF Distinct
    <3>3. l.node[s[j - 1]].prev = (IF j = 2 THEN Null ELSE s[j - 2]) /\ l.node[s[j - 1]].next = IF j = n + 1 THEN Null ELSE s[j]
      BY <2>2, <3>1 DEF Linked
    <3>4. N[s[j - 1]] = N1[s[j - 1]]
      BY <1>5, <3>1, <3>2
    <3> QED BY <1>3, <2>2, <3>1, <3>2, <3>3, <3>4
  <2> QED BY <2>1, <2>2
<1>10. t[n + 1] = s[n] /\ n + 1 # 0
  BY <1>7
<1>11. Linked(L, n + 1, t)
  BY <1>1, <1>6, <1>7, <1>9, <1>10 DEF Linked
<1>12. /\ N[x].key = k /\ N[x].val = v
       /\ \A y \in Node \ {x} : N[y].key = l.node[y].key /\ N[y].val = l.node[y].val
  BY <1>2, <1>3, <1>5
<1> QED BY <1>6, <1>7, <1>8, <1>11, <1>12 DEF t, L

\* Every node but one: what is left is in the same order.
LEMMA RemovedIs ==
  ASSUME NEW n \in Nat, NEW s \in [1..n -> Node], Distinct(n, s), NEW i \in 1..n
  PROVE  /\ Removed(n, s, i) \in [1..(n - 1) -> Node] /\ n - 1 \in Nat
         /\ Distinct(n - 1, Removed(n, s, i))
<1>1. \A j \in 1..(n - 1) : Removed(n, s, i)[j] = IF j < i THEN s[j] ELSE s[j + 1]
  BY DEF Removed
<1>2. Removed(n, s, i) \in [1..(n - 1) -> Node] /\ n - 1 \in Nat
  BY DEF Removed
<1>3. Distinct(n - 1, Removed(n, s, i))
  <2> SUFFICES ASSUME NEW a \in 1..(n - 1), NEW b \in 1..(n - 1), Removed(n, s, i)[a] = Removed(n, s, i)[b]
               PROVE  a = b
    BY DEF Distinct
  <2>1. CASE a < i /\ b < i
    BY <1>1, <2>1 DEF Distinct
  <2>2. CASE a < i /\ ~(b < i)
    BY <1>1, <2>2 DEF Distinct
  <2>3. CASE ~(a < i) /\ b < i
    BY <1>1, <2>3 DEF Distinct
  <2>4. CASE ~(a < i) /\ ~(b < i)
    <3>1. s[a + 1] = s[b + 1] /\ a + 1 \in 1..n /\ b + 1 \in 1..n
      BY <1>1, <2>4
    <3>2. a + 1 = b + 1
      BY <3>1 DEF Distinct
    <3> QED BY <3>2
  <2> QED BY <2>1, <2>2, <2>3, <2>4
<1> QED BY <1>1, <1>2, <1>3

\* The head cut off, the only node too.
LEMMA HeadCut ==
  ASSUME NEW l \in Lists, NEW n \in Nat, n > 0, NEW s \in [1..n -> Node],
         Distinct(n, s), Linked(l, n, s)
  PROVE  /\ CutHead(l) \in Lists /\ Linked(CutHead(l), n - 1, Removed(n, s, 1))
         /\ \A y \in Node : /\ CutHead(l).node[y].key = l.node[y].key
                            /\ CutHead(l).node[y].val = l.node[y].val
<1> DEFINE t == Removed(n, s, 1)
           after == l.node[l.hd].next
           L == CutHead(l)
<1>1. l.hd = s[1] /\ l.tl = s[n] /\ 1 \in 1..n /\ after = IF n = 1 THEN Null ELSE s[2]
  BY DEF Linked
<1>2. \A j \in 1..(n - 1) : t[j] = s[j + 1] /\ j + 1 \in 1..n /\ t[j] \in Node
  <2>1. /\ t \in [1..(n - 1) -> Node]
        /\ \A j \in 1..(n - 1) : t[j] = IF j < 1 THEN s[j] ELSE s[j + 1]
    BY <1>1 DEF Removed
  <2> HIDE DEF t
  <2> QED BY <2>1
<1> HIDE DEF t
<1>3. {Null, after} \subseteq Ends /\ (n # 1 => after \in Node /\ after # Null) /\ l.node \in [Node -> Fields]
  BY <1>1, LruAssumption DEF Lists, Ends
<1>4. CASE n = 1
  <2>1. L = [l EXCEPT !.hd = Null, !.node = l.node]
    BY <1>1, <1>4 DEF CutHead
  <2>2. L.hd = Null /\ L.node = l.node /\ L \in Lists
    BY <2>1 DEF Lists, Ends
  <2>3. Linked(L, 0, t)
    BY <2>2 DEF Linked
  <2> QED BY <1>4, <2>2, <2>3 DEF t
<1>5. CASE n # 1
  <2> DEFINE N == [l.node EXCEPT ![after].prev = Null]
  <2>1. L = [l EXCEPT !.hd = after, !.node = N]
    BY <1>3, <1>5 DEF CutHead
  <2>2. N \in [Node -> Fields] /\ \A y \in Node :
          /\ N[y].key = l.node[y].key /\ N[y].val = l.node[y].val /\ N[y].next = l.node[y].next
          /\ N[y].prev = IF y = after THEN Null ELSE l.node[y].prev
    <3> HIDE DEF after
    <3>1. after \in Node /\ Null \in Ends
      BY <1>3, <1>5
    <3> QED BY ONLY <1>3, <3>1, SetPrev
  <2> HIDE DEF N
  <2>3. L \in Lists /\ L.hd = after /\ L.tl = l.tl /\ L.node = N
    BY <1>3, <2>1, <2>2 DEF Lists
  <2>4. ASSUME NEW j \in 1..(n - 1)
        PROVE  /\ N[t[j]].prev = IF j = 1 THEN Null ELSE t[j - 1]
               /\ N[t[j]].next = IF j = n - 1 THEN Null ELSE t[j + 1]
    <3>1. t[j] = after <=> j = 1
      BY <1>1, <1>2, <1>5 DEF Distinct
    <3>2. j # 1 => t[j - 1] = s[j]
      BY <1>2
    <3>3. j # n - 1 => t[j + 1] = s[j + 2]
      BY <1>2
    <3>4. l.node[t[j]].prev = s[j] /\ l.node[t[j]].next = IF j = n - 1 THEN Null ELSE s[j + 2]
      BY <1>2 DEF Linked
    <3> QED BY <1>2, <2>2, <3>1, <3>2, <3>3, <3>4
  <2>5. n - 1 # 0 /\ t[1] = s[2] /\ t[n - 1] = s[n]
    BY <1>2, <1>5
  <2>6. Linked(L, n - 1, t)
    BY <1>1, <1>5, <2>3, <2>4, <2>5 DEF Linked
  <2> QED BY <2>2, <2>3, <2>6 DEF t
<1> QED BY <1>4, <1>5

\* The tail cut off, which is not the head.
LEMMA TailCut ==
  ASSUME NEW l \in Lists, NEW n \in Nat, n > 1, NEW s \in [1..n -> Node],
         Distinct(n, s), Linked(l, n, s)
  PROVE  /\ CutTail(l) \in Lists /\ Linked(CutTail(l), n - 1, Removed(n, s, n))
         /\ \A y \in Node : /\ CutTail(l).node[y].key = l.node[y].key
                            /\ CutTail(l).node[y].val = l.node[y].val
<1> DEFINE t == Removed(n, s, n)
           before == l.node[l.tl].prev
           L == CutTail(l)
           N == [l.node EXCEPT ![before].next = Null]
<1>1. l.hd = s[1] /\ l.tl = s[n] /\ n \in 1..n /\ before = s[n - 1] /\ n - 1 \in 1..n
  BY DEF Linked
<1>2. \A j \in 1..(n - 1) : t[j] = s[j] /\ j \in 1..n /\ t[j] \in Node
  <2>1. /\ t \in [1..(n - 1) -> Node]
        /\ \A j \in 1..(n - 1) : t[j] = IF j < n THEN s[j] ELSE s[j + 1]
    BY <1>1 DEF Removed
  <2> HIDE DEF t
  <2> QED BY <2>1
<1> HIDE DEF t
<1>3. before \in Node /\ {Null, before} \subseteq Ends /\ l.node \in [Node -> Fields]
  BY <1>1 DEF Lists, Ends
<1>4. L = [l EXCEPT !.tl = before, !.node = N]
  BY DEF CutTail
<1>5. N \in [Node -> Fields] /\ \A y \in Node :
        /\ N[y].key = l.node[y].key /\ N[y].val = l.node[y].val /\ N[y].prev = l.node[y].prev
        /\ N[y].next = IF y = before THEN Null ELSE l.node[y].next
  BY SMTT(30), <1>3, SetNext
<1> HIDE DEF N
<1>6. L \in Lists /\ L.hd = l.hd /\ L.tl = before /\ L.node = N
  BY <1>3, <1>4, <1>5 DEF Lists
<1>7. ASSUME NEW j \in 1..(n - 1)
      PROVE  /\ N[t[j]].prev = IF j = 1 THEN Null ELSE t[j - 1]
             /\ N[t[j]].next = IF j = n - 1 THEN Null ELSE t[j + 1]
  <2>1. t[j] = before <=> j = n - 1
    BY <1>1, <1>2 DEF Distinct
  <2>2. (j # 1 => t[j - 1] = s[j - 1]) /\ (j # n - 1 => t[j + 1] = s[j + 1])
    BY <1>2
  <2>3. l.node[t[j]].prev = (IF j = 1 THEN Null ELSE s[j - 1]) /\ l.node[t[j]].next = s[j + 1]
    BY <1>2 DEF Linked
  <2> QED BY <1>2, <1>5, <2>1, <2>2, <2>3
<1>8. n - 1 # 0 /\ t[1] = s[1] /\ t[n - 1] = s[n - 1]
  BY <1>2
<1>9. Linked(L, n - 1, t)
  BY <1>1, <1>6, <1>7, <1>8 DEF Linked
<1> QED BY <1>5, <1>6, <1>9 DEF t

\* A node cut out between the ends.
LEMMA MiddleCut ==
  ASSUME NEW l \in Lists, NEW n \in Nat, NEW s \in [1..n -> Node],
         Distinct(n, s), Linked(l, n, s), NEW i \in 2..(n - 1)
  PROVE  /\ CutMiddle(l, s[i]) \in Lists /\ Linked(CutMiddle(l, s[i]), n - 1, Removed(n, s, i))
         /\ \A y \in Node : /\ CutMiddle(l, s[i]).node[y].key = l.node[y].key
                            /\ CutMiddle(l, s[i]).node[y].val = l.node[y].val
<1> DEFINE t == Removed(n, s, i)
           before == l.node[s[i]].prev
           after == l.node[s[i]].next
           L == CutMiddle(l, s[i])
           N1 == [l.node EXCEPT ![before].next = after]
           N == [N1 EXCEPT ![after].prev = before]
<1>1. /\ l.hd = s[1] /\ l.tl = s[n] /\ i \in 1..n /\ i - 1 \in 1..n /\ i + 1 \in 1..n
      /\ before = s[i - 1] /\ after = s[i + 1]
  BY DEF Linked
<1>2. \A j \in 1..(n - 1) : t[j] = (IF j < i THEN s[j] ELSE s[j + 1]) /\ t[j] \in Node
  <2>1. /\ t \in [1..(n - 1) -> Node]
        /\ \A j \in 1..(n - 1) : t[j] = IF j < i THEN s[j] ELSE s[j + 1]
    BY <1>1 DEF Removed
  <2> HIDE DEF t
  <2> QED BY <2>1
<1> HIDE DEF t
<1>3. {before, after} \subseteq Node \cap Ends /\ l.node \in [Node -> Fields]
  BY <1>1 DEF Lists, Ends
<1>4. L = [l EXCEPT !.node = N]
  BY DEF CutMiddle
<1>5. N1 \in [Node -> Fields] /\ \A y \in Node :
        /\ N1[y].key = l.node[y].key /\ N1[y].val = l.node[y].val /\ N1[y].prev = l.node[y].prev
        /\ N1[y].next = IF y = before THEN after ELSE l.node[y].next
  <2> HIDE DEF after, before
  <2>1. before \in Node /\ after \in Ends
    BY <1>3
  <2> QED BY ONLY <1>3, <2>1, SetNext
<1> HIDE DEF N1
<1>6. N \in [Node -> Fields] /\ \A y \in Node :
        /\ N[y].key = N1[y].key /\ N[y].val = N1[y].val /\ N[y].next = N1[y].next
        /\ N[y].prev = IF y = after THEN before ELSE N1[y].prev
  <2> HIDE DEF after, before
  <2>1. after \in Node /\ before \in Ends
    BY <1>3
  <2> QED BY ONLY <1>5, <2>1, SetPrev
<1> HIDE DEF N
<1>7. L \in Lists /\ L.hd = l.hd /\ L.tl = l.tl /\ L.node = N
  BY <1>4, <1>6 DEF Lists
<1>8. ASSUME NEW j \in 1..(n - 1)
      PROVE  /\ N[t[j]].prev = IF j = 1 THEN Null ELSE t[j - 1]
             /\ N[t[j]].next = IF j = n - 1 THEN Null ELSE t[j + 1]
  <2>1. CASE j < i
    <3>1. t[j] = s[j] /\ (t[j] = before <=> j = i - 1) /\ t[j] # after
      BY <1>1, <1>2, <2>1 DEF Distinct
    <3>2. (j # 1 => t[j - 1] = s[j - 1]) /\ (t[j + 1] = IF j = i - 1 THEN s[j + 2] ELSE s[j + 1]) /\ j # n - 1
      BY <1>2, <2>1
    <3>3. l.node[s[j]].prev = (IF j = 1 THEN Null ELSE s[j - 1]) /\ l.node[s[j]].next = s[j + 1]
      BY <2>1 DEF Linked
    <3>4. j = i - 1 => s[j + 2] = after
      BY <1>1
    <3> QED BY <1>2, <1>5, <1>6, <3>1, <3>2, <3>3, <3>4
  <2>2. CASE ~(j < i)
    <3>1. t[j] = s[j + 1] /\ j + 1 \in 1..n /\ (t[j] = after <=> j = i) /\ t[j] # before
      BY <1>1, <1>2, <2>2 DEF Distinct
    <3>2. (t[j - 1] = IF j = i THEN s[j - 1] ELSE s[j]) /\ j # 1 /\ (j # n - 1 => t[j + 1] = s[j + 2])
      BY <1>2, <2>2
    <3>3. l.node[s[j + 1]].prev = s[j] /\ l.node[s[j + 1]].next = IF j = n - 1 THEN Null ELSE s[j + 2]
      BY <3>1 DEF Linked
    <3>4. j = i => s[j - 1] = before
      BY <1>1
    <3> QED BY <1>2, <1>5, <1>6, <3>1, <3>2, <3>3, <3>4
  <2> QED BY <2>1, <2>2
<1>9. n - 1 # 0 /\ n > 0 /\ t[1] = s[1] /\ t[n - 1] = s[n]
  BY <1>2
<1>10. Linked(L, n - 1, t)
  BY <1>1, <1>7, <1>8, <1>9 DEF Linked
<1> QED BY <1>5, <1>6, <1>7, <1>10 DEF t

\* Deleting nodes that are not in the list.
LEMMA DeleteLinked ==
  ASSUME NEW l \in Lists, NEW n \in Nat, NEW s \in [1..n -> Node], Linked(l, n, s),
         NEW dead, \A i \in 1..n : s[i] \notin dead
  PROVE  /\ Delete(l, dead) \in Lists /\ Linked(Delete(l, dead), n, s)
         /\ \A y \in Node \ dead : Delete(l, dead).node[y] = l.node[y]
<1> DEFINE N == [y \in Node |-> IF y \in dead THEN Blank ELSE l.node[y]]
<1>1. Delete(l, dead) = [l EXCEPT !.node = N]
  BY DEF Delete
<1>2. N \in [Node -> Fields] /\ \A y \in Node \ dead : N[y] = l.node[y]
  BY DEF Lists, Fields, Ends, Blank, Fresh
<1> HIDE DEF N
<1>3. Delete(l, dead) \in Lists /\ Delete(l, dead).hd = l.hd /\ Delete(l, dead).tl = l.tl /\ Delete(l, dead).node = N
  BY <1>1, <1>2 DEF Lists
<1>4. \A i \in 1..n : s[i] \in Node \ dead
  OBVIOUS
<1> QED BY <1>2, <1>3, <1>4 DEF Linked

-----------------------------------------------------------------------------
(* Counting and following the list *)

\* The order on the numbers, as a set of pairs.
LEMMA LessIsWellFounded == IsWellFoundedOn({p \in Nat \X Nat : p[1] < p[2]}, Nat)
BY NatLessThanWellFounded DEF OpToRel

\* Induction over a set of numbers.
LEMMA SetInduction ==
  ASSUME NEW S, 0 \in S, \A n \in Nat : n \in S => n + 1 \in S
  PROVE  Nat \subseteq S
<1> DEFINE R == {p \in Nat \X Nat : p[1] < p[2]}
           T == Nat \ S
<1>1. SUFFICES ASSUME T # {} PROVE FALSE
  OBVIOUS
<1>2. IsWellFoundedOn(R, Nat)
  BY LessIsWellFounded
<1>3. PICK x \in T : \A y \in T : ~(<<y, x>> \in R)
  <2> HIDE DEF R, T
  <2>1. T \subseteq Nat
    BY DEF T
  <2> QED BY <1>1, <1>2, <2>1, WFMin
<1>4. x \in Nat /\ x # 0 /\ x - 1 \in Nat /\ x - 1 < x
  OBVIOUS
<1>5. x - 1 \in S
  BY <1>3, <1>4
<1> QED BY <1>4, <1>5

\* From its head, n steps of a linked list are s.
LEMMA NodesAre ==
  ASSUME NEW l, NEW n \in Nat, NEW s \in [1..n -> Node], Linked(l, n, s)
  PROVE  Nodes(l, n) = s
<1> DEFINE Step(f) == f = [i \in 1..n |-> IF i = 1 THEN l.hd ELSE l.node[f[i - 1]].next]
           at == Nodes(l, n)
           S == {i \in Nat : i + 1 \in 1..n => at[i + 1] = s[i + 1]}
<1>1. Step(s)
  <2>1. \A i \in 1..n : s[i] = IF i = 1 THEN l.hd ELSE l.node[s[i - 1]].next
    BY DEF Linked
  <2> QED BY <2>1
<1>2. at = CHOOSE f : Step(f)
  BY DEF Nodes
<1>3. Step(at)
  <2> HIDE DEF Step
  <2> QED BY <1>1, <1>2
<1> HIDE DEF at
<1>4. 0 \in S
  BY <1>3 DEF Linked
<1>5. \A i \in Nat : i \in S => i + 1 \in S
  <2> SUFFICES ASSUME NEW i \in S, i + 2 \in 1..n
               PROVE  at[i + 2] = s[i + 2]
    OBVIOUS
  <2>1. at[i + 2] = l.node[at[i + 1]].next
    BY <1>3
  <2>2. i + 1 \in 1..n /\ i + 1 # n /\ at[i + 1] = s[i + 1]
    OBVIOUS
  <2>3. l.node[s[i + 1]].next = s[i + 2]
    BY <2>2 DEF Linked
  <2> QED BY <2>1, <2>2, <2>3
<1>6. Nat \subseteq S
  <2> HIDE DEF S
  <2> QED BY <1>4, <1>5, SetInduction
<1>7. \A j \in 1..n : at[j] = s[j]
  <2> SUFFICES ASSUME NEW j \in 1..n PROVE at[j] = s[j]
    OBVIOUS
  <2>1. j - 1 \in S
    BY <1>6
  <2> QED BY <2>1
<1>8. at = [i \in 1..n |-> at[i]]
  BY <1>3
<1> QED BY <1>7, <1>8 DEF at

\* The map holds as many keys as the list has nodes.
LEMMA CountIs ==
  ASSUME NEW l \in Lists, NEW m \in [Key -> Ends], NEW n \in Nat, NEW s \in [1..n -> Node],
         Distinct(n, s), Mapped(l, m, n, s)
  PROVE  Cardinality({k \in Key : m[k] # Null}) = n
<1> DEFINE K == {k \in Key : m[k] # Null}
           f == [i \in 1..n |-> l.node[s[i]].key]
<1>1. \A i \in 1..n : f[i] \in Key /\ m[f[i]] = s[i] /\ s[i] # Null
  BY LruAssumption DEF Mapped
<1>2. f \in [1..n -> K]
  BY <1>1
<1>3. \A i, j \in 1..n : f[i] = f[j] => i = j
  <2> HIDE DEF f
  <2> QED BY <1>1 DEF Distinct
<1>4. \A k \in K : \E i \in 1..n : f[i] = k
  BY DEF Mapped
<1> HIDE DEF f, K
<1>5. f \in Bijection(1..n, K)
  BY <1>2, <1>3, <1>4 DEF Bijection, Injection, Surjection, IsInjective
<1>6. ExistsBijection(1..n, K)
  BY <1>5 DEF ExistsBijection
<1>7. IsFiniteSet(1..n) /\ Cardinality(1..n) = n
  BY FS_Interval
<1>8. Cardinality(K) = n
  BY <1>6, <1>7, FS_Bijection
<1> QED BY <1>8 DEF K

-----------------------------------------------------------------------------
(* The promise's sequences, as functions of the place *)

\* An item in front.
LEMMA ConsIs ==
  ASSUME NEW S, NEW f \in Seq(S), NEW x \in S
  PROVE  /\ <<x>> \o f = Pushed(Len(f), f, x)
         /\ Pushed(Len(f), f, x) \in [1..(Len(f) + 1) -> S]
<1> DEFINE n == Len(f)
           t == Pushed(n, f, x)
<1>1. f \in [1..n -> S] /\ n \in Nat
  OBVIOUS
<1>2. <<x>> \in Seq(S) /\ Len(<<x>>) = 1 /\ <<x>>[1] = x
  OBVIOUS
<1>3. t \in [1..(n + 1) -> S] /\ n + 1 \in Nat
  BY <1>1 DEF Pushed
<1>4. t \in Seq(S) /\ Len(t) = n + 1
  BY <1>3
<1>5. /\ <<x>> \o f \in Seq(S) /\ Len(<<x>> \o f) = n + 1
      /\ \A i \in 1..(n + 1) : (<<x>> \o f)[i] = IF i <= 1 THEN <<x>>[i] ELSE f[i - 1]
  BY <1>1, <1>2, ConcatProperties
<1>6. \A i \in 1..(n + 1) : (<<x>> \o f)[i] = t[i]
  BY <1>2, <1>5 DEF Pushed
<1> QED BY <1>3, <1>4, <1>5, <1>6, SeqEqual

\* The items but one.
LEMMA CutIs ==
  ASSUME NEW S, NEW f \in Seq(S), NEW i \in 1..Len(f)
  PROVE  /\ SubSeq(f, 1, i - 1) \o SubSeq(f, i + 1, Len(f)) = Removed(Len(f), f, i)
         /\ Removed(Len(f), f, i) \in Seq(S) /\ Len(Removed(Len(f), f, i)) = Len(f) - 1
<1> DEFINE n == Len(f)
           a == SubSeq(f, 1, i - 1)
           b == SubSeq(f, i + 1, n)
           c == Removed(n, f, i)
<1>1. f \in [1..n -> S] /\ n \in Nat /\ i \in 1..n
  OBVIOUS
<1> HIDE DEF n
<1>2. /\ a \in Seq(S) /\ Len(a) = i - 1
      /\ \A j \in 1..(i - 1) : a[j] = f[j]
  <2>1. \A j \in 1..(i - 1) : f[j] \in S
    BY <1>1
  <2>2. /\ a \in Seq(S) /\ Len(a) = (IF 1 <= i - 1 THEN i - 1 - 1 + 1 ELSE 0)
        /\ \A j \in 1..(i - 1 - 1 + 1) : a[j] = f[1 + j - 1]
    BY <2>1, SubSeqProperties
  <2> HIDE DEF a
  <2> QED BY <2>2
<1>3. /\ b \in Seq(S) /\ Len(b) = n - i
      /\ \A j \in 1..(n - i) : b[j] = f[i + j]
  <2>1. \A j \in (i + 1)..n : f[j] \in S
    BY <1>1 DEF n
  <2>2. /\ b \in Seq(S) /\ Len(b) = (IF i + 1 <= n THEN n - (i + 1) + 1 ELSE 0)
        /\ \A j \in 1..(n - (i + 1) + 1) : b[j] = f[i + 1 + j - 1]
    BY <1>1, <2>1, SubSeqProperties
  <2> HIDE DEF b
  <2> QED BY <1>1, <2>2
<1>4. c \in [1..(n - 1) -> S] /\ n - 1 \in Nat /\ \A j \in 1..(n - 1) : c[j] = IF j < i THEN f[j] ELSE f[j + 1]
  BY <1>1 DEF Removed
<1> HIDE DEF a, b, c
<1>5. c \in Seq(S) /\ Len(c) = n - 1
  BY <1>4
<1>6. /\ a \o b \in Seq(S) /\ Len(a \o b) = n - 1
      /\ \A j \in 1..(n - 1) : (a \o b)[j] = IF j <= i - 1 THEN a[j] ELSE b[j - (i - 1)]
  <2>1. /\ a \o b \in Seq(S) /\ Len(a \o b) = Len(a) + Len(b)
        /\ \A j \in 1..(Len(a) + Len(b)) : (a \o b)[j] = IF j <= Len(a) THEN a[j] ELSE b[j - Len(a)]
    BY <1>2, <1>3, ConcatProperties
  <2>2. Len(a) + Len(b) = n - 1
    BY <1>1, <1>2, <1>3
  <2> QED BY <1>2, <2>1, <2>2
<1>7. ASSUME NEW j \in 1..(n - 1)
      PROVE  (a \o b)[j] = c[j]
  <2>0. /\ c[j] = IF j < i THEN f[j] ELSE f[j + 1]
        /\ (a \o b)[j] = IF j <= i - 1 THEN a[j] ELSE b[j - (i - 1)]
    BY <1>4, <1>6
  <2>1. CASE j < i
    <3>1. j \in 1..(i - 1) /\ j <= i - 1
      BY <1>1, <2>1
    <3>2. a[j] = f[j]
      BY <1>2, <3>1
    <3> QED BY <2>0, <2>1, <3>1, <3>2
  <2>2. CASE ~(j < i)
    <3>1. j - (i - 1) \in 1..(n - i) /\ i + (j - (i - 1)) = j + 1 /\ ~(j <= i - 1)
      BY <1>1, <2>2
    <3>2. b[j - (i - 1)] = f[i + (j - (i - 1))]
      BY <1>3, <3>1
    <3> QED BY <2>0, <2>2, <3>1, <3>2
  <2> QED BY <2>1, <2>2
<1>8. a \o b = c
  BY <1>5, <1>6, <1>7, SeqEqual
<1> QED BY <1>5, <1>8 DEF a, b, c, n

\* An item moved to the front, with another value perhaps.
LEMMA FrontIs ==
  ASSUME NEW S, NEW f \in Seq(S), NEW i \in 1..Len(f), NEW x \in S
  PROVE  <<x>> \o (SubSeq(f, 1, i - 1) \o SubSeq(f, i + 1, Len(f))) = Fronted(Len(f), Changed(f, i, x), i)
<1> DEFINE n == Len(f)
           g == Changed(f, i, x)
           c == Removed(n, f, i)
<1>1. SubSeq(f, 1, i - 1) \o SubSeq(f, i + 1, n) = c /\ c \in Seq(S) /\ Len(c) = n - 1
  BY CutIs
<1>0. n \in Nat /\ i \in 1..n
  OBVIOUS
<1>2. \A j \in 1..(n - 1) : c[j] = IF j < i THEN f[j] ELSE f[j + 1]
  BY DEF Removed
<1> HIDE DEF c
<1> HIDE DEF n
<1>3. <<x>> \o c = Pushed(Len(c), c, x)
  <2>1. c \in Seq(S)
    BY <1>1
  <2> QED BY ONLY x \in S, <2>1, ConsIs
<1>4. Pushed(Len(c), c, x) = [j \in 1..n |-> IF j = 1 THEN x ELSE c[j - 1]]
  BY <1>0, <1>1 DEF Pushed
<1>5. \A j \in 1..n : g[j] = IF j = i THEN x ELSE f[j]
  BY DEF Changed, n
<1> HIDE DEF g
<1>6. ASSUME NEW j \in 1..n
      PROVE  (IF j = 1 THEN x ELSE c[j - 1]) = (IF j = 1 THEN g[i] ELSE IF j <= i THEN g[j - 1] ELSE g[j])
  BY <1>0, <1>2, <1>5
<1>7. Fronted(n, g, i) = [j \in 1..n |-> IF j = 1 THEN g[i] ELSE IF j <= i THEN g[j - 1] ELSE g[j]]
  BY DEF Fronted
<1> QED BY ZenonT(60), <1>1, <1>3, <1>4, <1>6, <1>7 DEF g, n

-----------------------------------------------------------------------------
(* What the operations do to list, map and nodes together *)

\* A value assigned.
LEMMA HeldSet ==
  ASSUME NEW l \in Lists, NEW m \in [Key -> Ends], NEW used, NEW n \in Nat, NEW s \in [1..n -> Node],
         Held(l, m, used, n, s), NEW i \in 1..n, NEW v \in Val,
         NEW L \in Lists, L.hd = l.hd, L.tl = l.tl,
         \A y \in Node : /\ L.node[y].next = l.node[y].next /\ L.node[y].prev = l.node[y].prev
                         /\ L.node[y].key = l.node[y].key
                         /\ L.node[y].val = IF y = s[i] THEN v ELSE l.node[y].val
  PROVE  /\ Held(L, m, used, n, s)
         /\ Items(L, n, s) = Changed(Items(l, n, s), i, [key |-> l.node[s[i]].key, val |-> v])
<1>1. \A j \in 1..n : s[j] \in Node /\ (s[j] = s[i] <=> j = i)
  BY DEF Held, Distinct
<1>2. Linked(L, n, s)
  BY <1>1 DEF Held, Linked
<1>3. \A j \in 1..n : L.node[s[j]].key = l.node[s[j]].key /\ L.node[s[j]].val = IF j = i THEN v ELSE l.node[s[j]].val
  BY <1>1
<1>4. Mapped(L, m, n, s)
  BY <1>3 DEF Held, Mapped
<1>5. Held(L, m, used, n, s)
  BY <1>2, <1>4 DEF Held
<1>6. Items(L, n, s) = Changed(Items(l, n, s), i, [key |-> l.node[s[i]].key, val |-> v])
  <2> DEFINE c == Changed(Items(l, n, s), i, [key |-> l.node[s[i]].key, val |-> v])
  <2>1. \A j \in 1..n : Items(L, n, s)[j] = c[j]
    BY <1>3 DEF Items, Changed
  <2>2. Items(L, n, s) = [j \in 1..n |-> Items(L, n, s)[j]] /\ c = [j \in 1..n |-> c[j]]
    BY DEF Items, Changed
  <2> QED BY <2>1, <2>2
<1> QED BY <1>5, <1>6

\* A node moved to the head.
LEMMA HeldMove ==
  ASSUME NEW l \in Lists, NEW m \in [Key -> Ends], NEW used, NEW n \in Nat, NEW s \in [1..n -> Node],
         Held(l, m, used, n, s), NEW i \in 1..n
  PROVE  /\ MoveToHead(l, s[i]) \in Lists /\ Fronted(n, s, i) \in [1..n -> Node]
         /\ Held(MoveToHead(l, s[i]), m, used, n, Fronted(n, s, i))
         /\ Items(MoveToHead(l, s[i]), n, Fronted(n, s, i)) = Fronted(n, Items(l, n, s), i)
<1> DEFINE L == MoveToHead(l, s[i])
           t == Fronted(n, s, i)
           at == [j \in 1..n |-> IF j = 1 THEN i ELSE IF j <= i THEN j - 1 ELSE j]
           back == [j \in 1..n |-> IF j = i THEN 1 ELSE IF j < i THEN j + 1 ELSE j]
<1>1. /\ L \in Lists /\ t \in [1..n -> Node] /\ Distinct(n, t) /\ Linked(L, n, t)
      /\ \A x \in Node : L.node[x].key = l.node[x].key /\ L.node[x].val = l.node[x].val
  BY MoveLinked DEF Held
<1>2. \A j \in 1..n : at[j] \in 1..n /\ back[j] \in 1..n /\ at[back[j]] = j
  OBVIOUS
<1>3. \A j \in 1..n : t[j] = s[at[j]]
  BY DEF Fronted
<1> HIDE DEF L, t, at, back
<1>4. Mapped(L, m, n, t)
  <2>1. ASSUME NEW j \in 1..n
        PROVE  L.node[t[j]].key \in Key /\ L.node[t[j]].val \in Val /\ m[L.node[t[j]].key] = t[j]
    <3>1. t[j] = s[at[j]] /\ at[j] \in 1..n /\ t[j] \in Node
      BY <1>1, <1>2, <1>3
    <3>2. L.node[t[j]].key = l.node[s[at[j]]].key /\ L.node[t[j]].val = l.node[s[at[j]]].val
      BY <1>1, <3>1
    <3> QED BY <3>1, <3>2 DEF Held, Mapped
  <2>2. ASSUME NEW k \in Key, m[k] # Null
        PROVE  \E j \in 1..n : t[j] = m[k] /\ L.node[t[j]].key = k
    <3>1. PICK j \in 1..n : s[j] = m[k] /\ l.node[s[j]].key = k
      BY <2>2 DEF Held, Mapped
    <3>2. back[j] \in 1..n /\ t[back[j]] = s[j] /\ s[j] \in Node
      BY <1>2, <1>3
    <3> QED BY <1>1, <3>1, <3>2
  <2> QED BY <2>1, <2>2 DEF Mapped
<1>5. used = {t[j] : j \in 1..n}
  <2>1. \A j \in 1..n : t[j] \in used
    BY <1>2, <1>3 DEF Held
  <2>2. \A j \in 1..n : s[j] = t[back[j]] /\ back[j] \in 1..n
    BY <1>2, <1>3
  <2> QED BY <2>1, <2>2 DEF Held
<1>6. \A j \in 1..n : Items(L, n, t)[j] = Items(l, n, s)[at[j]]
  BY <1>1, <1>2, <1>3 DEF Items
<1>7. Items(L, n, t) = Fronted(n, Items(l, n, s), i)
  <2>1. \A j \in 1..n : Items(L, n, t)[j] = IF j = 1 THEN Items(l, n, s)[i]
                                            ELSE IF j <= i THEN Items(l, n, s)[j - 1] ELSE Items(l, n, s)[j]
    BY <1>6 DEF at
  <2>2. Items(L, n, t) = [j \in 1..n |-> Items(L, n, t)[j]]
    BY DEF Items
  <2> QED BY <2>1, <2>2 DEF Fronted
<1>8. Held(L, m, used, n, t)
  BY <1>1, <1>4, <1>5 DEF Held
<1> QED BY <1>1, <1>7, <1>8 DEF L, t

\* A node in front.
LEMMA HeldPush ==
  ASSUME NEW l \in Lists, NEW m \in [Key -> Ends], NEW used, NEW n \in Nat, NEW s \in [1..n -> Node],
         n > 0, Held(l, m, used, n, s),
         NEW x \in Node, x \notin used, NEW k \in Key, m[k] = Null, NEW v \in Val,
         NEW r, r = n + 1
  PROVE  /\ PushFront(l, x, k, v) \in Lists /\ Pushed(n, s, x) \in [1..r -> Node]
         /\ Held(PushFront(l, x, k, v), Changed(m, k, x), used \cup {x}, r, Pushed(n, s, x))
         /\ Items(PushFront(l, x, k, v), r, Pushed(n, s, x)) = Pushed(n, Items(l, n, s), Promise!Pair(k, v))
<1> DEFINE L == PushFront(l, x, k, v)
           M == Changed(m, k, x)
           t == Pushed(n, s, x)
<1>0. \A i \in 1..n : s[i] \in used /\ s[i] # x
  BY DEF Held
<1>1. /\ L \in Lists /\ t \in [1..(n + 1) -> Node] /\ Distinct(n + 1, t) /\ Linked(L, n + 1, t)
      /\ L.node[x].key = k /\ L.node[x].val = v
      /\ \A y \in Node \ {x} : L.node[y].key = l.node[y].key /\ L.node[y].val = l.node[y].val
  <2>1. Distinct(n, s) /\ Linked(l, n, s)
    BY DEF Held
  <2> QED BY <1>0, <2>1, PushLinked
<1>2. t[1] = x /\ \A j \in 2..(n + 1) : t[j] = s[j - 1] /\ j - 1 \in 1..n
  BY DEF Pushed
<1>3. \A j \in 1..n : t[j + 1] = s[j] /\ j + 1 \in 1..(n + 1)
  BY DEF Pushed
<1>4. \A j \in 1..n : s[j] \in Node \ {x}
  BY <1>0
<1>5. Items(L, n + 1, t) = Pushed(n, Items(l, n, s), Promise!Pair(k, v))
  <2> HIDE DEF L, t
  <2>1. \A j \in 1..(n + 1) : Items(L, n + 1, t)[j] = IF j = 1 THEN [key |-> k, val |-> v] ELSE Items(l, n, s)[j - 1]
    <3>1. Items(L, n + 1, t)[1] = [key |-> k, val |-> v]
      BY <1>1, <1>2 DEF Items
    <3>2. \A j \in 2..(n + 1) : Items(L, n + 1, t)[j] = Items(l, n, s)[j - 1]
      BY <1>1, <1>2, <1>4 DEF Items
    <3> QED BY <3>1, <3>2
  <2>2. Items(L, n + 1, t) = [j \in 1..(n + 1) |-> Items(L, n + 1, t)[j]]
    BY DEF Items
  <2> QED BY <2>1, <2>2 DEF Pushed, Promise!Pair
<1> HIDE DEF L, t
<1>6. Mapped(L, M, n + 1, t)
  <2>0. \A q \in Key : M[q] = IF q = k THEN x ELSE m[q]
    BY DEF Changed
  <2> HIDE DEF M
  <2>1. ASSUME NEW j \in 1..(n + 1)
        PROVE  L.node[t[j]].key \in Key /\ L.node[t[j]].val \in Val /\ M[L.node[t[j]].key] = t[j]
    <3>1. CASE j = 1
      BY <1>1, <1>2, <2>0, <3>1
    <3>2. CASE j # 1
      <4>1. t[j] = s[j - 1] /\ j - 1 \in 1..n
        BY <1>2, <3>2
      <4>2. /\ l.node[s[j - 1]].key \in Key /\ l.node[s[j - 1]].val \in Val
            /\ m[l.node[s[j - 1]].key] = s[j - 1] /\ s[j - 1] # Null
        BY <4>1, LruAssumption DEF Held, Mapped
      <4>3. l.node[s[j - 1]].key # k
        BY <4>2
      <4> QED BY <1>1, <1>4, <2>0, <4>1, <4>2, <4>3
    <3> QED BY <3>1, <3>2
  <2>2. ASSUME NEW q \in Key, M[q] # Null
        PROVE  \E j \in 1..(n + 1) : t[j] = M[q] /\ L.node[t[j]].key = q
    <3>1. CASE q = k
      BY <1>1, <1>2, <2>0, <3>1
    <3>2. CASE q # k
      <4>1. PICK j \in 1..n : s[j] = m[q] /\ l.node[s[j]].key = q
        BY <2>0, <2>2, <3>2 DEF Held, Mapped
      <4>2. t[j + 1] = s[j] /\ j + 1 \in 1..(n + 1) /\ L.node[s[j]].key = q
        BY <1>1, <1>3, <1>4, <4>1
      <4> QED BY <2>0, <3>2, <4>1, <4>2
    <3> QED BY <3>1, <3>2
  <2> QED BY <2>1, <2>2 DEF Mapped
<1>7. used \cup {x} = {t[j] : j \in 1..(n + 1)}
  <2>1. \A j \in 1..(n + 1) : t[j] \in used \cup {x}
    BY <1>0, <1>2
  <2>2. \A y \in used : \E j \in 1..(n + 1) : t[j] = y
    BY <1>3 DEF Held
  <2> QED BY <1>2, <2>1, <2>2
<1>8. Held(L, M, used \cup {x}, n + 1, t)
  BY <1>1, <1>6, <1>7 DEF Held
<1> QED BY <1>1, <1>5, <1>8 DEF L, t

\* The first node.
LEMMA HeldFirst ==
  ASSUME NEW l \in Lists, NEW m \in [Key -> Ends], NEW s \in [1..0 -> Node], Held(l, m, {}, 0, s),
         NEW x \in Node, NEW k \in Key, NEW v \in Val,
         NEW L \in Lists, L.hd = x, L.tl = x, L.node[x] = Fresh(k, v)
  PROVE  /\ Pushed(0, s, x) \in [1..1 -> Node]
         /\ Held(L, Changed(m, k, x), {x}, 1, Pushed(0, s, x))
<1> DEFINE t == Pushed(0, s, x)
<1>2. L.node[x] = [next |-> Null, prev |-> Null, key |-> k, val |-> v]
  BY DEF Fresh
<1>3. t = [j \in 1..1 |-> x]
  BY DEF Pushed
<1>4. t \in [1..1 -> Node] /\ t[1] = x /\ \A j \in 1..1 : j = 1
  BY <1>3
<1> HIDE DEF t
<1>5. Distinct(1, t) /\ Linked(L, 1, t)
  BY <1>2, <1>4 DEF Distinct, Linked
<1>6. \A q \in Key : m[q] = Null
  BY DEF Held, Mapped
<1>7. Mapped(L, Changed(m, k, x), 1, t)
  BY <1>2, <1>4, <1>6 DEF Mapped, Changed
<1>8. {x} = {t[j] : j \in 1..1}
  BY <1>4
<1>9. Held(L, Changed(m, k, x), {x}, 1, t)
  BY <1>5, <1>7, <1>8 DEF Held
<1> QED BY <1>4, <1>9 DEF t

\* A node cut out and deleted: D is the list without it.
LEMMA HeldCut ==
  ASSUME NEW l, NEW m, NEW used, NEW n, NEW s, NEW i, NEW D, NEW M, NEW gone, NEW r,
         CutOut(l, m, used, n, s, i, D, M, gone, r)
  PROVE  /\ Removed(n, s, i) \in [1..r -> Node]
         /\ Held(D, M, gone, r, Removed(n, s, i))
         /\ Items(D, r, Removed(n, s, i)) = Removed(n, Items(l, n, s), i)
<1> /\ l \in Lists /\ m \in [Key -> Ends] /\ n \in Nat /\ s \in [1..n -> Node]
    /\ Held(l, m, used, n, s) /\ i \in 1..n
  BY DEF CutOut
<1>0. /\ r = n - 1 /\ D \in Lists /\ M \in [Key -> Ends] /\ Linked(D, r, Removed(n, s, i))
      /\ \A y \in Node \ {s[i]} : D.node[y].key = l.node[y].key /\ D.node[y].val = l.node[y].val
      /\ \A q \in Key : M[q] = IF q = l.node[s[i]].key THEN Null ELSE m[q]
      /\ \A y : y \in gone <=> y \in used /\ y # s[i]
  BY DEF CutOut
<1> DEFINE t == Removed(n, s, i)
<1>1. /\ t \in [1..(n - 1) -> Node] /\ n - 1 \in Nat /\ Distinct(n - 1, t)
      /\ \A j \in 1..(n - 1) : t[j] = IF j < i THEN s[j] ELSE s[j + 1]
      /\ \A j \in 1..(n - 1) : t[j] # s[i]
      /\ \A j \in (1..n) \ {i} : \E q \in 1..(n - 1) : t[q] = s[j]
  <2>1. Distinct(n, s)
    BY DEF Held
  <2>2. t \in [1..(n - 1) -> Node] /\ n - 1 \in Nat
    BY DEF Removed
  <2>3. Distinct(n - 1, t)
    BY <2>1, RemovedIs
  <2>4. \A j \in 1..(n - 1) : t[j] = IF j < i THEN s[j] ELSE s[j + 1]
    BY DEF Removed
  <2> HIDE DEF t
  <2>5. \A j \in 1..(n - 1) : t[j] # s[i]
    BY <2>1, <2>4 DEF Distinct
  <2>6. ASSUME NEW j \in (1..n) \ {i}
        PROVE  \E q \in 1..(n - 1) : t[q] = s[j]
    <3>1. CASE j < i
      <4>1. j \in 1..(n - 1) /\ t[j] = s[j]
        BY <2>4, <3>1
      <4> QED BY <4>1
    <3>2. CASE j > i
      <4>1. j - 1 \in 1..(n - 1) /\ t[j - 1] = s[j]
        BY <2>4, <3>2
      <4> QED BY <4>1
    <3> QED BY <3>1, <3>2
  <2> QED BY <2>2, <2>3, <2>4, <2>5, <2>6
<1>2. Linked(D, n - 1, t)
  BY <1>0
<1>3. \A j \in 1..(n - 1) : /\ t[j] \in Node \ {s[i]}
                            /\ \E q \in (1..n) \ {i} : t[j] = s[q] /\ q = IF j < i THEN j ELSE j + 1
  <2> SUFFICES ASSUME NEW j \in 1..(n - 1)
               PROVE  /\ t[j] \in Node \ {s[i]}
                      /\ \E q \in (1..n) \ {i} : t[j] = s[q] /\ q = IF j < i THEN j ELSE j + 1
    OBVIOUS
  <2>1. t[j] \in Node \ {s[i]}
    BY <1>1
  <2>2. (IF j < i THEN j ELSE j + 1) \in (1..n) \ {i}
    OBVIOUS
  <2>3. t[j] = s[IF j < i THEN j ELSE j + 1]
    BY <1>1
  <2> QED BY <2>1, <2>2, <2>3
<1>4. \A y \in Node \ {s[i]} : D.node[y].key = l.node[y].key /\ D.node[y].val = l.node[y].val
  BY <1>0
<1> HIDE DEF t
<1>5. Mapped(D, M, n - 1, t)
  <2>0. \A q \in Key : M[q] = IF q = l.node[s[i]].key THEN Null ELSE m[q]
    BY <1>0
  <2>1. ASSUME NEW j \in 1..(n - 1)
        PROVE  D.node[t[j]].key \in Key /\ D.node[t[j]].val \in Val /\ M[D.node[t[j]].key] = t[j]
    <3>1. PICK q \in (1..n) \ {i} : t[j] = s[q]
      BY <1>3
    <3>2. l.node[s[q]].key \in Key /\ l.node[s[q]].val \in Val /\ m[l.node[s[q]].key] = s[q]
      BY DEF Held, Mapped
    <3>3. l.node[s[q]].key # l.node[s[i]].key
      <4>1. m[l.node[s[i]].key] = s[i] /\ s[q] # s[i]
        BY DEF Held, Mapped, Distinct
      <4> QED BY <3>2, <4>1
    <3> QED BY <1>3, <1>4, <2>0, <3>1, <3>2, <3>3
  <2>2. ASSUME NEW k \in Key, M[k] # Null
        PROVE  \E j \in 1..(n - 1) : t[j] = M[k] /\ D.node[t[j]].key = k
    <3>1. m[k] # Null /\ M[k] = m[k] /\ k # l.node[s[i]].key
      BY <2>0, <2>2
    <3>2. PICK q \in 1..n : s[q] = m[k] /\ l.node[s[q]].key = k
      BY <3>1 DEF Held, Mapped
    <3>3. q # i
      BY <3>1, <3>2
    <3>4. PICK j \in 1..(n - 1) : t[j] = s[q]
      BY <1>1, <3>3
    <3> QED BY <1>3, <1>4, <3>1, <3>2, <3>4
  <2> QED BY <2>1, <2>2 DEF Mapped
<1>6. gone = {t[j] : j \in 1..(n - 1)}
  <2>1. \A j \in 1..(n - 1) : t[j] \in gone
    <3> SUFFICES ASSUME NEW j \in 1..(n - 1) PROVE t[j] \in gone
      OBVIOUS
    <3>1. PICK q \in (1..n) \ {i} : t[j] = s[q]
      BY <1>3
    <3>2. s[q] \in used
      BY DEF Held
    <3> QED BY <1>0, <1>3, <3>1, <3>2
  <2>2. ASSUME NEW y \in gone
        PROVE  \E j \in 1..(n - 1) : t[j] = y
    <3>1. PICK q \in 1..n : y = s[q]
      BY <1>0 DEF Held
    <3>2. q # i
      BY <1>0, <3>1
    <3> QED BY <1>1, <3>1, <3>2
  <2> QED BY <2>1, <2>2
<1>7. Items(D, n - 1, t) = Removed(n, Items(l, n, s), i)
  <2>1. ASSUME NEW j \in 1..(n - 1)
        PROVE  Items(D, n - 1, t)[j] = IF j < i THEN Items(l, n, s)[j] ELSE Items(l, n, s)[j + 1]
    <3>1. PICK q \in (1..n) \ {i} : t[j] = s[q] /\ q = IF j < i THEN j ELSE j + 1
      BY <1>3
    <3>2. Items(D, n - 1, t)[j] = Items(l, n, s)[q]
      BY <1>3, <1>4, <3>1 DEF Items
    <3> QED BY <3>1, <3>2
  <2>2. Items(D, n - 1, t) = [j \in 1..(n - 1) |-> Items(D, n - 1, t)[j]]
    BY DEF Items
  <2> QED BY <2>1, <2>2 DEF Removed
<1>8. Held(D, M, gone, n - 1, t)
  BY <1>1, <1>2, <1>5, <1>6 DEF Held
<1> QED BY <1>0, <1>1, <1>7, <1>8 DEF t

-----------------------------------------------------------------------------
(* The actions *)

\* What the map counts and what Follow finds, when the list is s.
LEMMA FollowIs ==
  ASSUME TypeInv, NEW n \in Nat, NEW s \in [1..n -> Node], Chain(n, s)
  PROVE  Size = n /\ Follow = Items(list, n, s)
<1>1. list \in Lists /\ map \in [Key -> Ends] /\ Distinct(n, s) /\ Mapped(list, map, n, s) /\ Linked(list, n, s)
  BY DEF TypeInv, Chain, Held
<1>2. Size = n
  BY <1>1, CountIs DEF Size
<1>3. Nodes(list, Size) = s
  BY <1>1, <1>2, NodesAre
<1> QED BY <1>2, <1>3 DEF Follow, Items

\* The same after a step.
LEMMA FollowIsNext ==
  ASSUME TypeInv', NEW n \in Nat, NEW s \in [1..n -> Node], Chain(n, s)'
  PROVE  Size' = n /\ Follow' = Items(list', n, s)
<1>1. /\ list' \in Lists /\ map' \in [Key -> Ends]
      /\ Distinct(n, s) /\ Mapped(list', map', n, s) /\ Linked(list', n, s)
  BY DEF TypeInv, Chain, Held
<1>2. Size' = n
  BY <1>1, CountIs DEF Size
<1>3. Nodes(list', Size') = s
  BY <1>1, <1>2, NodesAre
<1> QED BY <1>2, <1>3 DEF Follow, Items

\* The ends of the list, and the places of the nodes in the map.
LEMMA ChainFacts ==
  ASSUME TypeInv, NEW n \in Nat, NEW s \in [1..n -> Node], Chain(n, s)
  PROVE  /\ list.hd = (IF n = 0 THEN Null ELSE s[1]) /\ (n > 0 => list.tl = s[n])
         /\ list.hd = Null <=> n = 0
         /\ Follow \in Seq(Item) /\ Len(Follow) = n
         /\ \A i \in 1..n : /\ s[i] \in live /\ s[i] # Null /\ list.node[s[i]].key \in Key
                            /\ list.node[s[i]].val \in Val /\ map[list.node[s[i]].key] = s[i]
                            /\ Follow[i] = [key |-> list.node[s[i]].key, val |-> list.node[s[i]].val]
         /\ \A k \in Key : map[k] = Null => Promise!At(k) = {}
         /\ \A k \in Key : map[k] # Null =>
              \E i \in 1..n : s[i] = map[k] /\ list.node[s[i]].key = k /\ i \in Promise!At(k)
<1>1. /\ list \in Lists /\ map \in [Key -> Ends] /\ Held(list, map, live, n, s) /\ Linked(list, n, s)
      /\ Follow = Items(list, n, s)
  BY FollowIs DEF TypeInv, Chain, Held
<1>2. /\ Follow \in Seq(Item) /\ Len(Follow) = n
      /\ \A i \in 1..n : /\ s[i] \in live /\ s[i] # Null /\ list.node[s[i]].key \in Key
                         /\ list.node[s[i]].val \in Val /\ map[list.node[s[i]].key] = s[i]
                         /\ Follow[i] = [key |-> list.node[s[i]].key, val |-> list.node[s[i]].val]
      /\ \A k \in Key : map[k] # Null => \E i \in 1..n : s[i] = map[k] /\ list.node[s[i]].key = k
  <2>1. \A i \in 1..n : /\ s[i] \in live /\ s[i] # Null /\ list.node[s[i]].key \in Key
                         /\ list.node[s[i]].val \in Val /\ map[list.node[s[i]].key] = s[i]
    BY <1>1, LruAssumption DEF Held, Mapped
  <2>2. \A i \in 1..n : /\ Follow[i] = [key |-> list.node[s[i]].key, val |-> list.node[s[i]].val]
                         /\ [key |-> list.node[s[i]].key, val |-> list.node[s[i]].val] \in Item
    BY <1>1, <2>1 DEF Items, Item
  <2>3. Follow \in [1..n -> Item]
    BY <1>1, <2>2 DEF Items
  <2>4. Follow \in Seq(Item) /\ Len(Follow) = n
    BY <2>3
  <2>5. \A k \in Key : map[k] # Null => \E i \in 1..n : s[i] = map[k] /\ list.node[s[i]].key = k
    BY <1>1 DEF Held, Mapped
  <2> QED BY <2>1, <2>2, <2>4, <2>5
<1>3. /\ list.hd = (IF n = 0 THEN Null ELSE s[1]) /\ (n > 0 => list.tl = s[n])
      /\ list.hd = Null <=> n = 0
  BY <1>1, <1>2 DEF Linked
<1>4. \A k \in Key : map[k] = Null => Promise!At(k) = {}
  BY <1>2 DEF Promise!At
<1>5. ASSUME NEW k \in Key, map[k] # Null
      PROVE  \E i \in 1..n : s[i] = map[k] /\ list.node[s[i]].key = k /\ i \in Promise!At(k)
  <2>1. PICK i \in 1..n : s[i] = map[k] /\ list.node[s[i]].key = k
    BY <1>2, <1>5
  <2>2. i \in Promise!At(k)
    BY <1>2, <2>1 DEF Promise!At
  <2> QED BY <2>1, <2>2
<1> QED BY <1>2, <1>3, <1>4, <1>5

IInv == TypeInv /\ ListInv

\* What the proof shows of a step: the invariant is kept, the map grows only as
\* it may, and the promise makes the same step.
Good == /\ IInv'
        /\ Size' > Size => Size' <= maxSize
        /\ [Promise!Next]_(Promise!vars)

\* A step is good when it leaves a list t of r nodes, whose items are known.
LEMMA GoodStep ==
  ASSUME TypeInv, NEW n \in Nat, NEW s \in [1..n -> Node], Chain(n, s),
         TypeInv', NEW r \in Nat, NEW t \in [1..r -> Node], Chain(r, t)',
         r > n => r <= maxSize,
         Follow' = Items(list', r, t) => [Promise!Next]_(Promise!vars)
  PROVE  Good
<1>1. Size = n
  BY FollowIs
<1>2. Size' = r /\ Follow' = Items(list', r, t)
  BY FollowIsNext
<1>3. ListInv'
  BY DEF ListInv
<1> QED BY <1>1, <1>2, <1>3 DEF Good, IInv

\* The first node of an empty list.
LEMMA InsertFirstStep ==
  ASSUME TypeInv, NEW n \in Nat, NEW s \in [1..n -> Node], Chain(n, s),
         NEW k \in Key, NEW v \in Val, InsertFirst(k, v)
  PROVE  Good
<1> DEFINE t(x) == Pushed(0, s, x)
<1>1. n = 0 /\ Follow = <<>> /\ map[k] = Null /\ Promise!At(k) = {} /\ live = {}
  <2>1. n = 0
    BY ChainFacts DEF InsertFirst
  <2>2. Follow \in Seq(Item) /\ Len(Follow) = 0
    BY <2>1, ChainFacts
  <2>3. map[k] = Null
    BY <2>1 DEF Chain, Held, Mapped
  <2>4. Promise!At(k) = {}
    BY <2>3, ChainFacts
  <2>5. live = {}
    BY <2>1 DEF Chain, Held
  <2> QED BY <2>1, <2>2, <2>3, <2>4, <2>5
<1>2. PICK x \in Node \ live :
        /\ list' = [hd |-> x, tl |-> x, node |-> [list.node EXCEPT ![x] = Fresh(k, v)]]
        /\ map' = Changed(map, k, x) /\ live' = live \cup {x}
  BY DEF InsertFirst, Changed
<1>3. /\ list' \in Lists /\ t(x) \in [1..1 -> Node] /\ Held(list', map', {x}, 1, t(x))
      /\ Items(list', 1, t(x)) = <<[key |-> k, val |-> v]>>
  <2>1. s \in [1..0 -> Node] /\ Held(list, map, {}, 0, s) /\ list \in Lists /\ map \in [Key -> Ends]
    BY <1>1 DEF TypeInv, Chain
  <2>2. list' \in Lists /\ list'.hd = x /\ list'.tl = x /\ list'.node[x] = Fresh(k, v)
    BY <1>2, <2>1 DEF Lists, Fields, Ends, Fresh
  <2>3. t(x) \in [1..1 -> Node]
    BY <2>1, <2>2, HeldFirst
  <2>4. Held(list', Changed(map, k, x), {x}, 1, t(x))
    BY <2>1, <2>2, HeldFirst
  <2>5. Items(list', 1, t(x)) = <<[key |-> k, val |-> v]>>
    <3>1. \A j \in 1..1 : Pushed(0, s, x)[j] = x
      BY DEF Pushed
    <3>2. Items(list', 1, t(x)) = [j \in 1..1 |-> [key |-> k, val |-> v]]
      BY <2>2, <3>1 DEF Items, Fresh
    <3> QED BY <3>2
  <2> QED BY <1>2, <2>2, <2>3, <2>4, <2>5 DEF Changed
<1> HIDE DEF t
<1>4. result' = Null /\ maxSize' = maxSize
  BY DEF InsertFirst
<1>5. TypeInv'
  BY <1>1, <1>2, <1>3, <1>4 DEF TypeInv, Ends, Changed
<1>6. Chain(1, t(x))'
  BY <1>1, <1>2, <1>3 DEF Chain
<1>7. 1 <= maxSize
  BY <1>4, LruAssumption DEF TypeInv
<1>8. ASSUME Follow' = Items(list', 1, t(x))
      PROVE  Promise!Next
  <2>1. Follow' = <<Promise!Pair(k, v)>> \o Follow
    BY <1>1, <1>3, <1>8 DEF Promise!Pair
  <2>2. Promise!Insert(k, v)
    BY <1>1, <1>4, <2>1 DEF Promise!Insert
  <2> QED BY <2>2 DEF Promise!Next
<1> QED BY <1>3, <1>5, <1>6, <1>7, <1>8, GoodStep

\* A key that is there is updated and moved to the head.
LEMMA InsertAgainStep ==
  ASSUME TypeInv, NEW n \in Nat, NEW s \in [1..n -> Node], Chain(n, s),
         NEW k \in Key, NEW v \in Val, InsertAgain(k, v)
  PROVE  Good
<1> DEFINE l == [list EXCEPT !.node[map[k]].val = v]
<1>1. PICK i \in 1..n : s[i] = map[k] /\ list.node[s[i]].key = k /\ i \in Promise!At(k)
  BY ChainFacts DEF InsertAgain
<1> DEFINE t == Fronted(n, s, i)
           F == Items(list, n, s)
<1>2. /\ l \in Lists /\ Held(l, map, live, n, s)
      /\ Items(l, n, s) = Changed(F, i, [key |-> k, val |-> v])
  <2>1. list \in Lists /\ map \in [Key -> Ends] /\ Held(list, map, live, n, s)
    BY DEF TypeInv, Chain
  <2>2. /\ l \in Lists /\ l.hd = list.hd /\ l.tl = list.tl
        /\ \A y \in Node : /\ l.node[y].next = list.node[y].next /\ l.node[y].prev = list.node[y].prev
                           /\ l.node[y].key = list.node[y].key
                           /\ l.node[y].val = IF y = s[i] THEN v ELSE list.node[y].val
    BY <1>1, <2>1, SetVal
  <2> HIDE DEF l, F
  <2>3. /\ Held(l, map, live, n, s)
        /\ Items(l, n, s) = Changed(Items(list, n, s), i, [key |-> list.node[s[i]].key, val |-> v])
    BY SMTT(30), <2>1, <2>2, HeldSet
  <2> QED BY <1>1, <2>2, <2>3 DEF F
<1>3. list' = MoveToHead(l, s[i]) /\ map' = map /\ live' = live /\ result' = Null /\ maxSize' = maxSize
  BY <1>1 DEF InsertAgain
<1> HIDE DEF l
<1>4. /\ list' \in Lists /\ t \in [1..n -> Node] /\ Held(list', map', live', n, t)
      /\ Items(list', n, t) = Fronted(n, Changed(F, i, [key |-> k, val |-> v]), i)
  <2>1. map \in [Key -> Ends]
    BY DEF TypeInv
  <2>2. /\ MoveToHead(l, s[i]) \in Lists /\ t \in [1..n -> Node]
        /\ Held(MoveToHead(l, s[i]), map, live, n, t)
        /\ Items(MoveToHead(l, s[i]), n, t) = Fronted(n, Items(l, n, s), i)
    <3>1. l \in Lists /\ Held(l, map, live, n, s)
      BY <1>2
    <3> QED BY <2>1, <3>1, HeldMove
  <2> QED BY <1>2, <1>3, <2>2
<1>5. TypeInv'
  BY <1>3, <1>4 DEF TypeInv
<1>6. Chain(n, t)'
  BY <1>4 DEF Chain
<1> HIDE DEF t, F
<1>7. ASSUME Follow' = Items(list', n, t)
      PROVE  Promise!Next
  <2>1. Follow = F /\ Follow \in Seq(Item) /\ Len(Follow) = n
    BY FollowIs, ChainFacts DEF F
  <2>2. <<[key |-> k, val |-> v]>> \o Promise!Without(i) = Fronted(n, Changed(F, i, [key |-> k, val |-> v]), i)
    <3>1. [key |-> k, val |-> v] \in Item /\ i \in 1..Len(Follow)
      BY <2>1 DEF Item
    <3> QED BY ZenonT(60), <2>1, <3>1, FrontIs DEF Promise!Without
  <2>3. Follow' = <<Promise!Pair(k, v)>> \o Promise!Without(i)
    BY <1>4, <1>7, <2>2 DEF Promise!Pair
  <2>4. Promise!Insert(k, v)
    BY <1>1, <1>3, <2>3 DEF Promise!Insert
  <2> QED BY <2>4 DEF Promise!Next
<1> QED BY <1>4, <1>5, <1>6, <1>7, GoodStep

\* A hit moves its node to the head.
LEMMA GetStep ==
  ASSUME TypeInv, NEW n \in Nat, NEW s \in [1..n -> Node], Chain(n, s), NEW k \in Key, Get(k)
  PROVE  Good
<1>0. list \in Lists /\ map \in [Key -> Ends] /\ Held(list, map, live, n, s) /\ map' = map /\ live' = live /\ maxSize' = maxSize
  BY DEF TypeInv, Chain, Get
<1>1. CASE map[k] = Null
  <2>1. list' = list /\ result' = Null
    BY <1>1 DEF Get
  <2>2. TypeInv' /\ Chain(n, s)'
    BY <1>0, <2>1 DEF TypeInv, Chain
  <2>3. ASSUME Follow' = Items(list', n, s)
        PROVE  Promise!Next
    <3>1. Follow' = Follow /\ Promise!At(k) = {}
      BY <1>1, <2>1, <2>3, FollowIs, ChainFacts
    <3>2. Promise!Get(k)
      BY <1>0, <2>1, <3>1 DEF Promise!Get
    <3> QED BY <3>2 DEF Promise!Next
  <2> QED BY <2>2, <2>3, GoodStep
<1>2. CASE map[k] # Null
  <2>1. PICK i \in 1..n : s[i] = map[k] /\ list.node[s[i]].key = k /\ i \in Promise!At(k)
    BY <1>2, ChainFacts
  <2> DEFINE t == Fronted(n, s, i)
             F == Items(list, n, s)
  <2>2. list' = MoveToHead(list, s[i]) /\ result' = list.node[s[i]].val
    BY <1>2, <2>1 DEF Get
  <2>3. /\ list' \in Lists /\ t \in [1..n -> Node] /\ Held(list', map', live', n, t)
        /\ Items(list', n, t) = Fronted(n, F, i)
    BY ZenonT(60), <1>0, <2>2, HeldMove
  <2>4. Follow = F /\ Follow \in Seq(Item) /\ Len(Follow) = n /\ Follow[i].val = list.node[s[i]].val
        /\ list.node[s[i]].val \in Val
    <3>1. Follow = F
      BY FollowIs
    <3>2. Follow \in Seq(Item) /\ Len(Follow) = n
      BY ChainFacts
    <3>3. Follow[i].val = list.node[s[i]].val /\ list.node[s[i]].val \in Val
      <4>1. Follow[i] = [key |-> list.node[s[i]].key, val |-> list.node[s[i]].val]
        BY FollowIs DEF Items
      <4>2. list.node[s[i]].val \in Val
        BY DEF Chain, Held, Mapped
      <4> QED BY <4>1, <4>2
    <3> QED BY <3>1, <3>2, <3>3
  <2>5. TypeInv'
    BY <1>0, <2>2, <2>3, <2>4 DEF TypeInv
  <2>6. Chain(n, t)'
    BY <2>3 DEF Chain
  <2> HIDE DEF t, F
  <2>7. ASSUME Follow' = Items(list', n, t)
        PROVE  Promise!Next
    <3>1. <<Follow[i]>> \o Promise!Without(i) = Fronted(n, Changed(Follow, i, Follow[i]), i)
      <4>1. Follow[i] \in Item /\ i \in 1..Len(Follow)
        <5>1. Follow \in [1..n -> Item]
          BY <2>4
        <5> QED BY <2>4, <5>1
      <4> QED BY ZenonT(60), <2>4, <4>1, FrontIs DEF Promise!Without
    <3>2. Changed(Follow, i, Follow[i]) = F
      BY <2>4 DEF Changed
    <3>3. Promise!Get(k)
      BY <1>0, <2>1, <2>2, <2>3, <2>4, <2>7, <3>1, <3>2 DEF Promise!Get
    <3> QED BY <3>3 DEF Promise!Next
  <2> QED BY <2>3, <2>5, <2>6, <2>7, GoodStep
<1> QED BY <1>1, <1>2

\* A new key goes to the head; it evicts the tail when the map is full.
LEMMA InsertNewStep ==
  ASSUME TypeInv, NEW n \in Nat, NEW s \in [1..n -> Node], Chain(n, s),
         NEW k \in Key, NEW v \in Val, InsertNew(k, v)
  PROVE  Good
<1> DEFINE F == Items(list, n, s)
           pair == Promise!Pair(k, v)
<1>1. /\ list \in Lists /\ map \in [Key -> Ends] /\ Held(list, map, live, n, s) /\ live \subseteq Node
      /\ maxSize \in Nat /\ maxSize >= 2 /\ maxSize' = maxSize /\ result' = Null
  BY LruAssumption DEF TypeInv, Chain, InsertNew
<1>2. n > 0 /\ list.tl = s[n] /\ n \in 1..n /\ map[k] = Null /\ Promise!At(k) = {}
  BY ChainFacts DEF InsertNew
<1>3. Size = n /\ Follow = F /\ Follow \in Seq(Item) /\ Len(Follow) = n /\ Follow # <<>>
  <2>1. Size = n /\ Follow = F
    BY FollowIs
  <2>2. Follow \in Seq(Item) /\ Len(Follow) = n
    BY ChainFacts
  <2> QED BY <1>2, <2>1, <2>2
<1>4. pair \in Item /\ Promise!Pair(k, v) = pair
  BY DEF Item, Promise!Pair
<1> HIDE DEF pair
\* The node x pushed on the list l of r nodes t.
<1>5. ASSUME NEW l \in Lists, NEW m \in [Key -> Ends], NEW used \in SUBSET Node, NEW r \in Nat,
             NEW t \in [1..r -> Node], r > 0, Held(l, m, used, r, t), m[k] = Null,
             NEW x \in Node, x \notin used,
             list' = PushFront(l, x, k, v), map' = Changed(m, k, x), live' = used \cup {x},
             r + 1 > n => r + 1 <= maxSize,
             Follow' = Pushed(r, Items(l, r, t), pair) => Promise!Next
      PROVE  Good
  <2> DEFINE u == Pushed(r, t, x)
             q == r + 1
  <2>0. q \in Nat /\ q = r + 1
    OBVIOUS
  <2> HIDE DEF q
  <2>1. /\ PushFront(l, x, k, v) \in Lists /\ u \in [1..q -> Node]
        /\ Held(PushFront(l, x, k, v), Changed(m, k, x), used \cup {x}, q, u)
    BY <1>5, <2>0, HeldPush
  <2>2. Items(PushFront(l, x, k, v), q, u) = Pushed(r, Items(l, r, t), pair)
    BY <1>5, <2>0, <2>1, HeldPush DEF pair
  <2> HIDE DEF u
  <2>3. TypeInv'
    BY <1>1, <1>5, <2>1 DEF TypeInv, Ends, Changed
  <2>4. Chain(q, u)'
    BY <1>5, <2>1 DEF Chain
  <2>5. q > n => q <= maxSize
    BY <1>1, <1>5, <2>0
  <2>6. Follow' = Items(list', q, u) => Promise!Next
    BY <1>5, <2>2
  <2> QED BY <2>0, <2>1, <2>3, <2>4, <2>5, <2>6, GoodStep
<1>6. CASE ~Full
  <2>1. n < maxSize
    BY <1>1, <1>3, <1>6 DEF Full
  <2>2. Delete(list, {}) = list
    <3>1. list.node = [y \in Node |-> list.node[y]]
      BY <1>1 DEF Lists
    <3>2. Delete(list, {}) = [list EXCEPT !.node = [y \in Node |-> list.node[y]]]
      BY DEF Delete
    <3>3. [list EXCEPT !.node = list.node] = list
      BY <1>1 DEF Lists
    <3> QED BY <3>1, <3>2, <3>3
  <2>3. PICK x \in Node \ live :
          list' = PushFront(list, x, k, v) /\ map' = Changed(map, k, x) /\ live' = live \cup {x}
    <3>1. live \ live = {}
      OBVIOUS
    <3> QED BY <1>6, <2>2, <3>1 DEF InsertNew, Changed
  <2>4. ASSUME Follow' = Pushed(n, F, pair)
        PROVE  Promise!Next
    <3>1. Follow' = <<pair>> \o Follow
      <4>1. <<pair>> \o Follow = Pushed(Len(Follow), Follow, pair)
        BY <1>3, <1>4, ConsIs
      <4> QED BY <1>3, <2>4, <4>1
    <3>2. Promise!Insert(k, v)
      BY <1>1, <1>2, <1>3, <1>4, <2>1, <3>1 DEF Promise!Insert
    <3> QED BY <3>2 DEF Promise!Next
  <2>5. n + 1 > n => n + 1 <= maxSize
    BY <1>1, <2>1
  <2> QED BY <1>1, <1>2, <1>5, <2>3, <2>4, <2>5
<1>7. CASE Full
  <2> DEFINE tail == s[n]
             l == Delete(CutTail(list), {tail})
             used == Less(live, tail)
             m == Changed(map, list.node[tail].key, Null)
             t == Removed(n, s, n)
             r == n - 1
  <2>1. n >= maxSize /\ n > 1 /\ tail \in live /\ r > 0 /\ r = n - 1 /\ r \in Nat /\ r < n /\ r + 1 >= n
    <3>1. tail \in live
      BY <1>2, ChainFacts
    <3> QED BY <1>1, <1>3, <1>7, <3>1 DEF Full
  <2>2. /\ CutTail(list) \in Lists /\ Linked(CutTail(list), r, t)
        /\ \A y \in Node : /\ CutTail(list).node[y].key = list.node[y].key
                           /\ CutTail(list).node[y].val = list.node[y].val
    <3>1. Distinct(n, s) /\ Linked(list, n, s)
      BY <1>1 DEF Held
    <3> QED BY <1>1, <2>1, <3>1, TailCut
  <2> HIDE DEF r
  <2>3. /\ l \in Lists /\ t \in [1..r -> Node]
        /\ Held(l, m, used, r, t)
        /\ Items(l, r, t) = Removed(n, F, n)
    <3>1. t \in [1..r -> Node] /\ \A j \in 1..r : t[j] \notin {tail}
      BY <1>1, <1>2, <2>1 DEF Removed, Held, Distinct
    <3> HIDE DEF t
    <3>2. /\ l \in Lists /\ Linked(l, r, t)
          /\ \A y \in Node \ {tail} : l.node[y] = CutTail(list).node[y]
      BY <2>1, <2>2, <3>1, DeleteLinked
    <3> HIDE DEF l
    <3>3. \A y \in Node : y # s[n] => l.node[y].key = list.node[y].key /\ l.node[y].val = list.node[y].val
      BY <2>2, <3>2
    <3>4. m \in [Key -> Ends] /\ \A q \in Key : m[q] = IF q = list.node[s[n]].key THEN Null ELSE map[q]
      BY <1>1 DEF Ends, Changed
    <3>5. \A y : y \in used <=> y \in live /\ y # s[n]
      BY DEF Less
    <3> HIDE DEF m, used
    <3>6. CutOut(list, map, live, n, s, n, l, m, used, r)
      BY <1>1, <1>2, <2>1, <3>2, <3>3, <3>4, <3>5 DEF CutOut, t
    <3>7. Held(l, m, used, r, t) /\ Items(l, r, t) = Removed(n, F, n)
      BY <3>6, HeldCut DEF t
    <3> QED BY <3>1, <3>2, <3>7
  <2>4. PICK x \in Node \ used :
          list' = PushFront(l, x, k, v) /\ map' = Changed(m, k, x) /\ live' = used \cup {x}
    <3>1. live \ used = {tail} /\ used = live \ {tail}
      BY <2>1 DEF Less
    <3> QED BY <1>2, <1>7, <3>1 DEF InsertNew, Changed
  <2>5. m \in [Key -> Ends] /\ m[k] = Null /\ used \in SUBSET Node
    BY <1>1, <1>2 DEF Ends, Changed, Less
  <2> HIDE DEF l, m, t, tail, used
  <2>6. ASSUME Follow' = Pushed(r, Removed(n, F, n), pair)
        PROVE  Promise!Next
    <3>1. Follow' = <<pair>> \o Promise!Without(Len(Follow))
      <4> DEFINE c == Removed(n, F, n)
      <4>1. Promise!Without(Len(Follow)) = c /\ c \in Seq(Item) /\ Len(c) = r
        <5>1. n \in 1..Len(Follow)
          BY <1>2, <1>3
        <5> QED BY <1>3, <2>1, <5>1, CutIs DEF Promise!Without
      <4> HIDE DEF c
      <4>2. <<pair>> \o c = Pushed(Len(c), c, pair)
        BY <1>4, <4>1, ConsIs
      <4> QED BY <2>6, <4>1, <4>2 DEF c
    <3>2. Promise!Insert(k, v)
      BY <1>1, <1>2, <1>3, <1>4, <2>1, <3>1 DEF Promise!Insert
    <3> QED BY <3>2 DEF Promise!Next
  <2>7. r + 1 > n => r + 1 <= maxSize
    BY <2>1
  <2> QED BY <1>5, <2>1, <2>3, <2>4, <2>5, <2>6, <2>7
<1> QED BY <1>6, <1>7

\* A node is cut out wherever it is.
LEMMA EraseStep ==
  ASSUME TypeInv, NEW n \in Nat, NEW s \in [1..n -> Node], Chain(n, s), NEW k \in Key, Erase(k)
  PROVE  Good
<1>1. /\ list \in Lists /\ map \in [Key -> Ends] /\ Held(list, map, live, n, s)
      /\ live \subseteq Node /\ maxSize' = maxSize /\ result' = Null
  BY DEF TypeInv, Chain, Erase
<1>2. CASE map[k] = Null
  <2>1. list' = list /\ map' = map /\ live' = live
    BY <1>2 DEF Erase
  <2>2. TypeInv' /\ Chain(n, s)'
    BY <1>1, <2>1 DEF TypeInv, Chain
  <2>3. ASSUME Follow' = Items(list', n, s)
        PROVE  Promise!Next
    <3>1. Follow' = Follow
      BY <2>1, <2>3, FollowIs
    <3>2. Promise!At(k) = {}
      BY <1>2, ChainFacts
    <3>3. Promise!Erase(k)
      BY <1>1, <3>1, <3>2 DEF Promise!Erase
    <3> QED BY <3>3 DEF Promise!Next
  <2> QED BY <2>2, <2>3, GoodStep
<1>3. CASE map[k] # Null
  <2>1. PICK i \in 1..n : s[i] = map[k] /\ list.node[s[i]].key = k /\ i \in Promise!At(k)
    BY <1>3, ChainFacts
  <2> DEFINE F == Items(list, n, s)
             t == Removed(n, s, i)
             r == n - 1
             L == IF s[i] = list.hd THEN CutHead(list)
                  ELSE IF s[i] = list.tl THEN CutTail(list) ELSE CutMiddle(list, s[i])
  <2>2. /\ L \in Lists /\ Linked(L, r, t)
        /\ \A y \in Node : L.node[y].key = list.node[y].key /\ L.node[y].val = list.node[y].val
    <3>1. Distinct(n, s) /\ Linked(list, n, s) /\ n > 0 /\ 1 \in 1..n /\ n \in 1..n
      BY <1>1 DEF Held
    <3>2. (s[i] = list.hd <=> i = 1) /\ (s[i] = list.tl <=> i = n)
      BY <3>1 DEF Linked, Distinct
    <3>3. CASE i = 1
      <4>1. L = CutHead(list)
        BY <3>2, <3>3
      <4> HIDE DEF L
      <4> QED BY <1>1, <3>1, <3>3, <4>1, HeadCut
    <3>4. CASE i # 1 /\ i = n
      <4>1. L = CutTail(list) /\ n > 1
        BY <3>2, <3>4
      <4> HIDE DEF L
      <4> QED BY <1>1, <3>1, <3>4, <4>1, TailCut
    <3>5. CASE i # 1 /\ i # n
      <4>1. L = CutMiddle(list, s[i]) /\ i \in 2..(n - 1)
        BY <3>2, <3>5
      <4> HIDE DEF L
      <4> QED BY <1>1, <3>1, <4>1, MiddleCut
    <3> QED BY <3>3, <3>4, <3>5
  <2>3. list' = Delete(L, {s[i]}) /\ map' = Changed(map, k, Null) /\ live' = live \ {s[i]}
    BY <1>3, <2>1 DEF Erase, Changed
  <2>0. r = n - 1 /\ r \in Nat /\ r < n /\ r + 1 >= n
    OBVIOUS
  <2> HIDE DEF L, r
  <2>4. /\ list' \in Lists /\ t \in [1..r -> Node]
        /\ Held(list', map', live', r, t)
        /\ Items(list', r, t) = Removed(n, F, i)
    <3>1. t \in [1..r -> Node] /\ \A j \in 1..r : t[j] \notin {s[i]}
      BY <1>1, <2>0 DEF Removed, Held, Distinct
    <3> HIDE DEF t
    <3>2. /\ list' \in Lists /\ Linked(list', r, t)
          /\ \A y \in Node \ {s[i]} : list'.node[y] = L.node[y]
      BY <2>0, <2>2, <2>3, <3>1, DeleteLinked
    <3>3. \A y \in Node : y # s[i] => list'.node[y].key = list.node[y].key /\ list'.node[y].val = list.node[y].val
      BY <2>2, <3>2
    <3>4. map' \in [Key -> Ends] /\ \A q \in Key : map'[q] = IF q = list.node[s[i]].key THEN Null ELSE map[q]
      BY <1>1, <2>1, <2>3 DEF Ends, Changed
    <3>5. \A y : y \in live' <=> y \in live /\ y # s[i]
      BY <2>3
    <3>6. CutOut(list, map, live, n, s, i, list', map', live', r)
      BY <1>1, <2>0, <3>2, <3>3, <3>4, <3>5 DEF CutOut, t
    <3>7. Held(list', map', live', r, t) /\ Items(list', r, t) = Removed(n, F, i)
      BY <3>6, HeldCut DEF t
    <3> QED BY <3>1, <3>2, <3>7
  <2>5. TypeInv'
    BY <1>1, <2>3, <2>4 DEF TypeInv, Ends, Changed
  <2>6. Chain(r, t)'
    BY <2>4 DEF Chain
  <2> HIDE DEF t
  <2>7. ASSUME Follow' = Items(list', r, t)
        PROVE  Promise!Next
    <3>1. Follow = F /\ Follow \in Seq(Item) /\ Len(Follow) = n
      <4>1. Follow = F
        BY FollowIs
      <4>2. Follow \in Seq(Item) /\ Len(Follow) = n
        BY ChainFacts
      <4> QED BY <4>1, <4>2
    <3> HIDE DEF F
    <3>2. Promise!Without(i) = Removed(n, F, i)
      <4>1. i \in 1..Len(Follow)
        BY <3>1
      <4> QED BY <3>1, <4>1, CutIs DEF Promise!Without
    <3>3. Promise!Erase(k)
      BY <1>1, <2>1, <2>4, <2>7, <3>2 DEF Promise!Erase
    <3> QED BY <3>3 DEF Promise!Next
  <2> QED BY <2>0, <2>4, <2>5, <2>6, <2>7, GoodStep
<1> QED BY <1>2, <1>3

\* Nothing is left.
LEMMA ClearStep ==
  ASSUME TypeInv, NEW n \in Nat, NEW s \in [1..n -> Node], Chain(n, s), Clear
  PROVE  Good
<1> DEFINE t == [j \in 1..0 |-> Null]
<1>1. t \in [1..0 -> Node]
  OBVIOUS
<1>2. /\ list \in Lists /\ map' = [k \in Key |-> Null] /\ live' = {} /\ result' = Null /\ maxSize' = maxSize
      /\ list' = [Delete(list, live) EXCEPT !.hd = Null, !.tl = Null]
  BY DEF Clear, TypeInv
<1>3. list' \in Lists /\ list'.hd = Null
  <2>1. Delete(list, live) \in Lists
    BY <1>2 DEF Delete, Blank, Fresh, Lists, Fields, Ends
  <2> QED BY <1>2, <2>1 DEF Lists, Ends
<1>4. TypeInv'
  BY <1>2, <1>3 DEF TypeInv, Ends
<1> HIDE DEF t
<1>5. Chain(0, t)'
  <2>1. Distinct(0, t) /\ Linked(list', 0, t) /\ Mapped(list', map', 0, t)
    BY <1>2, <1>3 DEF Distinct, Linked, Mapped
  <2>2. live' = {t[i] : i \in 1..0}
    BY <1>2
  <2> QED BY <2>1, <2>2 DEF Chain, Held
<1>6. ASSUME Follow' = Items(list', 0, t)
      PROVE  Promise!Next
  <2>1. Follow' \in [1..0 -> Item]
    BY <1>6 DEF Items
  <2>2. Follow' = <<>>
    BY <2>1
  <2> QED BY <1>2, <2>2 DEF Promise!Next, Promise!Clear
<1> DEFINE none == 0
<1>7. none \in Nat /\ (none > n => none <= maxSize) /\ none = 0
  OBVIOUS
<1> HIDE DEF none
<1>8. t \in [1..none -> Node] /\ Chain(none, t)' /\ (Follow' = Items(list', none, t) => Promise!Next)
  BY <1>1, <1>5, <1>6, <1>7
<1> QED BY <1>4, <1>7, <1>8, GoodStep

\* The list stays, whatever the new size.
LEMMA SetMaxSizeStep ==
  ASSUME TypeInv, NEW n \in Nat, NEW s \in [1..n -> Node], Chain(n, s), NEW size \in Sizes, SetMaxSize(size)
  PROVE  Good
<1>1. list' = list /\ map' = map /\ live' = live /\ result' = Null /\ maxSize' = size
  BY DEF SetMaxSize
<1>2. TypeInv' /\ Chain(n, s)'
  BY <1>1 DEF TypeInv, Chain
<1>3. ASSUME Follow' = Items(list', n, s)
      PROVE  Promise!Next
  <2>1. Follow' = Follow
    BY <1>1, <1>3, FollowIs
  <2> QED BY <1>1, <2>1 DEF Promise!Next, Promise!SetMaxSize
<1> QED BY <1>2, <1>3, GoodStep

\* The empty list.
LEMMA InitGood ==
  ASSUME Init
  PROVE  IInv /\ Promise!Init
<1> DEFINE t == [j \in 1..0 |-> Null]
<1>1. TypeInv
  BY DEF Init, TypeInv, Lists, Fields, Ends, Blank, Fresh
<1>2. t \in [1..0 -> Node]
  OBVIOUS
<1> HIDE DEF t
<1>3. Chain(0, t)
  <2>1. Distinct(0, t) /\ Linked(list, 0, t) /\ Mapped(list, map, 0, t)
    BY DEF Init, Distinct, Linked, Mapped
  <2>2. live = {t[i] : i \in 1..0}
    BY DEF Init
  <2> QED BY <2>1, <2>2 DEF Chain, Held
<1>4. Follow = <<>>
  <2> DEFINE none == 0
  <2>1. none \in Nat /\ none = 0
    OBVIOUS
  <2> HIDE DEF none
  <2>2. t \in [1..none -> Node] /\ Chain(none, t)
    BY <1>2, <1>3, <2>1
  <2>3. Follow = Items(list, none, t)
    BY <1>1, <2>1, <2>2, FollowIs
  <2>4. Follow \in [1..0 -> Item]
    BY <2>1, <2>3 DEF Items
  <2> QED BY <2>4
<1> QED BY <1>1, <1>2, <1>3, <1>4 DEF IInv, ListInv, Init, Promise!Init

\* Every step is good.
LEMMA StepGood ==
  ASSUME IInv, [Next]_vars
  PROVE  Good
<1>1. PICK n \in Nat : \E s \in [1..n -> Node] : Chain(n, s)
  BY DEF IInv, ListInv
<1>2. PICK s \in [1..n -> Node] : Chain(n, s)
  BY <1>1
<1>3. TypeInv
  BY DEF IInv
<1>4. ASSUME NEW k \in Key, NEW v \in Val, InsertFirst(k, v)
      PROVE  Good
  BY <1>2, <1>3, <1>4, InsertFirstStep
<1>5. ASSUME NEW k \in Key, NEW v \in Val, InsertAgain(k, v)
      PROVE  Good
  BY <1>2, <1>3, <1>5, InsertAgainStep
<1>6. ASSUME NEW k \in Key, NEW v \in Val, InsertNew(k, v)
      PROVE  Good
  BY <1>2, <1>3, <1>6, InsertNewStep
<1>7. ASSUME NEW k \in Key, Get(k)
      PROVE  Good
  BY <1>2, <1>3, <1>7, GetStep
<1>8. ASSUME NEW k \in Key, Erase(k)
      PROVE  Good
  BY <1>2, <1>3, <1>8, EraseStep
<1>9. CASE Clear
  BY <1>2, <1>3, <1>9, ClearStep
<1>10. ASSUME NEW size \in Sizes, SetMaxSize(size)
       PROVE  Good
  BY <1>2, <1>3, <1>10, SetMaxSizeStep
<1>11. CASE UNCHANGED vars
  <2>1. list' = list /\ map' = map /\ live' = live /\ maxSize' = maxSize /\ result' = result
    BY <1>11 DEF vars
  <2>2. IInv'
    BY <2>1, <1>2, <1>3 DEF IInv, TypeInv, ListInv, Chain
  <2>3. Size' = Size
    BY <2>1 DEF Size
  <2>4. Follow' = Follow
    BY <2>1, <2>3 DEF Follow
  <2>5. Size = n
    BY <1>2, <1>3, FollowIs
  <2> QED BY <2>1, <2>2, <2>3, <2>4, <2>5 DEF Good, Promise!vars
<1> QED BY <1>4, <1>5, <1>6, <1>7, <1>8, <1>9, <1>10, <1>11 DEF Next

-----------------------------------------------------------------------------
(* The results *)

\* The heap is one list: its pointers lead to and fro through all the nodes
\* allocated and no other, each once, and the map holds each under its key.
THEOREM LruInvariant == Spec => []IInv
<1>1. Init => IInv
  BY InitGood
<1>2. IInv /\ [Next]_vars => IInv'
  BY StepGood DEF Good
<1> QED BY <1>1, <1>2, PTL DEF Spec

\* No operation of the cache follows a pointer to a node that was deleted.
THEOREM LruNoBadPointer == Spec => []NoBadPointer
<1>1. ASSUME IInv
      PROVE  NoBadPointer
  <2>1. PICK n \in Nat : \E s \in [1..n -> Node] : Chain(n, s)
    BY <1>1 DEF IInv, ListInv
  <2>2. PICK s \in [1..n -> Node] : Chain(n, s)
    BY <2>1
  <2>3. TypeInv /\ Linked(list, n, s) /\ Distinct(n, s)
    BY <1>1, <2>2 DEF IInv, Chain, Held
  <2>4. \A i \in 1..n : s[i] \in live
    BY <2>2 DEF Chain, Held
  <2>5. ASSUME list.hd # Null
        PROVE  n > 0 /\ list.tl = s[n] /\ n \in 1..n
    BY <2>3, <2>5 DEF Linked
  <2>6. ASSUME list.hd # Null, Full
        PROVE  list.node[list.tl].prev \in live
    <3>1. n >= maxSize /\ maxSize >= 2 /\ maxSize \in Nat
      BY <2>2, <2>3, <2>6, FollowIs, LruAssumption DEF Full, TypeInv
    <3>2. list.node[s[n]].prev = s[n - 1] /\ n - 1 \in 1..n
      BY <2>3, <3>1 DEF Linked
    <3> QED BY <2>4, <2>5, <2>6, <3>2
  <2>7. ASSUME NEW k \in Key, map[k] # Null
        PROVE  /\ map[k] \in live /\ list.hd \in live
               /\ map[k] # list.hd => list.node[map[k]].prev \in live
               /\ map[k] \notin {list.hd, list.tl} => list.node[map[k]].next \in live
    <3>1. PICK i \in 1..n : s[i] = map[k]
      BY <2>2, <2>7 DEF Chain, Held, Mapped
    <3>2. list.hd = s[1] /\ list.tl = s[n] /\ 1 \in 1..n
      BY <2>3 DEF Linked
    <3>3. s[i] # list.hd => list.node[s[i]].prev = s[i - 1] /\ i - 1 \in 1..n
      BY <2>3, <3>2 DEF Linked
    <3>4. s[i] # list.tl => list.node[s[i]].next = s[i + 1] /\ i + 1 \in 1..n
      BY <2>3, <3>2 DEF Linked
    <3> QED BY <2>4, <3>1, <3>2, <3>3, <3>4
  <2> QED BY <2>4, <2>5, <2>6, <2>7 DEF NoBadPointer
<1> QED BY <1>1, LruInvariant, PTL

\* The map leads to every node that was not deleted, under the key it has.
THEOREM LruNothingLeaks == Spec => []NothingLeaks
<1>1. ASSUME IInv
      PROVE  NothingLeaks
  <2>1. PICK n \in Nat : \E s \in [1..n -> Node] : Chain(n, s)
    BY <1>1 DEF IInv, ListInv
  <2>2. PICK s \in [1..n -> Node] : Chain(n, s)
    BY <2>1
  <2>4. \A i \in 1..n : /\ s[i] \in live /\ s[i] # Null /\ list.node[s[i]].key \in Key
                        /\ map[list.node[s[i]].key] = s[i]
    BY <2>2, LruAssumption DEF Chain, Held, Mapped
  <2>5. \A x \in live : \E i \in 1..n : s[i] = x
    BY <2>2 DEF Chain, Held
  <2>6. \A k \in Key : map[k] # Null => \E i \in 1..n : s[i] = map[k] /\ list.node[s[i]].key = k
    BY <2>2 DEF Chain, Held, Mapped
  <2>7. live = {map[k] : k \in Key} \ {Null}
    <3>1. ASSUME NEW x \in live
          PROVE  x # Null /\ \E k \in Key : map[k] = x
      BY <2>4, <2>5
    <3>2. ASSUME NEW k \in Key, map[k] # Null
          PROVE  map[k] \in live
      BY <2>4, <2>6, <3>2
    <3> QED BY <3>1, <3>2
  <2>8. \A k \in Key : map[k] # Null => list.node[map[k]].key = k
    BY <2>6
  <2> QED BY <2>7, <2>8 DEF NothingLeaks
<1> QED BY <1>1, LruInvariant, PTL

\* A step that makes the map larger leaves it no larger than maxSize.
THEOREM LruGrowsToMax == Spec => GrowsToMax
<1>1. IInv /\ [Next]_vars => [Size' > Size => Size' <= maxSize]_vars
  BY StepGood DEF Good
<1> QED BY <1>1, LruInvariant, PTL DEF Spec, GrowsToMax

\* The cache implements Lru: what the pointers lead to is a list of keys and
\* values in the order of their last use.
THEOREM LruImplements == Spec => IsLru
<1>1. Init => Promise!Init
  BY InitGood
<1>2. IInv /\ [Next]_vars => [Promise!Next]_(Promise!vars)
  BY StepGood DEF Good
<1> QED BY <1>1, <1>2, LruInvariant, PTL DEF Spec, IsLru, Promise!Spec
=============================================================================
