--------------------------- MODULE DispatchProofs ---------------------------
(***************************************************************************)
(* Proofs about Dispatch, for every set of workers and of objects.         *)
(***************************************************************************)
EXTENDS Dispatch, SequenceTheorems, TLAPS

-----------------------------------------------------------------------------
(* The steps of a worker *)

Versions == 0..(1 + MaxEvents)

WriteOps == {"insert", "insertGuildUser", "insertGuildChannel", "removeGuildChannel",
             "insertGuildRole", "removeGuildRole", "storeGuildChannels", "storeGuildRoles"}
ItemOps == {"get", "fetchItem"}
UserOps == {"getGuildUser", "readGuildUser", "fetchGuildUser"}
RoleOps == {"getGuildRole", "readGuildRole", "fetchGuildRole"}
WholeOps == {"getCurrentUser", "getGuildChannels", "fetchGuildChannels",
             "getGuildRoles", "readGuildRoles", "fetchGuildRoles"}
RouteOps == {"route", "handler"}
TellOps == {"becomeReady", "awaitReady", "deleted", "forget", "callback", "unshare"}

(* What a worker will write after it has asked for it.                     *)
AskOps == ItemOps \union UserOps \union RoleOps \union WholeOps
              \union {"readGuildChannels", "callback", "created", "deleted"}

ItemSlots == {s \in Slots : s[1] \in {"guild", "channel", "user", "@me"}}

SlotsOfRoles == {s \in Slots : s[1] \in {"role", "roles"}}

(* No slot is written twice, and the current user is not forgotten.        *)
Newses == {news \in SUBSET (Slots \X Versions) :
              /\ \A m, n \in news : m[1] = n[1] => m = n
              /\ \A n \in news : n[1][1] = "current" => n[2] # 0}

Steps ==
    [op : WriteOps, news : Newses]
    \union [op : ItemOps, x : ItemSlots, force : BOOLEAN]
    \union [op : UserOps \union RouteOps, x : Users, force : BOOLEAN]
    \union [op : RoleOps, x : Roles, force : BOOLEAN]
    \union [op : WholeOps, x : {Guild, Me}, force : BOOLEAN]
    \union [op : {"readGuildChannels"}, x : SUBSET Channels, force : BOOLEAN]
    \union [op : {"unlock"}, x : Mutexes, force : BOOLEAN]
    \union [op : TellOps]
    \union [op : {"announce", "created"}, listed : BOOLEAN]
    \union [op : {"ifRegistered"}, misses : SUBSET SlotsOfRoles]

NewsOf(step) == IF "news" \in DOMAIN step THEN step.news ELSE {}

(* The length that a step may grow to.                                     *)
Weight(op) ==
    IF op \in {"created", "deleted"} THEN 4
    ELSE IF op \in {"callback", "getGuildUser", "readGuildUser"} THEN 3
    ELSE IF op \in {"get", "fetchItem", "getCurrentUser", "fetchGuildUser", "getGuildRoles", "readGuildRoles"} THEN 2
    ELSE 1

(* What is true of every sequence of steps: a slot is written by one of    *)
(* them; nothing is written after what is asked for; the look for a        *)
(* callback is the first step, and no lock is given back after it; what    *)
(* becomes of a guild is the last.                                         *)
Apart(q) == \A i, j \in 1..Len(q) : i # j =>
                \A m \in NewsOf(q[i]), n \in NewsOf(q[j]) : m[1] # n[1]
AsksLast(q) == \A i, j \in 1..Len(q) : i < j /\ q[i].op \in AskOps => NewsOf(q[j]) = {}
LooksFirst(q) == \A i \in 1..Len(q) : q[i].op = "ifRegistered" =>
                     /\ i = 1
                     /\ \A j \in 1..Len(q) : q[j].op \notin {"unlock", "unshare", "storeGuildChannels"} \union GuildOps
TellsLast(q) == \A i \in 1..Len(q) : q[i].op \in {"created", "deleted"} => i = Len(q)
Short(q) == \A i \in 1..Len(q) : Weight(q[i].op) + Len(q) - i <= 4

Good(q) == q \in Seq(Steps) /\ Apart(q) /\ AsksLast(q) /\ LooksFirst(q) /\ TellsLast(q) /\ Short(q)

TypeInv ==
    /\ events \in 0..MaxEvents
    /\ world \in [Objects -> [v : 1..(1 + events), live : BOOLEAN]]
    /\ world[Me].live
    /\ cache \in [Slots -> Versions]
    /\ owner \in [Mutexes -> Workers \union {NoOne}]
    /\ todo \in [Workers -> Seq(Steps)]
    /\ {known, unavailable, registered, overlap, reported, crashed, astray} \subseteq BOOLEAN /\ owed \in Debts
    /\ made \in 1..(1 + events)
    /\ table \in [Kinds -> 0..made \union {Null}]
    /\ routes \in [Workers -> [kind : Kinds, meant : 0..made \union {Null}, changed : BOOLEAN]]
    /\ crossed \subseteq Slots /\ fetched \subseteq Lists /\ readers \subseteq Workers
    /\ gateway \in {"UNAUTHENTICATED", "AUTHENTICATION_SENT", "READY"}
    /\ session \in 0..MaxSessions /\ calls \in 0..MaxCalls

GoodInv == \A w \in Workers : Good(todo[w])

-----------------------------------------------------------------------------
(* Caches *)

Brings(q, s, v) == \E i \in 1..Len(q) : <<s, v>> \in NewsOf(q[i])
(* The worker will not turn away without crossing the slot out.            *)
Sure(q, s) == \A i \in 1..Len(q) : q[i].op = "ifRegistered" => s \in q[i].misses
Coming(s) == \E w \in Workers : \E v \in Versions : Brings(todo[w], s, v) /\ Right(s, v) /\ Sure(todo[w], s)

StoreOp(list) == IF list = "channels" THEN "storeGuildChannels" ELSE "storeGuildRoles"
Told(list) == list \in fetched \/ \E w \in Workers : Has(todo[w], StoreOp(list))
Needed(s) == IF s[1] \in Lists THEN Told(s[1]) \/ cache[s] = 1 ELSE TRUE

Mistaken(s) == \E w \in Workers : \E v \in Versions : Brings(todo[w], s, v) /\ ~Right(s, v)
SlotInv(s) == s \in crossed \/ Coming(s) \/ (~Mistaken(s) /\ (Needed(s) => Right(s, cache[s])))

AtMe == <<"@me", Me>>
Current == <<"current", Me>>
MeInv == cache[Current] # 0 \/ Coming(Current) \/ (~Mistaken(AtMe) /\ Right(AtMe, cache[AtMe]))

CacheInv == (\A s \in Slots \ {AtMe} : SlotInv(s)) /\ MeInv

-----------------------------------------------------------------------------
(* Guilds *)

Listed(q) == \E i \in 1..Len(q) : q[i].op = "created" /\ q[i].listed
Lists1(q) == \E i \in 1..Len(q) : q[i].op = "announce" /\ q[i].listed
Pending == owed = "listed" \/ \E w \in Workers : Listed(todo[w])
(* The guilds are announced once, and the shard becomes ready after it.    *)
Announces(q) == \A i, j \in 1..Len(q) :
    q[i].op = "announce" /\ q[j].op \in {"announce", "becomeReady"} => i <= j
Before(q, a, b) == \A j \in 1..Len(q) : q[j].op = b => \E i \in 1..Len(q) : i < j /\ q[i].op = a

SilentInv ==
    overlap \/
    /\ ~reported
    /\ \A w \in Workers : Listed(todo[w]) => owed = "no" /\ \A o \in Workers : Has(todo[o], "created") => o = w
    /\ owed = "listed" => \A w \in Workers : ~Has(todo[w], "created")
    /\ Pending => world[Guild].live /\ \A w \in Workers : ~Has(todo[w], "deleted") /\ ~Has(todo[w], "forget")
    /\ Pending => unavailable \/ \E w \in Workers : Lists1(todo[w])
    /\ \A w \in Workers : Has(todo[w], "announce") =>
          /\ gateway = "AUTHENTICATION_SENT"
          /\ Announces(todo[w])
          /\ \A o \in Workers : Has(todo[o], "becomeReady") => o = w
          /\ \A o \in Workers : Listed(todo[o]) => Before(todo[o], "awaitReady", "created")

-----------------------------------------------------------------------------
(* Interactions *)

(* One interaction at a time.                                             *)
RoutesOnce(q) == \A i, j \in 1..Len(q) : q[i].op \in RouteOps /\ q[j].op \in RouteOps => i = j
Handles(w) == Has(todo[w], "route") \/ Has(todo[w], "handler")
ArriveInv ==
    /\ ~astray
    /\ \A w \in Workers : RoutesOnce(todo[w])
    /\ ~crashed =>
          /\ \A kind \in Kinds : table[kind] # Null
          /\ \A w \in Workers : Handles(w) =>
                LET r == routes[w]
                IN /\ r.kind = "command" /\ ~r.changed =>
                          r.meant = table["command"] /\ (Has(todo[w], "handler") => r.meant # None)
                   /\ r.kind = "component" /\ r.meant # None => r.meant = table["component"]

DispatchInv == TypeInv /\ GoodInv /\ LockInv /\ CacheInv /\ SilentInv /\ ArriveInv

-----------------------------------------------------------------------------
(* Kinds of objects, steps and what they write                             *)

\* The kinds of objects are disjoint.
LEMMA Kinds5 ==
  /\ NoOne \notin Workers /\ Guild # Me
  /\ Guild \notin Channels \union Threads \union Roles \union Users
  /\ Me \notin Channels \union Threads \union Roles \union Users
  /\ Channels \cap Threads = {} /\ Channels \cap Roles = {} /\ Channels \cap Users = {}
  /\ Threads \cap Roles = {} /\ Threads \cap Users = {} /\ Roles \cap Users = {}
<1> DEFINE kinds == <<{Guild, Me}, Channels, Threads, Roles, Users>>
<1>1. /\ NoOne \notin Workers /\ Guild # Me
      /\ \A i, j \in 1..5 : i # j => kinds[i] \cap kinds[j] = {}
  BY GuildAssumption DEF GuildAssumption
<1>2. /\ kinds[1] = {Guild, Me} /\ kinds[2] = Channels /\ kinds[3] = Threads /\ kinds[4] = Roles /\ kinds[5] = Users
  OBVIOUS
<1> HIDE DEF kinds
<1>3. /\ kinds[1] \cap kinds[2] = {} /\ kinds[1] \cap kinds[3] = {} /\ kinds[1] \cap kinds[4] = {} /\ kinds[1] \cap kinds[5] = {}
      /\ kinds[2] \cap kinds[3] = {} /\ kinds[2] \cap kinds[4] = {} /\ kinds[2] \cap kinds[5] = {}
      /\ kinds[3] \cap kinds[4] = {} /\ kinds[3] \cap kinds[5] = {} /\ kinds[4] \cap kinds[5] = {}
  BY <1>1
<1> QED BY <1>1, <1>2, <1>3

\* What a step carries, by its operation.
LEMMA StepOp ==
  ASSUME NEW t \in Steps
  PROVE  /\ t.op \in WriteOps => t.news \in Newses /\ NewsOf(t) = t.news
         /\ t.op \notin WriteOps => NewsOf(t) = {}
         /\ NewsOf(t) \in Newses
         /\ t.op \in ItemOps => t.x \in ItemSlots
         /\ t.op \in UserOps \union RouteOps => t.x \in Users
         /\ t.op \in RoleOps => t.x \in Roles
         /\ t.op = "readGuildChannels" => t.x \in SUBSET Channels
         /\ t.op = "unlock" => t.x \in Mutexes
         /\ t.op \in {"announce", "created"} => t.listed \in BOOLEAN
         /\ t.op = "ifRegistered" => t.misses \subseteq SlotsOfRoles
<1>1. {} \in Newses
  BY DEF Newses
<1>2. CASE t \in [op : WriteOps, news : Newses]
  BY <1>2 DEF NewsOf, WriteOps, ItemOps, UserOps, RouteOps, RoleOps
<1>3. CASE t \in [op : {"announce", "created"}, listed : BOOLEAN]
  BY <1>3, <1>1 DEF NewsOf, WriteOps, ItemOps, UserOps, RouteOps, RoleOps
<1>4. CASE t \in [op : ItemOps, x : ItemSlots, force : BOOLEAN]
  BY <1>4, <1>1 DEF NewsOf, WriteOps, ItemOps, UserOps, RouteOps, RoleOps
<1>5. CASE t \in [op : UserOps \union RouteOps, x : Users, force : BOOLEAN]
  BY <1>5, <1>1 DEF NewsOf, WriteOps, ItemOps, UserOps, RouteOps, RoleOps
<1>6. CASE t \in [op : RoleOps, x : Roles, force : BOOLEAN]
  BY <1>6, <1>1 DEF NewsOf, WriteOps, ItemOps, UserOps, RouteOps, RoleOps
<1>7. CASE t \in [op : WholeOps, x : {Guild, Me}, force : BOOLEAN]
  BY <1>7, <1>1 DEF NewsOf, WriteOps, ItemOps, UserOps, RouteOps, RoleOps, WholeOps
<1>8. CASE t \in [op : {"readGuildChannels"}, x : SUBSET Channels, force : BOOLEAN]
  BY <1>8, <1>1 DEF NewsOf, WriteOps, ItemOps, UserOps, RouteOps, RoleOps
<1>9. CASE t \in [op : {"unlock"}, x : Mutexes, force : BOOLEAN]
  BY <1>9, <1>1 DEF NewsOf, WriteOps, ItemOps, UserOps, RouteOps, RoleOps
<1>10. CASE t \in [op : TellOps]
  BY <1>10, <1>1 DEF NewsOf, WriteOps, ItemOps, UserOps, RouteOps, RoleOps, TellOps
<1>11. CASE t \in [op : {"ifRegistered"}, misses : SUBSET SlotsOfRoles]
  BY <1>11, <1>1 DEF NewsOf, WriteOps, ItemOps, UserOps, RouteOps, RoleOps
<1> QED BY <1>2, <1>3, <1>4, <1>5, <1>6, <1>7, <1>8, <1>9, <1>10, <1>11 DEF Steps

\* What a worker carries is the news of its steps.
LEMMA CarriesIs ==
  ASSUME TypeInv, NEW w \in Workers
  PROVE  \A n : n \in Carries(w) <=> \E i \in 1..Len(todo[w]) : n \in NewsOf(todo[w][i])
<1>1. DOMAIN todo[w] = 1..Len(todo[w])
  BY DEF TypeInv
<1> QED BY <1>1 DEF Carries, NewsOf

(* What may take the place of the step t.                                  *)
Fits(p, t) ==
    /\ p \in Seq(Steps) /\ Apart(p) /\ AsksLast(p)
    /\ \A k \in 1..Len(p) :
          /\ p[k].op \notin {"ifRegistered", "created", "deleted"}
          /\ Weight(p[k].op) + Len(p) - k <= Weight(t.op)
          /\ p[k].op \in AskOps => t.op \in AskOps
          /\ t.op \in AskOps \/ NewsOf(p[k]) \subseteq NewsOf(t)

\* The steps p before the rest of q.
LEMMA SplicedIs ==
  ASSUME NEW q \in Seq(Steps), q # <<>>, NEW p \in Seq(Steps)
  PROVE  LET r == p \o Tail(q) IN
         /\ r \in Seq(Steps) /\ Len(r) = Len(p) + Len(q) - 1
         /\ \A k \in 1..Len(p) : k \in 1..Len(r) /\ r[k] = p[k]
         /\ \A i \in 2..Len(q) : i - 1 + Len(p) \in 1..Len(r) /\ r[i - 1 + Len(p)] = q[i]
         /\ \A k \in 1..Len(r) : k \in 1..Len(p) \/ \E i \in 2..Len(q) : k = i - 1 + Len(p)
<1> DEFINE u == Tail(q)
           r == p \o u
<1>1. u \in Seq(Steps) /\ Len(u) = Len(q) - 1 /\ Len(q) >= 1 /\ \A i \in 1..Len(u) : u[i] = q[i + 1]
  BY HeadTailProperties
<1> HIDE DEF u
<1>2. r \in Seq(Steps) /\ Len(r) = Len(p) + Len(u) /\ \A k \in 1..(Len(p) + Len(u)) : r[k] = IF k <= Len(p) THEN p[k] ELSE u[k - Len(p)]
  BY <1>1, ConcatProperties
<1>0. Len(p) \in Nat /\ Len(q) \in Nat /\ Len(u) \in Nat
  BY <1>1
<1> HIDE DEF r
<1>3. ASSUME NEW k \in 1..Len(p) PROVE k \in 1..Len(r) /\ r[k] = p[k]
  <2>1. k \in 1..(Len(p) + Len(u)) /\ k <= Len(p)
    BY <1>0
  <2> QED BY <1>2, <2>1
<1>4. ASSUME NEW i \in 2..Len(q) PROVE i - 1 + Len(p) \in 1..Len(r) /\ r[i - 1 + Len(p)] = q[i]
  <2>1. i - 1 \in 1..Len(u) /\ u[i - 1] = q[i]
    BY <1>0, <1>1
  <2>2. /\ i - 1 + Len(p) \in 1..(Len(p) + Len(u)) /\ ~(i - 1 + Len(p) <= Len(p))
        /\ i - 1 + Len(p) - Len(p) = i - 1
    BY <1>0, <2>1
  <2> QED BY <1>2, <2>1, <2>2
<1>5. ASSUME NEW k \in 1..Len(r) PROVE k \in 1..Len(p) \/ \E i \in 2..Len(q) : k = i - 1 + Len(p)
  <2>1. CASE k > Len(p)
    <3>1. k - Len(p) + 1 \in 2..Len(q) /\ k = (k - Len(p) + 1) - 1 + Len(p)
      BY <1>0, <1>1, <1>2, <2>1
    <3> QED BY <3>1
  <2> QED BY <1>0, <2>1
<1> QED BY <1>0, <1>1, <1>2, <1>3, <1>4, <1>5 DEF r, u

\* A step replaced by what fits is as good as before.
LEMMA GoodSpliced ==
  ASSUME NEW q, Good(q), q # <<>>, NEW p, Fits(p, q[1])
  PROVE  Good(p \o Tail(q))
<1> DEFINE r == p \o Tail(q)
           a == Len(p)
           b == Len(q)
           c == Len(r)
<1>0. q \in Seq(Steps) /\ p \in Seq(Steps) /\ a \in Nat /\ b \in Nat /\ b >= 1
  BY DEF Good, Fits
<1>1. /\ r \in Seq(Steps) /\ c = a + b - 1
      /\ \A k \in 1..a : k \in 1..c /\ r[k] = p[k]
      /\ \A i \in 2..b : i - 1 + a \in 1..c /\ r[i - 1 + a] = q[i]
      /\ \A k \in 1..c : k \in 1..a \/ \E i \in 2..b : k = i - 1 + a
  BY <1>0, SplicedIs
<1>2. /\ \A i, j \in 1..b : i # j => \A m \in NewsOf(q[i]), n \in NewsOf(q[j]) : m[1] # n[1]
      /\ \A i, j \in 1..b : i < j /\ q[i].op \in AskOps => NewsOf(q[j]) = {}
      /\ \A i \in 1..b : q[i].op = "ifRegistered" => i = 1
      /\ \A i \in 1..b : q[i].op \in {"created", "deleted"} => i = b
      /\ \A i \in 1..b : Weight(q[i].op) + b - i <= 4
  BY DEF Good, Apart, AsksLast, LooksFirst, TellsLast, Short
<1>3. /\ \A i, j \in 1..a : i # j => \A m \in NewsOf(p[i]), n \in NewsOf(p[j]) : m[1] # n[1]
      /\ \A i, j \in 1..a : i < j /\ p[i].op \in AskOps => NewsOf(p[j]) = {}
      /\ \A k \in 1..a : p[k].op \notin {"ifRegistered", "created", "deleted"}
      /\ \A k \in 1..a : Weight(p[k].op) + a - k <= Weight(q[1].op)
      /\ \A k \in 1..a : p[k].op \in AskOps => q[1].op \in AskOps
      /\ \A k \in 1..a : q[1].op \in AskOps \/ NewsOf(p[k]) \subseteq NewsOf(q[1])
  BY DEF Fits, Apart, AsksLast
<1>4. \A op : Weight(op) \in 1..4
  BY DEF Weight
<1>5. c \in Nat
  BY <1>1
<1> HIDE DEF r, a, b, c
<1>6. 1 \in 1..b /\ \A i \in 2..b : i \in 1..b /\ i # 1 /\ 1 < i
  BY <1>0
<1>8. ASSUME NEW i \in 1..c, NEW j \in 1..c, i < j,
             NEW m \in NewsOf(r[i]), NEW n \in NewsOf(r[j])
      PROVE  m[1] # n[1]
  <2>1. CASE i \in 1..a /\ j \in 1..a
    BY <1>1, <1>3, <1>8, <2>1
  <2>2. ASSUME i \in 1..a, NEW y \in 2..b, j = y - 1 + a
        PROVE  m[1] # n[1]
    <3>1. r[i] = p[i] /\ r[j] = q[y]
      BY <1>1, <2>2
    <3>2. q[1].op \in AskOps => NewsOf(q[y]) = {}
      BY <1>2, <1>6
    <3>3. \A z \in NewsOf(q[1]) : z[1] # n[1]
      BY <1>2, <1>6, <3>1
    <3> QED BY <1>3, <2>2, <3>1, <3>2, <3>3
  <2>3. ASSUME NEW x \in 2..b, i = x - 1 + a, NEW y \in 2..b, j = y - 1 + a
        PROVE  m[1] # n[1]
    <3>1. r[i] = q[x] /\ r[j] = q[y]
      BY <1>1, <2>3
    <3>2. x # y
      BY <1>8, <2>3
    <3> QED BY <1>2, <1>6, <3>1, <3>2
  <2>4. ASSUME NEW x \in 2..b, i = x - 1 + a, j \in 1..a
        PROVE  FALSE
    BY ONLY <1>0, <1>8, <2>4
  <2> QED BY <1>1, <2>1, <2>2, <2>3, <2>4
<1>9. Apart(r)
  <2>1. ASSUME NEW i \in 1..c, NEW j \in 1..c, i # j, NEW m \in NewsOf(r[i]), NEW n \in NewsOf(r[j])
        PROVE  m[1] # n[1]
    <3>1. i < j \/ j < i
      BY <2>1
    <3> QED BY <1>8, <3>1
  <2> QED BY <2>1 DEF Apart, c
<1>10. AsksLast(r)
  <2>0. ASSUME NEW i \in 1..c, NEW j \in 1..c, i < j, r[i].op \in AskOps
        PROVE  NewsOf(r[j]) = {}
    <3>1. CASE i \in 1..a /\ j \in 1..a
      BY <1>1, <1>3, <2>0, <3>1
    <3>2. ASSUME i \in 1..a, NEW y \in 2..b, j = y - 1 + a
          PROVE  NewsOf(r[j]) = {}
      <4>1. r[i] = p[i] /\ r[j] = q[y]
        BY <1>1, <3>2
      <4>2. q[1].op \in AskOps
        BY <1>3, <2>0, <3>2, <4>1
      <4> QED BY <1>2, <1>6, <4>1, <4>2
    <3>3. ASSUME NEW x \in 2..b, i = x - 1 + a, NEW y \in 2..b, j = y - 1 + a
          PROVE  NewsOf(r[j]) = {}
      <4>1. r[i] = q[x] /\ r[j] = q[y]
        BY <1>1, <3>3
      <4>2. x < y
        BY ONLY <1>0, <2>0, <3>3
      <4> QED BY <1>2, <1>6, <2>0, <4>1, <4>2
    <3>4. ASSUME NEW x \in 2..b, i = x - 1 + a, j \in 1..a
          PROVE  FALSE
      BY ONLY <1>0, <2>0, <3>4
    <3> QED BY <1>1, <3>1, <3>2, <3>3, <3>4
  <2> QED BY <2>0 DEF AsksLast, c
<1>11. LooksFirst(r)
  <2>1. ASSUME NEW i \in 1..c, r[i].op = "ifRegistered" PROVE FALSE
    <3>1. ASSUME i \in 1..a PROVE FALSE
      BY <1>1, <1>3, <2>1, <3>1
    <3>2. ASSUME NEW x \in 2..b, i = x - 1 + a PROVE FALSE
      BY <1>1, <1>2, <1>6, <2>1, <3>2
    <3> QED BY <1>1, <3>1, <3>2
  <2> QED BY <2>1 DEF LooksFirst, c
<1>12. TellsLast(r)
  <2>1. ASSUME NEW i \in 1..c, r[i].op \in {"created", "deleted"} PROVE i = c
    <3>1. ASSUME i \in 1..a PROVE FALSE
      BY <1>1, <1>3, <2>1, <3>1
    <3>2. ASSUME NEW x \in 2..b, i = x - 1 + a PROVE i = c
      <4>1. x = b
        BY <1>1, <1>2, <1>6, <2>1, <3>2
      <4>2. c = a + b - 1
        BY <1>1
      <4> QED BY ONLY <1>0, <3>2, <4>1, <4>2
    <3> QED BY <1>1, <3>1, <3>2
  <2> QED BY <2>1 DEF TellsLast, c
<1>13. Short(r)
  <2>0. Weight(q[1].op) + b - 1 <= 4 /\ Weight(q[1].op) \in 1..4 /\ c = a + b - 1
    BY <1>1, <1>2, <1>4, <1>6
  <2>1. ASSUME NEW i \in 1..c PROVE Weight(r[i].op) + c - i <= 4
    <3>0. Weight(r[i].op) \in 1..4
      BY <1>4
    <3>1. ASSUME i \in 1..a PROVE Weight(r[i].op) + c - i <= 4
      <4>1. Weight(r[i].op) + a - i <= Weight(q[1].op)
        BY <1>1, <1>3, <3>1
      <4> QED BY ONLY <1>0, <2>0, <3>0, <3>1, <4>1, SMTT(30)
    <3>2. ASSUME NEW x \in 2..b, i = x - 1 + a PROVE Weight(r[i].op) + c - i <= 4
      <4>1. Weight(r[i].op) + b - x <= 4
        BY <1>1, <1>2, <1>6, <3>2
      <4> QED BY ONLY <1>0, <2>0, <3>0, <3>2, <4>1
    <3> QED BY <1>1, <3>1, <3>2
  <2> QED BY <2>1 DEF Short, c
<1> QED BY <1>1, <1>9, <1>10, <1>11, <1>12, <1>13 DEF Good, r

\* What a worker does next, and what it has left to do then.
LEMMA ThenIs ==
  ASSUME TypeInv, NEW w \in Workers, todo[w] # <<>>, NEW p \in Seq(Steps), Then(w, p)
  PROVE  LET q == todo[w]
             r == todo'[w]
         IN /\ todo' \in [Workers -> Seq(Steps)]
            /\ \A o \in Workers \ {w} : todo'[o] = todo[o]
            /\ r = p \o Tail(q)
            /\ q \in Seq(Steps) /\ r \in Seq(Steps) /\ Len(q) >= 1 /\ q[1] \in Steps /\ Head(q) = q[1]
            /\ Len(r) = Len(p) + Len(q) - 1
            /\ \A k \in 1..Len(p) : k \in 1..Len(r) /\ r[k] = p[k]
            /\ \A i \in 2..Len(q) : i - 1 + Len(p) \in 1..Len(r) /\ r[i - 1 + Len(p)] = q[i]
            /\ \A k \in 1..Len(r) : k \in 1..Len(p) \/ \E i \in 2..Len(q) : k = i - 1 + Len(p)
<1> DEFINE q == todo[w]
           r == p \o Tail(q)
<1>1. q \in Seq(Steps) /\ Len(q) >= 1 /\ q[1] \in Steps /\ Head(q) = q[1]
  BY DEF TypeInv
<1>2. /\ r \in Seq(Steps) /\ Len(r) = Len(p) + Len(q) - 1
      /\ \A k \in 1..Len(p) : k \in 1..Len(r) /\ r[k] = p[k]
      /\ \A i \in 2..Len(q) : i - 1 + Len(p) \in 1..Len(r) /\ r[i - 1 + Len(p)] = q[i]
      /\ \A k \in 1..Len(r) : k \in 1..Len(p) \/ \E i \in 2..Len(q) : k = i - 1 + Len(p)
  BY <1>1, SplicedIs
<1>3. todo' = [todo EXCEPT ![w] = r]
  BY DEF Then
<1>4. todo \in [Workers -> Seq(Steps)]
  BY DEF TypeInv
<1> HIDE DEF r
<1>5. todo' \in [Workers -> Seq(Steps)] /\ todo'[w] = r /\ \A o \in Workers \ {w} : todo'[o] = todo[o]
  BY <1>2, <1>3, <1>4
<1> QED BY <1>1, <1>2, <1>5 DEF r

\* Steps that write.
LEMMA WriteIs ==
  ASSUME NEW op \in WriteOps, NEW news \in Newses
  PROVE  /\ Write(op, news) \in Steps /\ Write(op, news).op = op /\ Write(op, news).news = news
         /\ NewsOf(Write(op, news)) = news
BY DEF Write, Steps, NewsOf

\* Steps that call.
LEMMA CallIs ==
  ASSUME NEW op, NEW x, NEW force \in BOOLEAN,
         \/ op \in ItemOps /\ x \in ItemSlots
         \/ op \in UserOps \union RouteOps /\ x \in Users
         \/ op \in RoleOps /\ x \in Roles
         \/ op \in WholeOps /\ x \in {Guild, Me}
         \/ op = "readGuildChannels" /\ x \in SUBSET Channels
         \/ op = "unlock" /\ x \in Mutexes
  PROVE  /\ Call(op, x, force) \in Steps /\ Call(op, x, force).op = op /\ Call(op, x, force).x = x
         /\ NewsOf(Call(op, x, force)) = {}
<1>1. /\ Call(op, x, force) = [op |-> op, x |-> x, force |-> force] /\ Call(op, x, force).op = op
      /\ Call(op, x, force).x = x /\ NewsOf(Call(op, x, force)) = {}
  BY DEF Call, NewsOf
<1>2. CASE op \in ItemOps /\ x \in ItemSlots
  BY <1>1, <1>2 DEF Steps
<1>3. CASE op \in UserOps \union RouteOps /\ x \in Users
  BY <1>1, <1>3 DEF Steps
<1>4. CASE op \in RoleOps /\ x \in Roles
  BY <1>1, <1>4 DEF Steps
<1>5. CASE op \in WholeOps /\ x \in {Guild, Me}
  BY <1>1, <1>5 DEF Steps
<1>6. CASE op = "readGuildChannels" /\ x \in SUBSET Channels
  BY <1>1, <1>6 DEF Steps
<1>7. CASE op = "unlock" /\ x \in Mutexes
  BY <1>1, <1>7 DEF Steps
<1> QED BY <1>1, <1>2, <1>3, <1>4, <1>5, <1>6, <1>7

\* Steps that do neither.
LEMMA DoIs ==
  /\ \A op \in TellOps : Do(op) \in Steps /\ Do(op).op = op /\ NewsOf(Do(op)) = {}
  /\ \A op \in {"announce", "created"}, listed \in BOOLEAN :
        LET t == [op |-> op, listed |-> listed]
        IN t \in Steps /\ t.op = op /\ t.listed = listed /\ NewsOf(t) = {}
  /\ \A slots \in SUBSET SlotsOfRoles :
        /\ IfRegistered(slots) \in Steps /\ IfRegistered(slots).op = "ifRegistered"
        /\ IfRegistered(slots).misses = slots /\ NewsOf(IfRegistered(slots)) = {}
<1>1. ASSUME NEW op \in TellOps
      PROVE  Do(op) \in Steps /\ Do(op).op = op /\ NewsOf(Do(op)) = {}
  BY DEF Do, Steps, NewsOf
<1>2. ASSUME NEW op \in {"announce", "created"}, NEW listed \in BOOLEAN
      PROVE  LET t == [op |-> op, listed |-> listed]
             IN t \in Steps /\ t.op = op /\ t.listed = listed /\ NewsOf(t) = {}
  BY DEF Steps, NewsOf
<1>3. ASSUME NEW slots \in SUBSET SlotsOfRoles
      PROVE  /\ IfRegistered(slots) \in Steps /\ IfRegistered(slots).op = "ifRegistered"
             /\ IfRegistered(slots).misses = slots /\ NewsOf(IfRegistered(slots)) = {}
  BY DEF IfRegistered, Steps, NewsOf
<1> QED BY <1>1, <1>2, <1>3

\* News of one slot.
LEMMA OneNews ==
  ASSUME NEW s \in Slots, NEW v \in Versions, s[1] = "current" => v # 0
  PROVE  {<<s, v>>} \in Newses
BY DEF Newses

\* What a step is replaced by.
LEMMA FitsNone ==
  ASSUME NEW t
  PROVE  Fits(<<>>, t) /\ \A op : ~Has(<<>>, op)
BY DEF Fits, Apart, AsksLast, Has

\* One step takes the place of another.
LEMMA FitsOne ==
  ASSUME NEW t, NEW u \in Steps, u.op \notin {"ifRegistered", "created", "deleted"},
         Weight(u.op) <= Weight(t.op), u.op \in AskOps => t.op \in AskOps,
         t.op \in AskOps \/ NewsOf(u) \subseteq NewsOf(t)
  PROVE  Fits(<<u>>, t)
<1> DEFINE p == <<u>>
<1>1. p \in Seq(Steps) /\ Len(p) = 1 /\ p[1] = u
  OBVIOUS
<1>2. Weight(u.op) \in Nat
  BY DEF Weight
<1> HIDE DEF p
<1>3. Fits(p, t)
  BY <1>1, <1>2 DEF Fits, Apart, AsksLast
<1> QED BY <1>3 DEF p

\* Two steps take the place of another.
LEMMA FitsTwo ==
  ASSUME NEW t, NEW u \in Steps, NEW v \in Steps,
         u.op \notin {"ifRegistered", "created", "deleted"}, v.op \notin {"ifRegistered", "created", "deleted"},
         Weight(u.op) + 1 <= Weight(t.op), Weight(v.op) <= Weight(t.op), t.op \in AskOps,
         u.op \in AskOps => NewsOf(v) = {},
         \A m \in NewsOf(u), n \in NewsOf(v) : m[1] # n[1]
  PROVE  Fits(<<u, v>>, t)
<1> DEFINE p == <<u, v>>
<1>1. p \in Seq(Steps) /\ Len(p) = 2 /\ p[1] = u /\ p[2] = v
  OBVIOUS
<1>2. Weight(u.op) \in Nat /\ Weight(v.op) \in Nat /\ Weight(t.op) \in Nat
  BY DEF Weight
<1> HIDE DEF p
<1>3. \A k \in 1..Len(p) : k = 1 \/ k = 2
  BY <1>1
<1>4. Apart(p) /\ AsksLast(p)
  BY <1>1, <1>3 DEF Apart, AsksLast
<1>5. /\ Weight(p[1].op) + Len(p) - 1 <= Weight(t.op)
      /\ Weight(p[2].op) + Len(p) - 2 <= Weight(t.op)
  BY <1>1, <1>2
<1>6. Fits(p, t)
  BY <1>1, <1>3, <1>4, <1>5 DEF Fits
<1> QED BY <1>6 DEF p

Quiet == GuildOps \union RouteOps \union {"unshare", "ifRegistered"}

(* w replaces its next step by p, which writes nothing that is not true.   *)
Asks(w, p) ==
    /\ UNCHANGED <<cache, crossed, fetched>>
    /\ todo[w][1].op \notin WriteOps
    /\ \A k \in 1..Len(p) : \A n \in NewsOf(p[k]) :
          Right(n[1], n[2]) \/ (n = <<Current, cache[AtMe]>> /\ cache[Current] = 0)
    /\ \A list \in Lists : Has(p, StoreOp(list)) =>
          \A s \in Slots : s[1] = list /\ world[s[2]].live => Brings(p, s, 1)

(* w stores some of the news of its next step, and p stores the rest.      *)
Stores(w, p) ==
    /\ todo[w][1].op \in WriteOps
    /\ \E news \in SUBSET NewsOf(todo[w][1]) :
          /\ Store(w, news) \/ (news = {} /\ UNCHANGED <<cache, crossed>>)
          /\ \/ p = <<>> /\ news = NewsOf(todo[w][1])
             \/ p = <<Write(todo[w][1].op, NewsOf(todo[w][1]) \ news)>>
    /\ fetched \subseteq fetched' /\ fetched' \subseteq Lists
    /\ \A list \in fetched' \ fetched : todo[w][1].op = StoreOp(list)
    /\ \A list \in Lists : todo[w][1].op = StoreOp(list) => list \in fetched' \/ p # <<>>

(* A lock is kept, given back, or taken for a step to come.                *)
Locks(w, p) ==
    \A m \in Mutexes :
        \/ /\ owner'[m] = owner[m]
           /\ owner[m] = w => /\ ~(todo[w][1].op = "unlock" /\ todo[w][1].x = m)
                              /\ ~(todo[w][1].op = "storeGuildChannels" /\ m = "channels")
        \/ owner'[m] = NoOne
        \/ /\ owner'[m] = w
           /\ \E k \in 1..Len(p) : \/ p[k].op = "unlock" /\ p[k].x = m
                                   \/ p[k].op = "storeGuildChannels" /\ m = "channels"

(* What every step of a worker does, but the one that turns away.          *)
Turn(w, p) ==
    /\ todo[w] # <<>> /\ Then(w, p) /\ Fits(p, todo[w][1])
    /\ Asks(w, p) \/ Stores(w, p)
    /\ Locks(w, p)
    /\ world' = world
    /\ owner' \in [Mutexes -> Workers \union {NoOne}]

(* What every step inside the caches does.                                 *)
CacheTurn(w, p) ==
    /\ Turn(w, p)
    /\ todo[w][1].op \notin Quiet
    /\ \A k \in 1..Len(p) : p[k].op \notin Quiet
    /\ known' \in BOOLEAN

USE DEF At, Arg, Fetch

\* The first step of a worker.
LEMMA AtIs ==
  ASSUME TypeInv, NEW w \in Workers, NEW op, At(w, op)
  PROVE  /\ todo[w] # <<>> /\ todo[w] \in Seq(Steps) /\ Len(todo[w]) >= 1
         /\ todo[w][1] \in Steps /\ todo[w][1].op = op /\ Head(todo[w]) = todo[w][1]
BY DEF TypeInv

\* An answer is about what there is.
LEMMA WorldIs ==
  ASSUME TypeInv, NEW x \in Objects
  PROVE  world[x].v \in Versions /\ world[x].v # 0 /\ 0 \in Versions
BY DispatchAssumption DEF TypeInv, Versions, DispatchAssumption

\* A step replaced by nothing.
LEMMA TurnNone ==
  ASSUME TypeInv, NEW w \in Workers, NEW op, At(w, op), op \notin Quiet \union WriteOps \union {"unlock"},
         Then(w, <<>>), UNCHANGED <<world, cache, owner, crossed, fetched>>, known' \in BOOLEAN
  PROVE  CacheTurn(w, <<>>)
<1>1. todo[w] # <<>> /\ todo[w][1].op = op
  BY AtIs
<1>2. Fits(<<>>, todo[w][1]) /\ \A o : ~Has(<<>>, o)
  BY FitsNone
<1>3. Asks(w, <<>>)
  BY <1>1, <1>2 DEF Asks
<1>4. Locks(w, <<>>)
  BY <1>1 DEF Locks, WriteOps
<1>5. owner' \in [Mutexes -> Workers \union {NoOne}]
  BY DEF TypeInv
<1> QED BY <1>1, <1>2, <1>3, <1>4, <1>5 DEF CacheTurn, Turn

\* A step replaced by another that writes nothing.
LEMMA TurnCall ==
  ASSUME TypeInv, NEW w \in Workers, NEW op, At(w, op), op \in AskOps \ Quiet, NEW t \in Steps,
         t.op \in AskOps \ (Quiet \union WriteOps \union {"created", "deleted"}), Weight(t.op) <= Weight(op), NewsOf(t) = {},
         Then(w, <<t>>), UNCHANGED <<world, cache, owner, crossed, fetched>>, known' \in BOOLEAN
  PROVE  CacheTurn(w, <<t>>)
<1>1. todo[w] # <<>> /\ todo[w][1].op = op
  BY AtIs
<1>2. Fits(<<t>>, todo[w][1])
  BY <1>1, FitsOne DEF Quiet
<1>3. Len(<<t>>) = 1 /\ <<t>>[1] = t
  OBVIOUS
<1>4. Asks(w, <<t>>)
  <2>1. \A list : StoreOp(list) \in WriteOps
    BY DEF StoreOp, WriteOps
  <2>2. todo[w][1].op \notin WriteOps
    BY <1>1 DEF WriteOps, AskOps, ItemOps, UserOps, RoleOps, WholeOps
  <2> QED BY <1>1, <1>3, <2>1, <2>2 DEF Asks, Has
<1>5. Locks(w, <<t>>)
  BY <1>1 DEF Locks, AskOps, ItemOps, UserOps, RoleOps, WholeOps
<1>6. owner' \in [Mutexes -> Workers \union {NoOne}]
  BY DEF TypeInv
<1> QED BY <1>1, <1>2, <1>3, <1>4, <1>5, <1>6 DEF CacheTurn, Turn

\* A step replaced by one that writes what is true.
LEMMA TurnWrite ==
  ASSUME TypeInv, NEW w \in Workers, NEW op, At(w, op), op \in AskOps \ Quiet, NEW t \in Steps,
         t.op \in WriteOps, \A n \in NewsOf(t) : Right(n[1], n[2]) \/ (n = <<Current, cache[AtMe]>> /\ cache[Current] = 0),
         \A list \in Lists : t.op = StoreOp(list) =>
             \A s \in Slots : s[1] = list /\ world[s[2]].live => <<s, 1>> \in NewsOf(t),
         Then(w, <<t>>), UNCHANGED <<world, cache, owner, crossed, fetched>>, known' \in BOOLEAN
  PROVE  CacheTurn(w, <<t>>)
<1>1. todo[w] # <<>> /\ todo[w][1].op = op
  BY AtIs
<1>0. t.op \notin Quiet \union AskOps \union {"ifRegistered", "created", "deleted"} /\ Weight(t.op) = 1 /\ op \notin WriteOps
  BY DEF Quiet, GuildOps, RouteOps, WriteOps, AskOps, ItemOps, UserOps, RoleOps, WholeOps, Weight
<1>2. Fits(<<t>>, todo[w][1])
  <2>1. Weight(op) \in Nat /\ 1 <= Weight(op)
    BY DEF Weight
  <2> QED BY <1>0, <1>1, <2>1, FitsOne
<1>3. Len(<<t>>) = 1 /\ <<t>>[1] = t
  OBVIOUS
<1>4. Asks(w, <<t>>)
  BY <1>0, <1>1, <1>3 DEF Asks, Has, Brings
<1>5. Locks(w, <<t>>)
  BY <1>1 DEF Locks, AskOps, ItemOps, UserOps, RoleOps, WholeOps
<1>6. owner' \in [Mutexes -> Workers \union {NoOne}]
  BY DEF TypeInv
<1> QED BY <1>0, <1>1, <1>2, <1>3, <1>4, <1>5, <1>6 DEF CacheTurn, Turn

-----------------------------------------------------------------------------
(* Slots                                                                   *)

\* The slots of an object.
LEMMA SlotsAre ==
  /\ <<"guild", Guild>> \in Slots
  /\ \A c \in Channels \union Threads : <<"channel", c>> \in Slots
  /\ \A u \in Users : <<"user", u>> \in Slots /\ <<"member", u>> \in Slots
  /\ <<"user", Me>> \in Slots /\ Current \in Slots /\ AtMe \in Slots
  /\ \A c \in Channels : <<"channels", c>> \in Slots
  /\ \A r \in Roles : <<"role", r>> \in Slots /\ <<"roles", r>> \in Slots
BY DEF Slots, Current, AtMe

\* The slots of an object, by kind.
LEMMA SlotKinds ==
  ASSUME NEW s \in Slots
  PROVE  /\ s = <<s[1], s[2]>> /\ s[2] \in Objects
         /\ s[1] \in {"guild", "channel", "user", "member", "role", "current", "@me", "channels", "roles"}
         /\ s[1] = "guild" => s[2] = Guild
         /\ s[1] = "channel" => s[2] \in Channels \union Threads
         /\ s[1] = "user" => s[2] \in Users \union {Me}
         /\ s[1] = "member" => s[2] \in Users
         /\ s[1] \in {"role", "roles"} => s[2] \in Roles
         /\ s[1] \in {"current", "@me"} => s[2] = Me
         /\ s[1] = "channels" => s[2] \in Channels
BY DEF Slots, Objects

\* The object of a slot, by kind.
LEMMA ObjectSlots ==
  ASSUME NEW s \in Slots
  PROVE  /\ s[2] \in Channels => s \in {<<"channel", s[2]>>, <<"channels", s[2]>>}
         /\ s[2] \in Threads => s = <<"channel", s[2]>>
         /\ s[2] \in Roles => s \in {<<"role", s[2]>>, <<"roles", s[2]>>}
         /\ s[2] \in Users => s \in {<<"user", s[2]>>, <<"member", s[2]>>}
         /\ s[2] = Me => s \in {<<"user", Me>>, Current, AtMe}
         /\ s[2] = Guild => s = <<"guild", Guild>>
BY SlotKinds, Kinds5 DEF Current, AtMe

\* One thing inserted.
LEMMA InsertIs ==
  ASSUME NEW s \in Slots, NEW v \in Versions, s[1] = "current" => v # 0
  PROVE  \A op \in WriteOps :
            /\ Write(op, {<<s, v>>}) \in Steps /\ Write(op, {<<s, v>>}).op = op
            /\ \A n : n \in NewsOf(Write(op, {<<s, v>>})) <=> n = <<s, v>>
BY OneNews, WriteIs

\* The two slots of a role.
LEMMA RoleNewsIs ==
  ASSUME NEW r \in Roles, NEW v \in Versions
  PROVE  /\ RoleNews(r, v) \in Newses
         /\ \A s, y : <<s, y>> \in RoleNews(r, v) <=>
               (s = <<"roles", r>> /\ y = 1) \/ (s = <<"role", r>> /\ y = v)
<1>1. 1 \in Versions
  BY DispatchAssumption DEF DispatchAssumption, Versions
<1>2. <<"roles", r>> \in Slots /\ <<"role", r>> \in Slots /\ <<"roles", r>> # <<"role", r>>
  BY SlotsAre
<1>3. \A n \in RoleNews(r, v) : n = <<<<"roles", r>>, 1>> \/ n = <<<<"role", r>>, v>>
  BY DEF RoleNews
<1> QED BY <1>1, <1>2, <1>3 DEF RoleNews, Newses

\* All the roles there are.
LEMMA RoleListIs ==
  ASSUME TypeInv
  PROVE  /\ RoleList \in Steps /\ RoleList.op = "storeGuildRoles"
         /\ \A n \in NewsOf(RoleList) : /\ n \in Slots \X Versions /\ n[1][1] \in {"role", "roles"}
                                        /\ n[1][2] \in LiveRoles
                                        /\ n[2] = IF n[1][1] = "roles" THEN 1 ELSE world[n[1][2]].v
         /\ \A r \in LiveRoles : <<<<"roles", r>>, 1>> \in NewsOf(RoleList)
<1> DEFINE news == UNION {RoleNews(r, world[r].v) : r \in LiveRoles}
<1>1. \A r \in LiveRoles : r \in Roles /\ world[r].v \in Versions /\ r \in Objects
  BY WorldIs DEF LiveRoles, Objects
<1>2. ASSUME NEW n \in news
      PROVE  /\ n \in Slots \X Versions /\ n[1][1] \in {"role", "roles"}
             /\ n[1][2] \in LiveRoles
             /\ n[2] = IF n[1][1] = "roles" THEN 1 ELSE world[n[1][2]].v
             /\ n = <<<<n[1][1], n[1][2]>>, n[2]>>
  <2>1. PICK r \in LiveRoles : n \in RoleNews(r, world[r].v)
    OBVIOUS
  <2>2. n = <<<<"roles", r>>, 1>> \/ n = <<<<"role", r>>, world[r].v>>
    BY <2>1 DEF RoleNews
  <2>3. 1 \in Versions /\ <<"roles", r>> \in Slots /\ <<"role", r>> \in Slots
    BY <1>1, SlotsAre, DispatchAssumption DEF DispatchAssumption, Versions
  <2> QED BY <1>1, <2>2, <2>3
<1>3. news \in Newses
  <2>1. news \subseteq Slots \X Versions
    BY <1>2
  <2>2. ASSUME NEW m \in news, NEW n \in news, m[1] = n[1] PROVE m = n
    <3>1. m[2] = n[2]
      BY <1>2, <2>2
    <3> QED BY <1>2, <2>2, <3>1
  <2>3. \A n \in news : n[1][1] # "current"
    BY <1>2
  <2> QED BY <2>1, <2>2, <2>3 DEF Newses
<1>4. \A r \in LiveRoles : <<<<"roles", r>>, 1>> \in news
  BY DEF RoleNews
<1>5. RoleList = Write("storeGuildRoles", news) /\ "storeGuildRoles" \in WriteOps
  BY DEF RoleList, WriteOps
<1> HIDE DEF news
<1>6. RoleList \in Steps /\ RoleList.op = "storeGuildRoles" /\ NewsOf(RoleList) = news
  BY <1>3, <1>5, WriteIs
<1> QED BY <1>2, <1>4, <1>6

\* All the channels there are.
LEMMA ChannelListIs ==
  ASSUME TypeInv
  PROVE  LET news == UNION {{<<<<"channels", c>>, 1>>, <<<<"channel", c>>, world[c].v>>} :
                             c \in {d \in Channels : world[d].live}} IN
         /\ news \in Newses
         /\ \A n \in news : /\ n[1][1] \in {"channel", "channels"} /\ n[1][2] \in Channels /\ world[n[1][2]].live
                            /\ n[2] = IF n[1][1] = "channels" THEN 1 ELSE world[n[1][2]].v
         /\ \A c \in Channels : world[c].live => <<<<"channels", c>>, 1>> \in news
<1> DEFINE live == {d \in Channels : world[d].live}
           both(c) == {<<<<"channels", c>>, 1>>, <<<<"channel", c>>, world[c].v>>}
           news == UNION {both(c) : c \in live}
<1>1. \A c \in live : c \in Channels /\ world[c].v \in Versions /\ world[c].live
  BY WorldIs DEF Objects
<1>2. ASSUME NEW n \in news
      PROVE  /\ n \in Slots \X Versions /\ n[1][1] \in {"channel", "channels"}
             /\ n[1][2] \in live
             /\ n[2] = IF n[1][1] = "channels" THEN 1 ELSE world[n[1][2]].v
             /\ n = <<<<n[1][1], n[1][2]>>, n[2]>>
  <2>1. PICK c \in live : n \in both(c)
    OBVIOUS
  <2>2. n = <<<<"channels", c>>, 1>> \/ n = <<<<"channel", c>>, world[c].v>>
    BY <2>1
  <2>3. 1 \in Versions /\ <<"channels", c>> \in Slots /\ <<"channel", c>> \in Slots
    BY <1>1, SlotsAre, DispatchAssumption DEF DispatchAssumption, Versions
  <2> QED BY <1>1, <2>2, <2>3
<1>4. \A c \in live : <<<<"channels", c>>, 1>> \in news
  OBVIOUS
<1> HIDE DEF news
<1>3. news \in Newses
  <2>1. news \subseteq Slots \X Versions
    BY <1>2
  <2>2. ASSUME NEW m \in news, NEW n \in news, m[1] = n[1] PROVE m = n
    <3>1. m[2] = n[2]
      BY <1>2, <2>2
    <3> QED BY <1>2, <2>2, <3>1
  <2>3. \A n \in news : n[1][1] # "current"
    BY <1>2
  <2> QED BY <2>1, <2>2, <2>3 DEF Newses
<1> QED BY <1>1, <1>2, <1>3, <1>4 DEF news

-----------------------------------------------------------------------------
(* The calls that read through the caches                                  *)

\* Operations are what their names say.
LEMMA OpsAre ==
  /\ \A op \in ItemOps \union UserOps \union RoleOps \union WholeOps \union {"readGuildChannels"} :
        op \in AskOps \ (Quiet \union WriteOps \union {"created", "deleted", "unlock", "callback"})
  /\ \A op \in WriteOps : op \notin Quiet \union AskOps
BY DEF AskOps, ItemOps, UserOps, RoleOps, WholeOps, Quiet, GuildOps, RouteOps, WriteOps

\* Two steps in a row.
LEMMA PairIs ==
  ASSUME NEW t \in Steps, NEW u \in Steps
  PROVE  <<t>> \o <<u>> = <<t, u>> /\ <<t>> \o <<>> = <<t>>
<1>1. <<t>> \in Seq(Steps) /\ <<u>> \in Seq(Steps) /\ Len(<<t>>) = 1 /\ Len(<<u>>) = 1 /\ <<t>>[1] = t /\ <<u>>[1] = u
  OBVIOUS
<1>2. <<t, u>> \in Seq(Steps) /\ Len(<<t, u>>) = 2 /\ <<t, u>>[1] = t /\ <<t, u>>[2] = u
  OBVIOUS
<1>3. \A i \in 1..2 : i = 1 \/ i = 2
  OBVIOUS
<1> DEFINE a == <<t>>
           b == <<u>>
           c == <<t, u>>
<1> HIDE DEF a, b, c
<1>4. /\ a \o b \in Seq(Steps) /\ Len(a \o b) = Len(a) + Len(b)
      /\ \A j \in 1..(Len(a) + Len(b)) : (a \o b)[j] = IF j <= Len(a) THEN a[j] ELSE b[j - Len(a)]
  BY <1>1, ConcatProperties DEF a, b
<1>5. Len(a \o b) = 2 /\ (a \o b)[1] = t /\ (a \o b)[2] = u
  BY <1>1, <1>4 DEF a, b
<1>6. a \o b = c
  BY <1>2, <1>3, <1>4, <1>5, SeqEqual DEF c
<1>7. a \o <<>> = a
  BY <1>1, ConcatEmptySeq DEF a
<1> QED BY <1>6, <1>7 DEF a, b, c
\* get
LEMMA GetItemTurns ==
  ASSUME TypeInv, NEW w \in Workers, GetItem(w)
  PROVE  \E p : CacheTurn(w, p)
<1> DEFINE x == Head(todo[w]).x
           t == Call("fetchItem", x, FALSE)
<1>1. At(w, "get") /\ "get" \in ItemOps /\ "fetchItem" \in ItemOps /\ x \in ItemSlots /\ known \in BOOLEAN
  BY AtIs, StepOp DEF GetItem, ItemOps, TypeInv
<1>2. t \in Steps /\ t.op = "fetchItem" /\ NewsOf(t) = {}
  BY <1>1, CallIs
<1> HIDE DEF t
<1>3. UNCHANGED <<world, cache, owner, crossed, fetched>> /\ known' \in BOOLEAN
  BY <1>1 DEF GetItem
<1>4. CASE Then(w, <<>>)
  BY <1>1, <1>3, <1>4, OpsAre, TurnNone
<1>5. CASE Then(w, <<t>>)
  <2>1. Weight("fetchItem") <= Weight("get")
    BY DEF Weight
  <2>2. CacheTurn(w, <<t>>)
    BY <1>1, <1>2, <1>3, <1>5, <2>1, OpsAre, TurnCall
  <2> QED BY <2>2
<1>6. Then(w, <<>>) \/ Then(w, <<t>>)
  BY DEF GetItem, t
<1> QED BY <1>4, <1>5, <1>6

\* A failed fetch ends the call.
LEMMA FetchFailsTurns ==
  ASSUME TypeInv, NEW w \in Workers, FetchFails(w)
  PROVE  \E p : CacheTurn(w, p)
<1>1. PICK op \in {"fetchItem", "fetchGuildUser", "fetchGuildChannels", "fetchGuildRoles", "fetchGuildRole"} : At(w, op)
  BY DEF FetchFails
<1>2. op \in ItemOps \union UserOps \union RoleOps \union WholeOps
  BY <1>1 DEF ItemOps, UserOps, RoleOps, WholeOps
<1>3. op \notin Quiet \union WriteOps \union {"unlock"}
  BY <1>2, OpsAre
<1>4. UNCHANGED <<world, cache, owner, crossed, fetched>> /\ known' \in BOOLEAN /\ Then(w, <<>>)
  BY DEF FetchFails, TypeInv
<1> QED BY <1>1, <1>3, <1>4, TurnNone

\* What an answer says is true.
LEMMA AnswerIsRight ==
  ASSUME TypeInv, NEW kind, NEW x, <<kind, x>> \in Slots, kind \notin Lists, world[x].live \/ x \in Kept
  PROVE  Right(<<kind, x>>, world[x].v)
BY DEF Right

\* The answer of the API is about to be inserted.
LEMMA FetchItemTurns ==
  ASSUME TypeInv, NEW w \in Workers, FetchItem(w)
  PROVE  \E p : CacheTurn(w, p)
<1> DEFINE q == todo[w]
           s == Head(q).x
           v == world[s[2]].v
           t == Write("insert", {<<<<s[1], s[2]>>, v>>})
           u == Write("insert", {<<<<"current", Me>>, v>>})
<1>0. /\ At(w, "fetchItem")
      /\ world[s[2]].live \/ s[1] = "user"
      /\ UNCHANGED <<world, cache, owner, crossed, fetched>> /\ known' = known
  BY DEF FetchItem
<1>1. /\ "fetchItem" \in ItemOps /\ s \in ItemSlots /\ known \in BOOLEAN
      /\ q[1].op = "fetchItem" /\ q # <<>> /\ q[1] \in Steps
  BY <1>0, AtIs, StepOp DEF ItemOps, TypeInv
<1>2. s \in Slots /\ s[1] \in {"guild", "channel", "user", "@me"} /\ s = <<s[1], s[2]>> /\ s[2] \in Objects
  BY <1>1, SlotKinds DEF ItemSlots
<1>3. v \in Versions /\ v # 0
  BY <1>2, WorldIs
<1>4. s[1] = "user" => s[2] \in Kept
  BY <1>2, SlotKinds DEF Kept
<1>5. Then(w, <<t>> \o (IF s[1] = "@me" THEN <<u>> ELSE <<>>))
  BY DEF FetchItem, Insert
<1> HIDE DEF q, s, v, t, u
<1>6. Right(s, v)
  BY <1>0, <1>2, <1>4, AnswerIsRight DEF Lists, v
<1>7. /\ t \in Steps /\ t.op = "insert" /\ \A n : n \in NewsOf(t) <=> n = <<s, v>>
      /\ "insert" \in WriteOps
  <2>1. "insert" \in WriteOps /\ t = Write("insert", {<<s, v>>}) /\ s[1] # "current"
    BY <1>2 DEF t, WriteOps
  <2>2. \A op \in WriteOps :
           /\ Write(op, {<<s, v>>}) \in Steps /\ Write(op, {<<s, v>>}).op = op
           /\ \A n : n \in NewsOf(Write(op, {<<s, v>>})) <=> n = <<s, v>>
    BY <1>2, <1>3, <2>1, InsertIs
  <2> QED BY <2>1, <2>2
<1>8. u \in Steps /\ u.op = "insert" /\ \A n : n \in NewsOf(u) <=> n = <<Current, v>>
  <2>1. "insert" \in WriteOps /\ u = Write("insert", {<<Current, v>>}) /\ Current \in Slots
    BY SlotsAre DEF u, WriteOps, Current
  <2> QED BY <1>3, <2>1, InsertIs
<1>9. "insert" # StoreOp("channels") /\ "insert" # StoreOp("roles")
  BY DEF StoreOp
<1>10. CASE s[1] # "@me"
  <2>1. Then(w, <<t>>)
    BY <1>5, <1>7, <1>8, <1>10, PairIs
  <2>2. /\ \A n \in NewsOf(t) : Right(n[1], n[2])
        /\ \A list \in Lists : t.op # StoreOp(list)
    BY <1>6, <1>7, <1>9 DEF Lists
  <2>3. CacheTurn(w, <<t>>)
    BY <1>0, <1>1, <1>7, <2>1, <2>2, OpsAre, TurnWrite
  <2> QED BY <2>3
<1>11. CASE s[1] = "@me"
  <2> DEFINE p == <<t, u>>
  <2>0. Then(w, p)
    BY <1>5, <1>7, <1>8, <1>11, PairIs
  <2>1. s[2] = Me /\ s # Current
    BY <1>2, <1>11, SlotKinds DEF Current
  <2>2. Right(Current, v)
    BY <1>2, <1>6, <1>11, <2>1 DEF Right, Current, Lists
  <2>3. Fits(p, q[1])
    <3>1. Weight("insert") = 1 /\ Weight("fetchItem") = 2
      BY DEF Weight
    <3>2. Weight(t.op) + 1 <= Weight(q[1].op) /\ Weight(u.op) <= Weight(q[1].op)
      BY <1>1, <1>7, <1>8, <3>1
    <3>3. /\ "insert" \notin AskOps /\ "fetchItem" \in AskOps
          /\ \A m \in NewsOf(t), n \in NewsOf(u) : m[1] # n[1]
      BY <1>1, <1>7, <1>8, <2>1, OpsAre
    <3> QED BY <1>1, <1>7, <1>8, <3>2, <3>3, FitsTwo
  <2>4. Len(p) = 2 /\ p[1] = t /\ p[2] = u /\ \A k \in 1..Len(p) : k = 1 \/ k = 2
    OBVIOUS
  <2> HIDE DEF p
  <2>5. Asks(w, p)
    <3>1. \A list \in Lists : ~Has(p, StoreOp(list))
      BY <1>7, <1>8, <1>9, <2>4 DEF Has, Lists
    <3>2. \A k \in 1..Len(p) : \A n \in NewsOf(p[k]) : Right(n[1], n[2])
      BY <1>6, <1>7, <1>8, <2>2, <2>4
    <3>3. q[1].op \notin WriteOps
      BY <1>1, OpsAre
    <3> QED BY <1>0, <3>1, <3>2, <3>3 DEF Asks, q
  <2>6. Locks(w, p) /\ owner' \in [Mutexes -> Workers \union {NoOne}]
    BY <1>0, <1>1 DEF Locks, TypeInv, q
  <2>7. /\ \A k \in 1..Len(p) : p[k].op \notin Quiet
        /\ q[1].op \notin Quiet
    BY <1>1, <1>7, <1>8, <2>4, OpsAre
  <2>8. CacheTurn(w, p)
    BY <1>0, <1>1, <2>0, <2>3, <2>5, <2>6, <2>7 DEF CacheTurn, Turn, q
  <2> QED BY <2>8
<1> QED BY <1>10, <1>11

\* The current user comes from the copy, from the cache, or from the API.
LEMMA GetCurrentUserTurns ==
  ASSUME TypeInv, NEW w \in Workers, GetCurrentUser(w)
  PROVE  \E p : CacheTurn(w, p)
<1> DEFINE v == cache[AtMe]
           t == Write("insert", {<<Current, v>>})
           u == Call("fetchItem", AtMe, FALSE)
<1>1. At(w, "getCurrentUser") /\ "getCurrentUser" \in WholeOps /\ known \in BOOLEAN
  BY DEF GetCurrentUser, WholeOps, TypeInv
<1>2. UNCHANGED <<world, cache, owner, crossed, fetched>> /\ known' \in BOOLEAN
  BY <1>1 DEF GetCurrentUser
<1>3. \/ Then(w, <<>>)
      \/ cache[Current] = 0 /\ v # 0 /\ Then(w, <<t>>)
      \/ Then(w, <<u>>)
  <2>1. CASE cache[Current] # 0
    BY <2>1 DEF GetCurrentUser, Present, Current
  <2>2. CASE cache[Current] = 0 /\ v # 0
    BY <2>2 DEF GetCurrentUser, Present, Current, AtMe, Insert
  <2>3. CASE cache[Current] = 0 /\ v = 0
    BY <2>3 DEF GetCurrentUser, Present, Current, AtMe
  <2> QED BY <2>1, <2>2, <2>3
<1> HIDE DEF v, t, u
<1>4. CASE Then(w, <<>>)
  BY <1>1, <1>2, <1>4, OpsAre, TurnNone
<1>5. CASE cache[Current] = 0 /\ v # 0 /\ Then(w, <<t>>)
  <2>1. v \in Versions /\ Current \in Slots /\ "insert" \in WriteOps
    BY SlotsAre DEF TypeInv, v, WriteOps
  <2>2. t \in Steps /\ t.op = "insert" /\ \A n : n \in NewsOf(t) <=> n = <<Current, v>>
    BY <1>5, <2>1, InsertIs DEF t
  <2>3. "insert" # StoreOp("channels") /\ "insert" # StoreOp("roles")
    BY DEF StoreOp
  <2>4. \A n \in NewsOf(t) : n = <<Current, cache[AtMe]>> /\ cache[Current] = 0
    BY <1>5, <2>2 DEF v
  <2>5. \A list \in Lists : t.op # StoreOp(list)
    BY <2>2, <2>3 DEF Lists
  <2>6. CacheTurn(w, <<t>>)
    BY <1>1, <1>2, <1>5, <2>1, <2>2, <2>4, <2>5, OpsAre, TurnWrite
  <2> QED BY <2>6
<1>6. CASE Then(w, <<u>>)
  <2>1. AtMe \in ItemSlots /\ "fetchItem" \in ItemOps
    BY SlotsAre DEF ItemSlots, ItemOps, AtMe
  <2>2. u \in Steps /\ u.op = "fetchItem" /\ NewsOf(u) = {}
    BY <2>1, CallIs DEF u
  <2>3. Weight("fetchItem") <= Weight("getCurrentUser")
    BY DEF Weight
  <2>4. CacheTurn(w, <<u>>)
    BY <1>1, <1>2, <1>6, <2>1, <2>2, <2>3, OpsAre, TurnCall
  <2> QED BY <2>4
<1> QED BY <1>3, <1>4, <1>5, <1>6

\* The steps that write are done as a whole.
LEMMA TurnStore ==
  ASSUME TypeInv, NEW w \in Workers, NEW op \in WriteOps \ {"storeGuildChannels"}, At(w, op),
         Store(w, News(w)), Then(w, <<>>), UNCHANGED <<world, owner>>, known' \in BOOLEAN,
         fetched' = IF op = "storeGuildRoles" THEN fetched \union {"roles"} ELSE fetched
  PROVE  \E p : CacheTurn(w, p)
<1>1. todo[w] # <<>> /\ todo[w][1].op = op /\ todo[w][1] \in Steps /\ News(w) = NewsOf(todo[w][1])
  BY AtIs, StepOp DEF News
<1>2. Fits(<<>>, todo[w][1])
  BY FitsNone
<1>3. \A list \in Lists : op = StoreOp(list) => list \in fetched'
  BY DEF StoreOp, Lists
<1>4. fetched \subseteq fetched' /\ fetched' \subseteq Lists /\ \A list \in fetched' \ fetched : op = StoreOp(list)
  BY DEF TypeInv, Lists, StoreOp
<1>5. Stores(w, <<>>)
  BY <1>1, <1>3, <1>4 DEF Stores
<1>6. Locks(w, <<>>) /\ owner' \in [Mutexes -> Workers \union {NoOne}]
  BY <1>1 DEF Locks, WriteOps, TypeInv
<1>7. CacheTurn(w, <<>>)
  BY <1>1, <1>2, <1>5, <1>6, OpsAre DEF CacheTurn, Turn
<1> QED BY <1>7

\* What is inserted was the news of the step.
LEMMA InsertItemTurns ==
  ASSUME TypeInv, NEW w \in Workers, InsertItem(w)
  PROVE  \E p : CacheTurn(w, p)
<1>1. "insert" \in WriteOps \ {"storeGuildChannels", "storeGuildRoles"}
  BY DEF WriteOps
<1> QED BY <1>1, TurnStore DEF InsertItem, TypeInv

\* A member is stored.
LEMMA StoreGuildUserTurns ==
  ASSUME TypeInv, NEW w \in Workers, StoreGuildUser(w)
  PROVE  \E p : CacheTurn(w, p)
<1>1. "insertGuildUser" \in WriteOps \ {"storeGuildChannels", "storeGuildRoles"}
  BY DEF WriteOps
<1> QED BY <1>1, TurnStore DEF StoreGuildUser

\* A channel id is stored.
LEMMA StoreGuildChannelTurns ==
  ASSUME TypeInv, NEW w \in Workers, StoreGuildChannel(w)
  PROVE  \E p : CacheTurn(w, p)
<1>1. "insertGuildChannel" \in WriteOps \ {"storeGuildChannels", "storeGuildRoles"}
  BY DEF WriteOps
<1> QED BY <1>1, TurnStore DEF StoreGuildChannel

\* A channel id is dropped.
LEMMA DropGuildChannelTurns ==
  ASSUME TypeInv, NEW w \in Workers, DropGuildChannel(w)
  PROVE  \E p : CacheTurn(w, p)
<1>1. "removeGuildChannel" \in WriteOps \ {"storeGuildChannels", "storeGuildRoles"}
  BY DEF WriteOps
<1> QED BY <1>1, TurnStore DEF DropGuildChannel, TypeInv

\* The roles are stored.
LEMMA StoreGuildRolesTurns ==
  ASSUME TypeInv, NEW w \in Workers, StoreGuildRoles(w)
  PROVE  \E p : CacheTurn(w, p)
<1>1. {"insertGuildRole", "storeGuildRoles"} \subseteq WriteOps \ {"storeGuildChannels"}
  BY DEF WriteOps
<1>2. CASE At(w, "insertGuildRole")
  BY <1>1, <1>2, AtIs, TurnStore DEF StoreGuildRoles
<1>3. CASE At(w, "storeGuildRoles")
  BY <1>1, <1>3, TurnStore DEF StoreGuildRoles
<1> QED BY <1>2, <1>3 DEF StoreGuildRoles

\* A role is dropped.
LEMMA DropGuildRoleTurns ==
  ASSUME TypeInv, NEW w \in Workers, DropGuildRole(w)
  PROVE  \E p : CacheTurn(w, p)
<1>1. "removeGuildRole" \in WriteOps \ {"storeGuildChannels", "storeGuildRoles"}
  BY DEF WriteOps
<1> QED BY <1>1, TurnStore DEF DropGuildRole, TypeInv

\* Members.
LEMMA GetGuildUserTurns ==
  ASSUME TypeInv, NEW w \in Workers, GetGuildUser(w)
  PROVE  \E p : CacheTurn(w, p)
<1> DEFINE x == Head(todo[w]).x
           t == Call("readGuildUser", x, FALSE)
           u == Call("fetchGuildUser", x, FALSE)
<1>1. /\ At(w, "getGuildUser") /\ {"getGuildUser", "readGuildUser", "fetchGuildUser"} \subseteq UserOps
      /\ UNCHANGED <<world, cache, owner, crossed, fetched>> /\ known' = known /\ known \in BOOLEAN
  BY DEF GetGuildUser, UserOps, TypeInv
<1>2. x \in Users
  BY <1>1, AtIs, StepOp
<1>3. Then(w, <<t>>) \/ Then(w, <<u>>)
  BY DEF GetGuildUser
<1>4. /\ t \in Steps /\ t.op = "readGuildUser" /\ NewsOf(t) = {}
      /\ u \in Steps /\ u.op = "fetchGuildUser" /\ NewsOf(u) = {}
  BY <1>1, <1>2, CallIs
<1> HIDE DEF x, t, u
<1>5. Weight("readGuildUser") <= Weight("getGuildUser") /\ Weight("fetchGuildUser") <= Weight("getGuildUser")
  BY DEF Weight
<1>6. Then(w, <<t>>) => CacheTurn(w, <<t>>)
  BY <1>1, <1>4, <1>5, OpsAre, TurnCall
<1>7. Then(w, <<u>>) => CacheTurn(w, <<u>>)
  BY <1>1, <1>4, <1>5, OpsAre, TurnCall
<1> QED BY <1>3, <1>6, <1>7

\* A lock taken, and given back after the call that is made with it.
LEMMA TurnLocked ==
  ASSUME TypeInv, NEW w \in Workers, NEW op, At(w, op), op \in AskOps \ Quiet, NEW t \in Steps, NEW m \in Mutexes,
         t.op \in AskOps \ (Quiet \union WriteOps \union {"created", "deleted"}), NewsOf(t) = {},
         Weight(t.op) + 1 <= Weight(op),
         Then(w, <<t, Unlock(m)>>), owner' = [owner EXCEPT ![m] = w],
         UNCHANGED <<world, cache, crossed, fetched>>, known' \in BOOLEAN
  PROVE  CacheTurn(w, <<t, Unlock(m)>>)
<1> DEFINE u == Unlock(m)
           p == <<t, u>>
<1>1. todo[w] # <<>> /\ todo[w][1].op = op
  BY AtIs
<1>2. u \in Steps /\ u.op = "unlock" /\ u.x = m /\ NewsOf(u) = {}
  BY CallIs DEF Unlock
<1> HIDE DEF u
<1>3. "unlock" \notin Quiet \union WriteOps \union AskOps /\ op \notin WriteOps
  BY DEF Quiet, GuildOps, RouteOps, WriteOps, AskOps, ItemOps, UserOps, RoleOps, WholeOps
<1>4. Fits(p, todo[w][1])
  <2>1. Weight(u.op) <= Weight(todo[w][1].op)
    BY <1>1, <1>2 DEF Weight
  <2>2. t.op # "ifRegistered"
    BY DEF Quiet
  <2> QED BY <1>1, <1>2, <2>1, <2>2, FitsTwo
<1>5. Len(p) = 2 /\ p[1] = t /\ p[2] = u /\ 2 \in 1..Len(p) /\ \A k \in 1..Len(p) : k = 1 \/ k = 2
  OBVIOUS
<1> HIDE DEF p
<1>6. Asks(w, p)
  <2>1. \A list : StoreOp(list) \in WriteOps
    BY DEF StoreOp, WriteOps
  <2>2. \A list \in Lists : ~Has(p, StoreOp(list))
    BY <1>2, <1>3, <1>5, <2>1 DEF Has
  <2> QED BY <1>1, <1>2, <1>3, <1>5, <2>2 DEF Asks
<1>7. owner' \in [Mutexes -> Workers \union {NoOne}] /\ owner'[m] = w /\ \A n \in Mutexes \ {m} : owner'[n] = owner[n]
  BY DEF TypeInv
<1>8. Locks(w, p)
  <2>1. todo[w][1].op \notin {"unlock", "storeGuildChannels"}
    BY <1>1, <1>3 DEF WriteOps
  <2> QED BY <1>2, <1>5, <1>7, <2>1 DEF Locks
<1>9. CacheTurn(w, p)
  BY <1>1, <1>2, <1>3, <1>4, <1>5, <1>6, <1>7, <1>8 DEF CacheTurn, Turn, p, u
<1> QED BY <1>9 DEF p, u

\* A member is found, or fetched with the mutex held.
LEMMA ReadGuildUserTurns ==
  ASSUME TypeInv, NEW w \in Workers, ReadGuildUser(w)
  PROVE  \E p : CacheTurn(w, p)
<1> DEFINE x == Head(todo[w]).x
           t == Call("fetchGuildUser", x, FALSE)
<1>1. /\ At(w, "readGuildUser") /\ {"readGuildUser", "fetchGuildUser"} \subseteq UserOps
      /\ UNCHANGED <<world, cache, crossed, fetched>> /\ known' \in BOOLEAN
  BY DEF ReadGuildUser, UserOps
<1>2. x \in Users
  BY <1>1, AtIs, StepOp
<1>3. \/ Then(w, <<>>) /\ UNCHANGED owner
      \/ Then(w, <<t, Unlock("users")>>) /\ owner' = [owner EXCEPT !["users"] = w]
  BY DEF ReadGuildUser
<1>4. t \in Steps /\ t.op = "fetchGuildUser" /\ NewsOf(t) = {} /\ "users" \in Mutexes
  BY <1>1, <1>2, CallIs DEF Mutexes
<1> HIDE DEF x, t
<1>5. Weight("fetchGuildUser") + 1 <= Weight("readGuildUser")
  BY DEF Weight
<1>6. CASE Then(w, <<>>) /\ UNCHANGED owner
  BY <1>1, <1>6, OpsAre, TurnNone
<1>7. CASE Then(w, <<t, Unlock("users")>>) /\ owner' = [owner EXCEPT !["users"] = w]
  <2>1. CacheTurn(w, <<t, Unlock("users")>>)
    BY <1>1, <1>4, <1>5, <1>7, OpsAre, TurnLocked
  <2> QED BY <2>1
<1> QED BY <1>3, <1>6, <1>7

\* A member was fetched, and is about to be stored.
LEMMA FetchGuildUserTurns ==
  ASSUME TypeInv, NEW w \in Workers, FetchGuildUser(w)
  PROVE  \E p : CacheTurn(w, p)
<1> DEFINE q == todo[w]
           x == Head(q).x
           v == world[x].v
           t == Write("insert", {<<<<"user", x>>, v>>})
           u == Write("insertGuildUser", {<<<<"member", x>>, v>>})
           p == <<t, u>>
<1>0. /\ At(w, "fetchGuildUser") /\ world[x].live
      /\ UNCHANGED <<world, cache, owner, crossed, fetched>> /\ known' = known
  BY DEF FetchGuildUser
<1>1. "fetchGuildUser" \in UserOps /\ x \in Users /\ known \in BOOLEAN /\ q[1].op = "fetchGuildUser" /\ q # <<>>
  BY <1>0, AtIs, StepOp DEF UserOps, TypeInv
<1>2. Then(w, p)
  BY DEF FetchGuildUser, Insert, InsertGuildUser
<1>3. v \in Versions /\ <<"user", x>> \in Slots /\ <<"member", x>> \in Slots /\ x \in Objects
  BY <1>1, WorldIs, SlotsAre DEF Objects
<1>4. Right(<<"user", x>>, v) /\ Right(<<"member", x>>, v)
  BY <1>0, <1>3, AnswerIsRight DEF Lists
<1> HIDE DEF q, x, v, t, u
<1>5. /\ t \in Steps /\ t.op = "insert" /\ \A n : n \in NewsOf(t) <=> n = <<<<"user", x>>, v>>
      /\ u \in Steps /\ u.op = "insertGuildUser" /\ \A n : n \in NewsOf(u) <=> n = <<<<"member", x>>, v>>
      /\ {"insert", "insertGuildUser"} \subseteq WriteOps
  <2>1. \A s \in {<<"user", x>>, <<"member", x>>} : \A op \in WriteOps :
           /\ Write(op, {<<s, v>>}) \in Steps /\ Write(op, {<<s, v>>}).op = op
           /\ \A n : n \in NewsOf(Write(op, {<<s, v>>})) <=> n = <<s, v>>
    <3>1. \A s \in {<<"user", x>>, <<"member", x>>} : s \in Slots /\ s[1] # "current"
      BY <1>3
    <3> QED BY <1>3, <3>1, InsertIs
  <2>2. {"insert", "insertGuildUser"} \subseteq WriteOps
    BY DEF WriteOps
  <2> QED BY <2>1, <2>2 DEF t, u
<1>6. Fits(p, q[1])
  <2>1. Weight(t.op) + 1 <= Weight(q[1].op) /\ Weight(u.op) <= Weight(q[1].op)
    BY <1>1, <1>5 DEF Weight
  <2>2. /\ "insert" \notin AskOps /\ "fetchGuildUser" \in AskOps
        /\ \A m \in NewsOf(t), n \in NewsOf(u) : m[1] # n[1]
    BY <1>1, <1>5, OpsAre
  <2> QED BY <1>1, <1>5, <2>1, <2>2, FitsTwo
<1>7. Len(p) = 2 /\ p[1] = t /\ p[2] = u /\ \A k \in 1..Len(p) : k = 1 \/ k = 2
  OBVIOUS
<1> HIDE DEF p
<1>8. Asks(w, p)
  <2>1. \A list \in Lists : ~Has(p, StoreOp(list))
    BY <1>5, <1>7 DEF Has, StoreOp
  <2>2. \A k \in 1..Len(p) : \A n \in NewsOf(p[k]) : Right(n[1], n[2])
    BY <1>4, <1>5, <1>7
  <2>3. q[1].op \notin WriteOps
    BY <1>1, OpsAre
  <2> QED BY <1>0, <2>1, <2>2, <2>3 DEF Asks, q
<1>9. Locks(w, p) /\ owner' \in [Mutexes -> Workers \union {NoOne}]
  BY <1>0, <1>1 DEF Locks, TypeInv, q
<1>10. (\A k \in 1..Len(p) : p[k].op \notin Quiet) /\ q[1].op \notin Quiet
  BY <1>1, <1>5, <1>7, OpsAre
<1>11. CacheTurn(w, p)
  BY <1>0, <1>1, <1>2, <1>6, <1>8, <1>9, <1>10 DEF CacheTurn, Turn, q
<1> QED BY <1>11

\* A lock given back.
LEMMA ReleaseLockTurns ==
  ASSUME TypeInv, NEW w \in Workers, ReleaseLock(w)
  PROVE  \E p : CacheTurn(w, p)
<1>1. todo[w] # <<>> /\ todo[w][1].op = "unlock" /\ todo[w][1] = Head(todo[w]) /\ todo[w][1].x \in Mutexes
  BY AtIs, StepOp DEF ReleaseLock
<1>2. /\ Then(w, <<>>) /\ owner' = [owner EXCEPT ![todo[w][1].x] = NoOne]
      /\ UNCHANGED <<world, cache, known, crossed, fetched>>
  BY <1>1 DEF ReleaseLock
<1>3. "unlock" \notin Quiet \union WriteOps
  BY DEF Quiet, GuildOps, RouteOps, WriteOps
<1>4. Fits(<<>>, todo[w][1]) /\ \A o : ~Has(<<>>, o)
  BY FitsNone
<1>5. Asks(w, <<>>)
  BY <1>1, <1>2, <1>3, <1>4 DEF Asks
<1>6. owner' \in [Mutexes -> Workers \union {NoOne}] /\ \A m \in Mutexes : owner'[m] = IF m = todo[w][1].x THEN NoOne ELSE owner[m]
  BY <1>1, <1>2 DEF TypeInv
<1>7. Locks(w, <<>>)
  BY <1>1, <1>6 DEF Locks
<1>8. CacheTurn(w, <<>>)
  BY <1>1, <1>2, <1>3, <1>4, <1>5, <1>6, <1>7 DEF CacheTurn, Turn, TypeInv
<1> QED BY <1>8

\* Channels.
LEMMA GetGuildChannelsTurns ==
  ASSUME TypeInv, NEW w \in Workers, GetGuildChannels(w)
  PROVE  \E p : CacheTurn(w, p)
<1> DEFINE t == Call("fetchGuildChannels", Guild, FALSE)
           x == Index("channels")
           u == Call("readGuildChannels", x, FALSE)
<1>1. /\ At(w, "getGuildChannels") /\ {"getGuildChannels", "fetchGuildChannels"} \subseteq WholeOps
      /\ UNCHANGED <<world, cache, owner, crossed, fetched>> /\ known' \in BOOLEAN
  BY DEF GetGuildChannels, WholeOps
<1>2. x \in SUBSET Channels
  BY SlotKinds DEF Index
<1>3. Then(w, <<t>>) \/ Then(w, <<u>>)
  BY DEF GetGuildChannels
<1> HIDE DEF x
<1>4. /\ t \in Steps /\ t.op = "fetchGuildChannels" /\ NewsOf(t) = {}
      /\ u \in Steps /\ u.op = "readGuildChannels" /\ NewsOf(u) = {}
  BY <1>1, <1>2, CallIs
<1> HIDE DEF t, u
<1>5. Weight("fetchGuildChannels") <= Weight("getGuildChannels") /\ Weight("readGuildChannels") <= Weight("getGuildChannels")
  BY DEF Weight
<1>6. Then(w, <<t>>) => CacheTurn(w, <<t>>)
  BY <1>1, <1>4, <1>5, OpsAre, TurnCall
<1>7. Then(w, <<u>>) => CacheTurn(w, <<u>>)
  BY <1>1, <1>4, <1>5, OpsAre, TurnCall
<1> QED BY <1>3, <1>6, <1>7

\* The channels are read one by one.
LEMMA ReadGuildChannelsTurns ==
  ASSUME TypeInv, NEW w \in Workers, ReadGuildChannels(w)
  PROVE  \E p : CacheTurn(w, p)
<1> DEFINE t == Call("fetchGuildChannels", Guild, FALSE)
           all == \A c \in Arg(w) : Present("channel", c)
<1>1. /\ At(w, "readGuildChannels") /\ "fetchGuildChannels" \in WholeOps
      /\ UNCHANGED <<world, cache, owner, crossed, fetched>> /\ known' \in BOOLEAN
  BY DEF ReadGuildChannels, WholeOps, TypeInv
<1>2. Then(w, <<>>) \/ Then(w, <<t>>)
  <2>0. Then(w, IF all THEN <<>> ELSE <<t>>)
    BY DEF ReadGuildChannels
  <2> HIDE DEF all, t
  <2> QED BY <2>0
<1>3. t \in Steps /\ t.op = "fetchGuildChannels" /\ NewsOf(t) = {}
  BY <1>1, CallIs
<1> HIDE DEF t
<1>4. Weight("fetchGuildChannels") <= Weight("readGuildChannels")
  BY DEF Weight
<1>5. Then(w, <<>>) => CacheTurn(w, <<>>)
  BY <1>1, OpsAre, TurnNone
<1>6. Then(w, <<t>>) => CacheTurn(w, <<t>>)
  BY <1>1, <1>3, <1>4, OpsAre, TurnCall
<1> QED BY <1>2, <1>5, <1>6

\* The list of channels was fetched: all that are there.
LEMMA FetchGuildChannelsTurns ==
  ASSUME TypeInv, NEW w \in Workers, FetchGuildChannels(w)
  PROVE  \E p : CacheTurn(w, p)
<1> DEFINE news == UNION {{<<<<"channels", c>>, 1>>, <<<<"channel", c>>, world[c].v>>} :
                             c \in {d \in Channels : world[d].live}}
           t == Write("storeGuildChannels", news)
<1>1. /\ At(w, "fetchGuildChannels") /\ "fetchGuildChannels" \in WholeOps
      /\ UNCHANGED <<world, cache, owner, crossed, fetched>> /\ known' \in BOOLEAN
      /\ Then(w, <<t>>)
  BY DEF FetchGuildChannels, WholeOps, TypeInv
<1>2. /\ news \in Newses
      /\ \A n \in news : /\ n[1][1] \in {"channel", "channels"} /\ n[1][2] \in Channels /\ world[n[1][2]].live
                         /\ n[2] = IF n[1][1] = "channels" THEN 1 ELSE world[n[1][2]].v
      /\ \A c \in Channels : world[c].live => <<<<"channels", c>>, 1>> \in news
  BY ChannelListIs
<1> HIDE DEF news
<1>3. t \in Steps /\ t.op = "storeGuildChannels" /\ NewsOf(t) = news /\ t.op \in WriteOps
  <2>1. "storeGuildChannels" \in WriteOps
    BY DEF WriteOps
  <2> QED BY <1>2, <2>1, WriteIs
<1> HIDE DEF t
<1>4. \A n \in NewsOf(t) : Right(n[1], n[2])
  BY <1>2, <1>3 DEF Right, Lists
<1>5. \A list \in Lists : t.op = StoreOp(list) =>
             \A s \in Slots : s[1] = list /\ world[s[2]].live => <<s, 1>> \in NewsOf(t)
  <2> SUFFICES ASSUME NEW list \in Lists, t.op = StoreOp(list), NEW s \in Slots, s[1] = list, world[s[2]].live
               PROVE  <<s, 1>> \in NewsOf(t)
    OBVIOUS
  <2>1. list = "channels"
    BY <1>3 DEF StoreOp, Lists
  <2>2. s = <<"channels", s[2]>> /\ s[2] \in Channels
    BY <2>1, SlotKinds
  <2> QED BY <1>2, <1>3, <2>2
<1>6. CacheTurn(w, <<t>>)
  BY <1>1, <1>3, <1>4, <1>5, OpsAre, TurnWrite
<1> QED BY <1>6

\* The list of channels is stored, and the rest of it after it.
LEMMA StoreGuildChannelsTurns ==
  ASSUME TypeInv, NEW w \in Workers, StoreGuildChannels(w)
  PROVE  \E p : CacheTurn(w, p)
<1> DEFINE q == todo[w]
           news == NewsOf(q[1])
<1>0. At(w, "storeGuildChannels") /\ known' = TRUE /\ UNCHANGED world
  BY DEF StoreGuildChannels
<1>1. /\ q # <<>> /\ q[1] \in Steps /\ q[1].op = "storeGuildChannels" /\ News(w) = news /\ news \in Newses
      /\ "storeGuildChannels" \in WriteOps /\ "channels" \in Mutexes /\ "channels" \in Lists
  BY <1>0, AtIs, StepOp DEF News, WriteOps, Mutexes, Lists
<1>2. owner \in [Mutexes -> Workers \union {NoOne}] /\ fetched \subseteq Lists
  BY DEF TypeInv
<1>3. /\ \A list \in Lists : "storeGuildChannels" = StoreOp(list) => list = "channels"
      /\ "storeGuildChannels" = StoreOp("channels")
  BY DEF StoreOp, Lists
<1>4. \/ /\ news = {} /\ fetched' = fetched \union {"channels"} /\ owner' = [owner EXCEPT !["channels"] = NoOne]
         /\ Then(w, <<>>) /\ UNCHANGED <<cache, crossed>>
      \/ \E c \in Channels :
           LET turn == {n \in news : n[1][2] = c}
           IN /\ Store(w, turn) /\ owner' = [owner EXCEPT !["channels"] = w]
              /\ Then(w, <<Write("storeGuildChannels", news \ turn)>>)
              /\ UNCHANGED fetched
  BY <1>1 DEF StoreGuildChannels
<1> HIDE DEF q, news
<1>5. CASE /\ news = {} /\ fetched' = fetched \union {"channels"} /\ owner' = [owner EXCEPT !["channels"] = NoOne]
           /\ Then(w, <<>>) /\ UNCHANGED <<cache, crossed>>
  <2>1. Stores(w, <<>>)
    BY <1>1, <1>2, <1>3, <1>5 DEF Stores, q, news
  <2>2. Locks(w, <<>>) /\ owner' \in [Mutexes -> Workers \union {NoOne}]
    BY <1>1, <1>2, <1>5 DEF Locks, q
  <2>3. CacheTurn(w, <<>>)
    BY <1>0, <1>1, <1>5, <2>1, <2>2, FitsNone, OpsAre DEF CacheTurn, Turn, q
  <2> QED BY <2>3
<1>6. ASSUME NEW turn \in SUBSET news, Store(w, turn), owner' = [owner EXCEPT !["channels"] = w],
             Then(w, <<Write("storeGuildChannels", news \ turn)>>), UNCHANGED fetched
      PROVE  \E p : CacheTurn(w, p)
  <2> DEFINE t == Write("storeGuildChannels", news \ turn)
             p == <<t>>
  <2>1. news \ turn \in Newses
    BY <1>1 DEF Newses
  <2>2. t \in Steps /\ t.op = "storeGuildChannels" /\ NewsOf(t) = news \ turn
    BY <1>1, <2>1, WriteIs
  <2> HIDE DEF t
  <2>3. Len(p) = 1 /\ p[1] = t /\ p # <<>> /\ 1 \in 1..Len(p) /\ \A k \in 1..Len(p) : k = 1
    OBVIOUS
  <2>4. Fits(p, q[1])
    <3>1. t.op \notin AskOps /\ t.op \notin {"ifRegistered", "created", "deleted"}
      BY <1>1, <2>2, OpsAre DEF AskOps
    <3>2. Weight(t.op) <= Weight(q[1].op)
      BY <1>1, <2>2 DEF Weight
    <3>3. NewsOf(t) \subseteq NewsOf(q[1])
      BY <2>2 DEF news
    <3> QED BY <2>2, <3>1, <3>2, <3>3, FitsOne
  <2>5. Stores(w, p)
    BY <1>1, <1>2, <1>6, <2>3 DEF Stores, q, news, t
  <2>6. Locks(w, p)
    <3>1. owner'["channels"] = w /\ \A m \in Mutexes \ {"channels"} : owner'[m] = owner[m]
      BY <1>1, <1>2, <1>6
    <3> QED BY <1>1, <2>2, <2>3, <3>1 DEF Locks, q
  <2>7. owner' \in [Mutexes -> Workers \union {NoOne}]
    BY <1>2, <1>6
  <2>8. CacheTurn(w, p)
    BY <1>0, <1>1, <1>6, <2>2, <2>3, <2>4, <2>5, <2>6, <2>7, OpsAre DEF CacheTurn, Turn, q, t
  <2> QED BY <2>8
<1>7. ASSUME NEW c \in Channels,
             LET turn == {n \in news : n[1][2] = c}
             IN /\ Store(w, turn) /\ owner' = [owner EXCEPT !["channels"] = w]
                /\ Then(w, <<Write("storeGuildChannels", news \ turn)>>)
                /\ UNCHANGED fetched
      PROVE  \E p : CacheTurn(w, p)
  <2>1. {n \in news : n[1][2] = c} \in SUBSET news
    OBVIOUS
  <2> QED BY <1>6, <1>7, <2>1
<1> QED BY <1>4, <1>5, <1>7

\* Roles.
LEMMA GetGuildRolesTurns ==
  ASSUME TypeInv, NEW w \in Workers, GetGuildRoles(w)
  PROVE  \E p : CacheTurn(w, p)
<1> DEFINE t == Call("fetchGuildRoles", Guild, FALSE)
           u == Call("readGuildRoles", Guild, FALSE)
<1>1. /\ At(w, "getGuildRoles") /\ {"getGuildRoles", "readGuildRoles", "fetchGuildRoles"} \subseteq WholeOps
      /\ UNCHANGED <<world, cache, owner, crossed, fetched>> /\ known' \in BOOLEAN
  BY DEF GetGuildRoles, WholeOps, TypeInv
<1>2. Then(w, <<t>>) \/ Then(w, <<u>>)
  BY DEF GetGuildRoles
<1>3. /\ t \in Steps /\ t.op = "fetchGuildRoles" /\ NewsOf(t) = {}
      /\ u \in Steps /\ u.op = "readGuildRoles" /\ NewsOf(u) = {}
  BY <1>1, CallIs
<1> HIDE DEF t, u
<1>4. Weight("fetchGuildRoles") <= Weight("getGuildRoles") /\ Weight("readGuildRoles") <= Weight("getGuildRoles")
  BY DEF Weight
<1>5. Then(w, <<t>>) => CacheTurn(w, <<t>>)
  BY <1>1, <1>3, <1>4, OpsAre, TurnCall
<1>6. Then(w, <<u>>) => CacheTurn(w, <<u>>)
  BY <1>1, <1>3, <1>4, OpsAre, TurnCall
<1> QED BY <1>2, <1>5, <1>6

\* The roles are found, or fetched with the mutex held.
LEMMA ReadGuildRolesTurns ==
  ASSUME TypeInv, NEW w \in Workers, ReadGuildRoles(w)
  PROVE  \E p : CacheTurn(w, p)
<1> DEFINE t == Call("fetchGuildRoles", Guild, FALSE)
           all == \A r \in Index("roles") : Present("role", r)
<1>1. /\ At(w, "readGuildRoles") /\ {"readGuildRoles", "fetchGuildRoles"} \subseteq WholeOps
      /\ UNCHANGED <<world, cache, crossed, fetched>> /\ known' \in BOOLEAN
  BY DEF ReadGuildRoles, WholeOps, TypeInv
<1>2. \/ Then(w, <<t, Unlock("roles")>>) /\ owner' = [owner EXCEPT !["roles"] = w]
      \/ Then(w, IF all THEN <<>> ELSE <<t>>) /\ UNCHANGED owner
  BY DEF ReadGuildRoles
<1> HIDE DEF all
<1>3. t \in Steps /\ t.op = "fetchGuildRoles" /\ NewsOf(t) = {} /\ "roles" \in Mutexes
  BY <1>1, CallIs DEF Mutexes
<1> HIDE DEF t
<1>4. Weight("fetchGuildRoles") + 1 <= Weight("readGuildRoles") /\ Weight("fetchGuildRoles") <= Weight("readGuildRoles")
  BY DEF Weight
<1>5. CASE Then(w, <<t, Unlock("roles")>>) /\ owner' = [owner EXCEPT !["roles"] = w]
  <2>1. CacheTurn(w, <<t, Unlock("roles")>>)
    BY <1>1, <1>3, <1>4, <1>5, OpsAre, TurnLocked
  <2> QED BY <2>1
<1>6. CASE Then(w, <<>>) /\ UNCHANGED owner
  BY <1>1, <1>6, OpsAre, TurnNone
<1>7. CASE Then(w, <<t>>) /\ UNCHANGED owner
  <2>1. CacheTurn(w, <<t>>)
    BY <1>1, <1>3, <1>4, <1>7, OpsAre, TurnCall
  <2> QED BY <2>1
<1> QED BY <1>2, <1>5, <1>6, <1>7

\* A role is looked for.
LEMMA GetGuildRoleTurns ==
  ASSUME TypeInv, NEW w \in Workers, GetGuildRole(w)
  PROVE  \E p : CacheTurn(w, p)
<1> DEFINE x == Head(todo[w]).x
           t == Call("fetchGuildRole", x, FALSE)
           u == Call("readGuildRole", x, FALSE)
<1>1. /\ At(w, "getGuildRole") /\ {"getGuildRole", "readGuildRole", "fetchGuildRole"} \subseteq RoleOps
      /\ UNCHANGED <<world, cache, owner, crossed, fetched>> /\ known' \in BOOLEAN
  BY DEF GetGuildRole, RoleOps, TypeInv
<1>2. x \in Roles
  BY <1>1, AtIs, StepOp
<1>3. Then(w, <<t>>) \/ Then(w, <<u>>)
  BY DEF GetGuildRole
<1>4. /\ t \in Steps /\ t.op = "fetchGuildRole" /\ NewsOf(t) = {}
      /\ u \in Steps /\ u.op = "readGuildRole" /\ NewsOf(u) = {}
  BY <1>1, <1>2, CallIs
<1> HIDE DEF x, t, u
<1>5. Weight("readGuildRole") <= Weight("getGuildRole") /\ Weight("fetchGuildRole") <= Weight("getGuildRole")
  BY DEF Weight
<1>6. Then(w, <<t>>) => CacheTurn(w, <<t>>)
  BY <1>1, <1>4, <1>5, OpsAre, TurnCall
<1>7. Then(w, <<u>>) => CacheTurn(w, <<u>>)
  BY <1>1, <1>4, <1>5, OpsAre, TurnCall
<1> QED BY <1>3, <1>6, <1>7

\* A role is found, or fetched.
LEMMA ReadGuildRoleTurns ==
  ASSUME TypeInv, NEW w \in Workers, ReadGuildRole(w)
  PROVE  \E p : CacheTurn(w, p)
<1> DEFINE x == Head(todo[w]).x
           t == Call("fetchGuildRole", x, FALSE)
<1>1. /\ At(w, "readGuildRole") /\ {"readGuildRole", "fetchGuildRole"} \subseteq RoleOps
      /\ UNCHANGED <<world, cache, owner, crossed, fetched>> /\ known' \in BOOLEAN
  BY DEF ReadGuildRole, RoleOps, TypeInv
<1>2. x \in Roles
  BY <1>1, AtIs, StepOp
<1>3. Then(w, <<>>) \/ Then(w, <<t>>)
  BY DEF ReadGuildRole
<1>4. t \in Steps /\ t.op = "fetchGuildRole" /\ NewsOf(t) = {}
  BY <1>1, <1>2, CallIs
<1> HIDE DEF x, t
<1>5. Weight("fetchGuildRole") <= Weight("readGuildRole")
  BY DEF Weight
<1>6. Then(w, <<>>) => CacheTurn(w, <<>>)
  BY <1>1, OpsAre, TurnNone
<1>7. Then(w, <<t>>) => CacheTurn(w, <<t>>)
  BY <1>1, <1>4, <1>5, OpsAre, TurnCall
<1> QED BY <1>3, <1>6, <1>7

\* What is known of roles that exist is true.
LEMMA RolesAreRight ==
  ASSUME TypeInv, NEW n \in Slots \X Versions, n[1][1] \in {"role", "roles"}, n[1][2] \in LiveRoles,
         n[2] = IF n[1][1] = "roles" THEN 1 ELSE world[n[1][2]].v
  PROVE  Right(n[1], n[2])
BY DEF Right, LiveRoles, Lists

\* The list of roles was fetched: all that are there.
LEMMA FetchGuildRolesTurns ==
  ASSUME TypeInv, NEW w \in Workers, FetchGuildRoles(w)
  PROVE  \E p : CacheTurn(w, p)
<1>1. /\ At(w, "fetchGuildRoles") /\ "fetchGuildRoles" \in WholeOps
      /\ UNCHANGED <<world, cache, owner, crossed, fetched>> /\ known' \in BOOLEAN
      /\ Then(w, <<RoleList>>)
  BY DEF FetchGuildRoles, WholeOps, TypeInv
<1>2. RoleList \in Steps /\ RoleList.op = "storeGuildRoles" /\ RoleList.op \in WriteOps
  BY RoleListIs DEF WriteOps
<1>3. \A n \in NewsOf(RoleList) : Right(n[1], n[2])
  BY RoleListIs, RolesAreRight
<1>4. \A list \in Lists : RoleList.op = StoreOp(list) =>
             \A s \in Slots : s[1] = list /\ world[s[2]].live => <<s, 1>> \in NewsOf(RoleList)
  <2> SUFFICES ASSUME NEW list \in Lists, RoleList.op = StoreOp(list), NEW s \in Slots, s[1] = list, world[s[2]].live
               PROVE  <<s, 1>> \in NewsOf(RoleList)
    OBVIOUS
  <2>1. list = "roles"
    BY <1>2 DEF StoreOp, Lists
  <2>2. s = <<"roles", s[2]>> /\ s[2] \in LiveRoles
    BY <2>1, SlotKinds DEF LiveRoles
  <2> QED BY <2>2, RoleListIs
<1>5. CacheTurn(w, <<RoleList>>)
  BY <1>1, <1>2, <1>3, <1>4, OpsAre, TurnWrite
<1> QED BY <1>5

\* A role was fetched, and is about to be stored.
LEMMA FetchGuildRoleTurns ==
  ASSUME TypeInv, NEW w \in Workers, FetchGuildRole(w)
  PROVE  \E p : CacheTurn(w, p)
<1> DEFINE x == Head(todo[w]).x
           v == world[x].v
           t == Write("insertGuildRole", RoleNews(x, v))
<1>1. /\ At(w, "fetchGuildRole") /\ "fetchGuildRole" \in RoleOps /\ x \in LiveRoles
      /\ UNCHANGED <<world, cache, owner, crossed, fetched>> /\ known' \in BOOLEAN
      /\ Then(w, <<t>>)
  BY DEF FetchGuildRole, RoleOps, TypeInv, InsertGuildRole
<1>2. x \in Roles /\ v \in Versions
  BY <1>1, WorldIs DEF LiveRoles, Objects
<1> HIDE DEF x
<1>3. /\ RoleNews(x, v) \in Newses
      /\ \A s, y : <<s, y>> \in RoleNews(x, v) <=>
               (s = <<"roles", x>> /\ y = 1) \/ (s = <<"role", x>> /\ y = v)
  BY <1>2, RoleNewsIs
<1>4. t \in Steps /\ t.op = "insertGuildRole" /\ NewsOf(t) = RoleNews(x, v) /\ t.op \in WriteOps
  <2>1. "insertGuildRole" \in WriteOps
    BY DEF WriteOps
  <2> QED BY <1>3, <2>1, WriteIs
<1>5. \A n \in RoleNews(x, v) : Right(n[1], n[2])
  <2> SUFFICES ASSUME NEW n \in RoleNews(x, v) PROVE Right(n[1], n[2])
    OBVIOUS
  <2>1. n = <<<<"roles", x>>, 1>> \/ n = <<<<"role", x>>, v>>
    BY DEF RoleNews
  <2>2. world[x].live /\ "roles" \in Lists /\ "role" \notin Lists
    BY <1>1 DEF LiveRoles, Lists
  <2>3. Right(<<"roles", x>>, 1) /\ Right(<<"role", x>>, v)
    BY <2>2 DEF Right
  <2> QED BY <2>1, <2>3
<1> HIDE DEF t
<1>6. \A list \in Lists : t.op # StoreOp(list)
  BY <1>4 DEF StoreOp
<1>7. CacheTurn(w, <<t>>)
  BY <1>1, <1>4, <1>5, <1>6, OpsAre, TurnWrite
<1> QED BY <1>7

\* Every step inside the caches.
LEMMA CacheStepTurns ==
  ASSUME TypeInv, NEW w \in Workers, CacheStep(w)
  PROVE  \E p : CacheTurn(w, p)
BY GetItemTurns, FetchFailsTurns, FetchItemTurns, InsertItemTurns, GetCurrentUserTurns, StoreGuildUserTurns,
   GetGuildUserTurns, ReadGuildUserTurns, FetchGuildUserTurns, ReleaseLockTurns, GetGuildChannelsTurns,
   ReadGuildChannelsTurns, FetchGuildChannelsTurns, StoreGuildChannelsTurns, StoreGuildChannelTurns,
   DropGuildChannelTurns, StoreGuildRolesTurns, DropGuildRoleTurns, GetGuildRolesTurns, ReadGuildRolesTurns,
   GetGuildRoleTurns, ReadGuildRoleTurns, FetchGuildRolesTurns, FetchGuildRoleTurns
   DEF CacheStep

-----------------------------------------------------------------------------
(* What a turn of one worker keeps                                         *)

\* What is stored, slot by slot.
LEMMA StoreIs ==
  ASSUME TypeInv, NEW w \in Workers, NEW news \in Newses, Store(w, news)
  PROVE  /\ cache' \in [Slots -> Versions] /\ crossed' \subseteq Slots
         /\ \A s \in Slots : \A v : <<s, v>> \in news =>
               /\ cache'[s] = v
               /\ \A o \in Workers \ {w} : \A y : Brings(todo[o], s, y) => s \in crossed'
               /\ s \in crossed /\ ~Right(s, v) => s \in crossed'
         /\ \A s \in Slots : (\A v : <<s, v>> \notin news) =>
               cache'[s] = cache[s] /\ (s \in crossed => s \in crossed')
<1> DEFINE written == {n[1] : n \in news}
           value(s) == (CHOOSE n \in news : n[1] = s)[2]
           contested == {s \in written : \E o \in Workers \ {w} : \E n \in Carries(o) : n[1] = s}
           settled == {s \in written \ contested : Right(s, value(s))}
<1>1. /\ cache' = [s \in Slots |-> IF s \in written THEN value(s) ELSE cache[s]]
      /\ crossed' = (crossed \ settled) \union contested
  BY DEF Store
<1>2. news \subseteq Slots \X Versions /\ \A m, n \in news : m[1] = n[1] => m = n
  BY DEF Newses
<1>3. ASSUME NEW s, NEW v, <<s, v>> \in news PROVE s \in written /\ value(s) = v
  <2>1. <<s, v>>[1] = s
    OBVIOUS
  <2>2. \E n \in news : n[1] = s
    BY <1>3, <2>1
  <2> DEFINE c == CHOOSE n \in news : n[1] = s
  <2>3. c \in news /\ c[1] = s /\ value(s) = c[2]
    BY <2>2
  <2> HIDE DEF c, value
  <2>4. c = <<s, v>>
    BY <1>2, <1>3, <2>1, <2>3
  <2>5. value(s) = v
    BY <2>3, <2>4
  <2>6. s \in written
    BY <2>2
  <2> QED BY <2>5, <2>6
<1>4. ASSUME NEW s \in written PROVE \E v \in Versions : s \in Slots /\ <<s, v>> \in news
  <2>1. PICK n \in news : n[1] = s
    OBVIOUS
  <2>2. n = <<n[1], n[2]>> /\ n[1] \in Slots /\ n[2] \in Versions
    BY <1>2
  <2> QED BY <2>1, <2>2
<1>5. \A o \in Workers : \A s, y : Brings(todo[o], s, y) => <<s, y>> \in Carries(o)
  BY CarriesIs DEF Brings
<1>6. cache \in [Slots -> Versions] /\ crossed \subseteq Slots
  BY DEF TypeInv
<1>8. ASSUME NEW s \in written, NEW o \in Workers \ {w}, NEW y, Brings(todo[o], s, y)
      PROVE  s \in contested
  <2>1. <<s, y>> \in Carries(o) /\ <<s, y>>[1] = s
    BY <1>5, <1>8
  <2> HIDE DEF written
  <2> QED BY <2>1
<1>9. contested \subseteq written /\ settled \subseteq written
      /\ \A s \in settled : Right(s, value(s))
  OBVIOUS
<1> HIDE DEF written, value, contested, settled
<1>7. ASSUME NEW s \in Slots, s \in written PROVE value(s) \in Versions
  <2>1. PICK v \in Versions : <<s, v>> \in news
    BY <1>4, <1>7
  <2> QED BY <1>3, <2>1
<1>10. cache' \in [Slots -> Versions]
  BY <1>1, <1>6, <1>7
<1>11. crossed' \subseteq Slots
  BY <1>1, <1>4, <1>6, <1>9
<1>12. ASSUME NEW s \in Slots, NEW v, <<s, v>> \in news
       PROVE  /\ cache'[s] = v
              /\ \A o \in Workers \ {w} : \A y : Brings(todo[o], s, y) => s \in crossed'
              /\ s \in crossed /\ ~Right(s, v) => s \in crossed'
  <2>1. s \in written /\ value(s) = v
    BY <1>3, <1>12
  <2> QED BY <1>1, <1>8, <1>9, <2>1
<1>13. ASSUME NEW s \in Slots, \A v : <<s, v>> \notin news
       PROVE  cache'[s] = cache[s] /\ (s \in crossed => s \in crossed')
  <2>1. s \notin written
    BY <1>4, <1>13
  <2> QED BY <1>1, <1>9, <2>1
<1> QED BY <1>10, <1>11, <1>12, <1>13

\* Types inside the caches.
LEMMA TurnTypes ==
  ASSUME TypeInv, GoodInv, NEW w \in Workers, NEW p, Turn(w, p)
  PROVE  /\ todo' \in [Workers -> Seq(Steps)] /\ GoodInv'
         /\ cache' \in [Slots -> Versions] /\ crossed' \subseteq Slots /\ fetched' \subseteq Lists
<1>1. todo[w] # <<>> /\ Then(w, p) /\ Fits(p, todo[w][1]) /\ p \in Seq(Steps)
  BY DEF Turn, Fits
<1>2. /\ todo' \in [Workers -> Seq(Steps)] /\ \A o \in Workers \ {w} : todo'[o] = todo[o]
      /\ todo'[w] = p \o Tail(todo[w]) /\ todo[w][1] \in Steps
  BY <1>1, ThenIs
<1>3. Good(todo'[w])
  BY <1>1, <1>2, GoodSpliced DEF GoodInv
<1>4. GoodInv'
  BY <1>2, <1>3 DEF GoodInv
<1>5. CASE Asks(w, p)
  BY <1>2, <1>4, <1>5 DEF Asks, TypeInv
<1>6. CASE Stores(w, p)
  <2>1. PICK news \in SUBSET NewsOf(todo[w][1]) : Store(w, news) \/ (news = {} /\ UNCHANGED <<cache, crossed>>)
    BY <1>6 DEF Stores
  <2>2. news \in Newses
    BY <1>2, <2>1, StepOp DEF Newses
  <2>3. cache' \in [Slots -> Versions] /\ crossed' \subseteq Slots
    BY <2>1, <2>2, StoreIs DEF TypeInv
  <2> QED BY <1>2, <1>4, <1>6, <2>3 DEF Stores
<1> QED BY <1>5, <1>6 DEF Turn

\* Which steps are left, of an operation that is not done and not called.
LEMMA ThenHas ==
  ASSUME TypeInv, NEW w \in Workers, todo[w] # <<>>, NEW p \in Seq(Steps), Then(w, p)
  PROVE  /\ \A i \in 1..Len(todo[w]) : i = 1 \/ \E k \in 1..Len(todo'[w]) : todo'[w][k] = todo[w][i]
         /\ \A k \in 1..Len(todo'[w]) : \/ \E i \in 1..Len(p) : todo'[w][k] = p[i]
                                        \/ \E i \in 2..Len(todo[w]) : todo'[w][k] = todo[w][i]
         /\ \A i \in 1..Len(p) : \E k \in 1..Len(todo'[w]) : todo'[w][k] = p[i]
<1> DEFINE q == todo[w]
           r == todo'[w]
<1>1. /\ Len(q) \in Nat
      /\ \A k \in 1..Len(p) : k \in 1..Len(r) /\ r[k] = p[k]
      /\ \A i \in 2..Len(q) : i - 1 + Len(p) \in 1..Len(r) /\ r[i - 1 + Len(p)] = q[i]
      /\ \A k \in 1..Len(r) : k \in 1..Len(p) \/ \E i \in 2..Len(q) : k = i - 1 + Len(p)
  BY ThenIs
<1> HIDE DEF q, r
<1>2. \A i \in 1..Len(q) : i = 1 \/ i \in 2..Len(q)
  BY <1>1
<1>3. \A i \in 1..Len(q) : i = 1 \/ \E k \in 1..Len(r) : r[k] = q[i]
  BY <1>1, <1>2
<1>4. \A k \in 1..Len(r) : (\E i \in 1..Len(p) : r[k] = p[i]) \/ \E i \in 2..Len(q) : r[k] = q[i]
  BY <1>1
<1> QED BY <1>1, <1>3, <1>4 DEF q, r

\* The locks.
LEMMA TurnLocks ==
  ASSUME TypeInv, LockInv, NEW w \in Workers, NEW p, Turn(w, p),
         readers' \subseteq Workers,
         \A o \in readers' : \/ o \in readers /\ (o = w => todo[w][1].op # "unshare")
                             \/ o = w /\ Has(p, "unshare")
  PROVE  LockInv'
<1> DEFINE q == todo[w]
           r == todo'[w]
           Keeps(t, m) == \/ t.op = "unlock" /\ t.x = m
                          \/ t.op = "storeGuildChannels" /\ m = "channels"
<1>1. todo[w] # <<>> /\ Then(w, p) /\ Fits(p, todo[w][1]) /\ p \in Seq(Steps) /\ Locks(w, p)
      /\ owner' \in [Mutexes -> Workers \union {NoOne}]
  BY DEF Turn, Fits
<1>2. /\ \A o \in Workers \ {w} : todo'[o] = todo[o]
      /\ Len(q) \in Nat
  BY <1>1, ThenIs
<1>3. /\ \A i \in 1..Len(q) : i = 1 \/ \E k \in 1..Len(r) : r[k] = q[i]
      /\ \A i \in 1..Len(p) : \E k \in 1..Len(r) : r[k] = p[i]
  BY <1>1, ThenHas
<1>4. ASSUME NEW m \in Mutexes, owner'[m] # NoOne
      PROVE  \E i \in 1..Len(todo'[owner'[m]]) : Keeps(todo'[owner'[m]][i], m)
  <2>1. CASE /\ owner'[m] = owner[m]
             /\ owner[m] = w => ~Keeps(q[1], m)
    <3>1. PICK i \in 1..Len(todo[owner[m]]) : Keeps(todo[owner[m]][i], m)
      BY <1>4, <2>1 DEF LockInv
    <3>2. CASE owner[m] = w
      BY <1>3, <2>1, <3>1, <3>2, SMTT(30)
    <3>3. CASE owner[m] # w
      <4>1. owner[m] \in Workers
        BY <1>1, <1>4, <2>1
      <4> QED BY <1>2, <2>1, <3>1, <3>3, <4>1
    <3> QED BY <3>2, <3>3
  <2>2. CASE owner'[m] = w /\ \E k \in 1..Len(p) : Keeps(p[k], m)
    BY <1>3, <2>2
  <2> QED BY <1>1, <1>4, <2>1, <2>2 DEF Locks
<1>5. ASSUME NEW o \in readers' PROVE Has(todo'[o], "unshare")
  <2>1. CASE o = w /\ Has(p, "unshare")
    BY <1>3, <2>1 DEF Has
  <2>2. CASE o \in readers /\ (o = w => todo[w][1].op # "unshare")
    <3>1. Has(todo[o], "unshare") /\ o \in Workers
      BY <2>2 DEF LockInv, TypeInv
    <3>2. CASE o = w
      BY <1>3, <2>2, <3>1, <3>2 DEF Has
    <3>3. CASE o # w
      BY <1>2, <3>1, <3>3
    <3> QED BY <3>2, <3>3
  <2> QED BY <2>1, <2>2
<1> QED BY <1>4, <1>5 DEF LockInv

\* The news that a worker has left.
LEMMA TurnBrings ==
  ASSUME TypeInv, NEW w \in Workers, todo[w] # <<>>, NEW p \in Seq(Steps), Then(w, p), NEW s, NEW v
  PROVE  /\ Brings(todo'[w], s, v) => Brings(p, s, v) \/ \E i \in 2..Len(todo[w]) : <<s, v>> \in NewsOf(todo[w][i])
         /\ Brings(todo[w], s, v) => <<s, v>> \in NewsOf(todo[w][1]) \/ Brings(todo'[w], s, v)
         /\ Brings(p, s, v) => Brings(todo'[w], s, v)
         /\ (\E i \in 2..Len(todo[w]) : <<s, v>> \in NewsOf(todo[w][i])) => Brings(todo[w], s, v)
<1>1. /\ \A i \in 1..Len(todo[w]) : i = 1 \/ \E k \in 1..Len(todo'[w]) : todo'[w][k] = todo[w][i]
      /\ \A k \in 1..Len(todo'[w]) : \/ \E i \in 1..Len(p) : todo'[w][k] = p[i]
                                     \/ \E i \in 2..Len(todo[w]) : todo'[w][k] = todo[w][i]
      /\ \A i \in 1..Len(p) : \E k \in 1..Len(todo'[w]) : todo'[w][k] = p[i]
  BY ThenHas
<1>2. \A i \in 2..Len(todo[w]) : i \in 1..Len(todo[w])
  BY DEF TypeInv
<1> QED BY <1>1, <1>2 DEF Brings

\* A worker that has moved does not turn away.
LEMMA TurnSure ==
  ASSUME TypeInv, GoodInv, NEW w \in Workers, NEW p, Turn(w, p), NEW s
  PROVE  Sure(todo'[w], s)
<1>1. todo[w] # <<>> /\ Then(w, p) /\ p \in Seq(Steps) /\ \A k \in 1..Len(p) : p[k].op # "ifRegistered"
  BY DEF Turn, Fits
<1>2. \A k \in 1..Len(todo'[w]) : \/ \E i \in 1..Len(p) : todo'[w][k] = p[i]
                                  \/ \E i \in 2..Len(todo[w]) : todo'[w][k] = todo[w][i]
  BY <1>1, ThenHas
<1>3. \A i \in 2..Len(todo[w]) : i \in 1..Len(todo[w]) /\ i # 1
  BY DEF TypeInv
<1>4. \A i \in 2..Len(todo[w]) : todo[w][i].op # "ifRegistered"
  BY <1>3 DEF GoodInv, Good, LooksFirst
<1> QED BY <1>1, <1>2, <1>4 DEF Sure

\* What is true stays true while nothing changes outside.
LEMMA SameWorld ==
  ASSUME UNCHANGED world
  PROVE  \A s, v : Right(s, v)' <=> Right(s, v)
BY DEF Right

\* News on its way stays on its way until somebody moves it.
LEMMA TurnComing ==
  ASSUME TypeInv, GoodInv, NEW w \in Workers, NEW p, Turn(w, p), NEW s,
         \A v : <<s, v>> \notin NewsOf(todo[w][1])
  PROVE  Coming(s) => Coming(s)'
<1>1. todo[w] # <<>> /\ Then(w, p) /\ p \in Seq(Steps) /\ UNCHANGED world
  BY DEF Turn, Fits
<1>2. \A o \in Workers \ {w} : todo'[o] = todo[o]
  BY <1>1, ThenIs
<1> SUFFICES ASSUME NEW o \in Workers, NEW v \in Versions, Brings(todo[o], s, v), Right(s, v), Sure(todo[o], s)
             PROVE  Brings(todo'[o], s, v) /\ Right(s, v)' /\ Sure(todo'[o], s)
  BY DEF Coming
<1>3. Right(s, v)'
  BY <1>1, SameWorld
<1>4. CASE o = w
  BY <1>1, <1>3, <1>4, TurnBrings, TurnSure
<1>5. CASE o # w
  BY <1>2, <1>3, <1>5
<1> QED BY <1>4, <1>5

\* A step that asks.
LEMMA AskSlot ==
  ASSUME TypeInv, GoodInv, MeInv, NEW w \in Workers, NEW p, Turn(w, p), Asks(w, p),
         NEW s \in Slots \ {AtMe}, SlotInv(s)
  PROVE  SlotInv(s)'
<1>1. /\ todo[w] # <<>> /\ Then(w, p) /\ p \in Seq(Steps) /\ UNCHANGED <<world, cache, crossed, fetched>>
      /\ todo[w][1].op \notin WriteOps
  BY DEF Turn, Fits, Asks
<1>2. \A o \in Workers \ {w} : todo'[o] = todo[o]
  BY <1>1, ThenIs
<1>3. NewsOf(todo[w][1]) = {}
  BY <1>1, ThenIs, StepOp
<1>4. \A x : Coming(x) => Coming(x)'
  BY <1>3, TurnComing
<1>5. \A v : Right(s, v)' <=> Right(s, v)
  BY <1>1, SameWorld
<1>6. ASSUME NEW v \in Versions, Brings(p, s, v), Right(s, v) PROVE Coming(s)'
  BY <1>1, <1>5, <1>6, TurnBrings, TurnSure DEF Coming
<1>7. ASSUME ~Coming(s)', Mistaken(s)' PROVE Mistaken(s)
  <2>1. PICK o \in Workers, v \in Versions : Brings(todo'[o], s, v) /\ ~Right(s, v)
    BY <1>5, <1>7 DEF Mistaken
  <2>2. CASE o # w
    BY <1>2, <2>1, <2>2 DEF Mistaken
  <2>3. CASE o = w /\ Brings(p, s, v)
    <3>1. PICK k \in 1..Len(p) : <<s, v>> \in NewsOf(p[k])
      BY <2>3 DEF Brings
    <3>2. Right(<<s, v>>[1], <<s, v>>[2]) \/ (<<s, v>> = <<Current, cache[AtMe]>> /\ cache[Current] = 0)
      BY <3>1 DEF Asks
    <3>3. s = Current /\ v = cache[AtMe] /\ cache[Current] = 0
      BY <2>1, <3>2
    <3>4. ~Coming(Current)
      BY <1>4, <1>7, <3>3
    <3>5. Right(AtMe, cache[AtMe])
      BY <3>3, <3>4 DEF MeInv
    <3>6. Right(Current, cache[AtMe])
      BY <3>5 DEF Right, Current, AtMe, Lists
    <3> QED BY <2>1, <3>3, <3>6
  <2>4. CASE o = w /\ Brings(todo[w], s, v)
    BY <2>1, <2>4 DEF Mistaken
  <2> QED BY <1>1, <2>1, <2>2, <2>3, <2>4, TurnBrings
<1>8. ASSUME ~Coming(s)', Needed(s)', ~Right(s, cache[s]) PROVE Needed(s)
  <2> SUFFICES ASSUME s[1] \in Lists, ~Told(s[1]), Told(s[1])', cache[s] # 1 PROVE FALSE
    BY <1>1, <1>8 DEF Needed
  <2>1. PICK o \in Workers : Has(todo'[o], StoreOp(s[1]))
    BY <1>1 DEF Told
  <2>2. o = w
    BY <1>2, <2>1 DEF Told
  <2>3. ~Has(todo[w], StoreOp(s[1]))
    BY DEF Told
  <2>4. Has(p, StoreOp(s[1]))
    <3>1. \A k \in 1..Len(todo'[w]) : \/ \E i \in 1..Len(p) : todo'[w][k] = p[i]
                                      \/ \E i \in 2..Len(todo[w]) : todo'[w][k] = todo[w][i]
      BY <1>1, ThenHas
    <3>2. \A i \in 2..Len(todo[w]) : i \in 1..Len(todo[w])
      BY DEF TypeInv
    <3> QED BY <2>1, <2>2, <2>3, <3>1, <3>2 DEF Has
  <2>5. world[s[2]].live => Brings(p, s, 1)
    BY <2>4 DEF Asks
  <2>6. world[s[2]].live \in BOOLEAN
    BY SlotKinds DEF TypeInv
  <2>7. world[s[2]].live
    BY <1>8, <2>6 DEF Right
  <2>8. 1 \in Versions
    BY DispatchAssumption DEF DispatchAssumption, Versions
  <2>9. Right(s, 1)
    BY <2>6, <2>7 DEF Right
  <2> QED BY <1>6, <1>8, <2>5, <2>7, <2>8, <2>9
<1> QED BY <1>1, <1>4, <1>5, <1>7, <1>8 DEF SlotInv

\* A step that stores.
LEMMA StoreSlot ==
  ASSUME TypeInv, GoodInv, NEW w \in Workers, NEW p, Turn(w, p), Stores(w, p),
         NEW s \in Slots
  PROVE  /\ SlotInv(s) => SlotInv(s)'
         /\ \/ \E v \in Versions : /\ <<s, v>> \in NewsOf(todo[w][1]) /\ cache'[s] = v
                                   /\ ~Mistaken(s) => ~Mistaken(s)' /\ Right(s, cache[s])'
            \/ /\ cache'[s] = cache[s]
               /\ Mistaken(s)' => Mistaken(s)
               /\ Coming(s) => Coming(s)'
<1> DEFINE q == todo[w]
<1>1. todo[w] # <<>> /\ Then(w, p) /\ p \in Seq(Steps) /\ UNCHANGED world
  BY DEF Turn, Fits
<1>2. (\A o \in Workers \ {w} : todo'[o] = todo[o]) /\ q[1] \in Steps /\ Len(q) \in Nat /\ Len(q) >= 1
  BY <1>1, ThenIs
<1>3. PICK news \in SUBSET NewsOf(q[1]) :
          /\ Store(w, news) \/ (news = {} /\ UNCHANGED <<cache, crossed>>)
          /\ \/ p = <<>> /\ news = NewsOf(q[1])
             \/ p = <<Write(q[1].op, NewsOf(q[1]) \ news)>>
  BY DEF Stores
<1>4. q[1].op \in WriteOps /\ NewsOf(q[1]) \in Newses
  BY <1>2, StepOp DEF Stores
<1>5. news \in Newses /\ NewsOf(q[1]) \ news \in Newses
  BY <1>3, <1>4 DEF Newses
<1>6. \A x, v : Brings(p, x, v) <=> <<x, v>> \in NewsOf(q[1]) \ news
  <2>1. CASE p = <<>> /\ news = NewsOf(q[1])
    BY <2>1 DEF Brings
  <2>2. CASE p = <<Write(q[1].op, NewsOf(q[1]) \ news)>>
    <3> DEFINE t == Write(q[1].op, NewsOf(q[1]) \ news)
    <3>1. NewsOf(t) = NewsOf(q[1]) \ news
      BY <1>4, <1>5, WriteIs
    <3> HIDE DEF t
    <3>2. Len(<<t>>) = 1 /\ <<t>>[1] = t /\ 1 \in 1..1 /\ \A k \in 1..1 : k = 1
      OBVIOUS
    <3>3. \A x, v : Brings(<<t>>, x, v) <=> <<x, v>> \in NewsOf(t)
      BY <3>2 DEF Brings
    <3> QED BY <2>2, <3>1, <3>3 DEF t
  <2> QED BY <1>3, <2>1, <2>2
<1>7. \A x, v : Right(x, v)' <=> Right(x, v)
  BY <1>1, SameWorld
<1>8. \A v, y : <<s, v>> \in NewsOf(q[1]) => \A i \in 2..Len(q) : <<s, y>> \notin NewsOf(q[i])
  <2>1. \A i \in 2..Len(q) : i \in 1..Len(q) /\ i # 1 /\ 1 \in 1..Len(q)
    BY <1>2
  <2>2. \A i \in 2..Len(q) : \A m \in NewsOf(q[1]), n \in NewsOf(q[i]) : m[1] # n[1]
    BY <2>1 DEF GoodInv, Good, Apart
  <2>3. \A v : <<s, v>>[1] = s
    OBVIOUS
  <2> QED BY <2>2, <2>3
<1> HIDE DEF q
<1>9. \A v, y : <<s, v>> \in NewsOf(q[1]) /\ <<s, y>> \in NewsOf(q[1]) => v = y
  <2>1. \A v : <<s, v>>[1] = s /\ <<s, v>>[2] = v
    OBVIOUS
  <2> QED BY <1>4, <2>1 DEF Newses
<1>10. ASSUME NEW v, <<s, v>> \in news
       PROVE  /\ v \in Versions /\ <<s, v>> \in NewsOf(q[1])
              /\ \A y : ~Brings(todo'[w], s, y)
              /\ \A y : Brings(todo[w], s, y) => y = v
              /\ Brings(todo[w], s, v)
  <2>1. v \in Versions /\ <<s, v>> \in NewsOf(q[1])
    BY <1>5, <1>10 DEF Newses
  <2>2. \A y : ~Brings(p, s, y)
    BY <1>6, <1>9, <1>10, <2>1
  <2>3. \A y : ~Brings(todo'[w], s, y)
    BY <1>1, <1>8, <2>1, <2>2, TurnBrings DEF q
  <2>4. \A y : Brings(todo[w], s, y) => y = v
    BY <1>1, <1>9, <2>1, <2>3, TurnBrings DEF q
  <2>5. Brings(todo[w], s, v)
    BY <1>2, <2>1 DEF Brings, q
  <2> QED BY <2>1, <2>3, <2>4, <2>5
<1>11. CASE \E v : <<s, v>> \in news
  <2>1. PICK v : <<s, v>> \in news
    BY <1>11
  <2>2. Store(w, news)
    BY <1>3, <2>1
  <2>3. /\ cache'[s] = v
        /\ \A o \in Workers \ {w} : \A y : Brings(todo[o], s, y) => s \in crossed'
        /\ s \in crossed /\ ~Right(s, v) => s \in crossed'
    BY <1>5, <2>1, <2>2, StoreIs
  <2>4. /\ v \in Versions /\ <<s, v>> \in NewsOf(q[1]) /\ Brings(todo[w], s, v)
        /\ \A y : ~Brings(todo'[w], s, y)
        /\ \A y : Brings(todo[w], s, y) => y = v
    BY <1>10, <2>1
  <2>5. ~Mistaken(s) => ~Mistaken(s)' /\ Right(s, cache[s])'
    BY <1>2, <1>7, <2>3, <2>4 DEF Mistaken
  <2>6. SlotInv(s) => SlotInv(s)'
    <3>1. SUFFICES ASSUME SlotInv(s), s \notin crossed' PROVE SlotInv(s)'
      BY DEF SlotInv
    <3>2. \A o \in Workers : \A y : ~Brings(todo'[o], s, y)
      BY <1>2, <2>3, <2>4, <3>1
    <3>3. ~Mistaken(s)'
      BY <3>2 DEF Mistaken
    <3>4. Right(s, v)
      <4>1. SUFFICES ASSUME ~Right(s, v) PROVE FALSE
        OBVIOUS
      <4>2. s \notin crossed /\ Mistaken(s)
        BY <2>3, <2>4, <3>1, <4>1 DEF Mistaken
      <4>3. Coming(s)
        BY <3>1, <4>2 DEF SlotInv
      <4> QED BY <2>3, <2>4, <3>1, <4>1, <4>3 DEF Coming
    <3> QED BY <1>7, <2>3, <3>3, <3>4 DEF SlotInv
  <2> QED BY <2>3, <2>4, <2>5, <2>6 DEF q
<1>12. CASE \A v : <<s, v>> \notin news
  <2>1. cache'[s] = cache[s] /\ (s \in crossed => s \in crossed')
    BY <1>3, <1>5, <1>12, StoreIs
  <2>2. \A v : Brings(todo'[w], s, v) <=> Brings(todo[w], s, v)
    <3>1. \A v : Brings(p, s, v) <=> <<s, v>> \in NewsOf(q[1])
      BY <1>6, <1>12
    <3>2. \A v : <<s, v>> \in NewsOf(q[1]) => Brings(todo[w], s, v)
      BY <1>2 DEF Brings, q
    <3> QED BY <1>1, <3>1, <3>2, TurnBrings DEF q
  <2>3. Mistaken(s)' => Mistaken(s)
    BY <1>2, <1>7, <2>2 DEF Mistaken
  <2>4. Coming(s) => Coming(s)'
    BY <1>2, <1>7, <2>2, TurnSure DEF Coming
  <2>5. Needed(s)' => Needed(s)
    <3> SUFFICES ASSUME s[1] \in Lists, Told(s[1])' PROVE Told(s[1])
      BY <2>1 DEF Needed
    <3> DEFINE op == StoreOp(s[1])
    <3>1. op \in WriteOps
      BY DEF StoreOp, WriteOps
    <3> HIDE DEF op
    <3> SUFFICES ASSUME ~\E o \in Workers : Has(todo[o], op) PROVE s[1] \in fetched
      BY DEF Told, op
    <3>2. \A k \in 1..Len(q) : q[k].op # op
      BY DEF Has, q
    <3>3. q[1].op # op /\ \A k \in 2..Len(q) : q[k].op # op
      BY <1>2, <3>2
    <3>4. ~Has(p, op)
      <4>1. CASE p = <<>>
        BY <4>1 DEF Has
      <4>2. CASE p = <<Write(q[1].op, NewsOf(q[1]) \ news)>>
        <5> DEFINE t == Write(q[1].op, NewsOf(q[1]) \ news)
        <5>1. t.op # op
          BY <3>3 DEF Write
        <5> HIDE DEF t
        <5>2. Len(<<t>>) = 1 /\ <<t>>[1] = t /\ \A k \in 1..1 : k = 1
          OBVIOUS
        <5>3. ~Has(<<t>>, op)
          BY <5>1, <5>2 DEF Has
        <5> QED BY <4>2, <5>3 DEF t
      <4> QED BY <1>3, <4>1, <4>2
    <3>5. ~Has(todo'[w], op)
      <4>1. \A k \in 1..Len(todo'[w]) : \/ \E i \in 1..Len(p) : todo'[w][k] = p[i]
                                        \/ \E i \in 2..Len(q) : todo'[w][k] = q[i]
        BY <1>1, ThenHas DEF q
      <4> QED BY <3>3, <3>4, <4>1 DEF Has
    <3>6. \A o \in Workers : ~Has(todo'[o], op)
      BY <1>2, <3>5
    <3>7. s[1] \in fetched'
      BY <3>6 DEF Told, op
    <3> QED BY <3>3, <3>7 DEF Stores, q, op
  <2> QED BY <1>7, <2>1, <2>3, <2>4, <2>5 DEF SlotInv
<1> QED BY <1>11, <1>12

\* Until there is a current user, what get("@me") keeps is right.
LEMMA TurnMe ==
  ASSUME TypeInv, GoodInv, MeInv, NEW w \in Workers, NEW p, Turn(w, p)
  PROVE  MeInv'
<1>0. Current \in Slots /\ AtMe \in Slots /\ Current # AtMe /\ Current[1] = "current"
  BY SlotsAre DEF Current, AtMe
<1>1. todo[w] # <<>> /\ Then(w, p) /\ p \in Seq(Steps) /\ UNCHANGED world
  BY DEF Turn, Fits
<1>2. (\A o \in Workers \ {w} : todo'[o] = todo[o]) /\ todo[w][1] \in Steps
  BY <1>1, ThenIs
<1>3. \A s, v : Right(s, v)' <=> Right(s, v)
  BY <1>1, SameWorld
<1>4. CASE Asks(w, p)
  <2>1. UNCHANGED cache /\ NewsOf(todo[w][1]) = {}
    BY <1>2, <1>4, StepOp DEF Asks
  <2>2. Coming(Current) => Coming(Current)'
    BY <2>1, TurnComing
  <2>3. ASSUME Mistaken(AtMe)' PROVE Mistaken(AtMe)
    <3>1. PICK o \in Workers, v \in Versions : Brings(todo'[o], AtMe, v) /\ ~Right(AtMe, v)
      BY <1>3, <2>3 DEF Mistaken
    <3>2. CASE o # w
      BY <1>2, <3>1, <3>2 DEF Mistaken
    <3>3. ASSUME o = w, Brings(p, AtMe, v) PROVE FALSE
      <4>1. PICK k \in 1..Len(p) : <<AtMe, v>> \in NewsOf(p[k])
        BY <3>3 DEF Brings
      <4>2. Right(<<AtMe, v>>[1], <<AtMe, v>>[2]) \/ <<AtMe, v>> = <<Current, cache[AtMe]>>
        BY <1>4, <4>1 DEF Asks
      <4> QED BY <1>0, <3>1, <4>2
    <3>4. CASE o = w /\ Brings(todo[w], AtMe, v)
      BY <3>1, <3>4 DEF Mistaken
    <3> QED BY <1>1, <3>1, <3>2, <3>3, <3>4, TurnBrings
  <2> QED BY <1>3, <2>1, <2>2, <2>3 DEF MeInv
<1>5. CASE Stores(w, p)
  <2>1. \/ cache'[Current] # 0
        \/ cache'[Current] = cache[Current] /\ (Coming(Current) => Coming(Current)')
    <3>1. ASSUME NEW v, <<Current, v>> \in NewsOf(todo[w][1]) PROVE v # 0
      <4>1. NewsOf(todo[w][1]) \in Newses
        BY <1>2, StepOp
      <4>2. <<Current, v>>[1][1] = "current" /\ <<Current, v>>[2] = v
        BY <1>0
      <4> QED BY <3>1, <4>1, <4>2 DEF Newses
    <3> QED BY <1>0, <1>5, <3>1, StoreSlot
  <2>2. ~Mistaken(AtMe) /\ Right(AtMe, cache[AtMe]) => ~Mistaken(AtMe)' /\ Right(AtMe, cache[AtMe])'
    <3>1. CASE \E v \in Versions : ~Mistaken(AtMe) => ~Mistaken(AtMe)' /\ Right(AtMe, cache[AtMe])'
      BY <3>1
    <3>2. CASE cache'[AtMe] = cache[AtMe] /\ (Mistaken(AtMe)' => Mistaken(AtMe))
      BY <1>3, <3>2
    <3> QED BY <1>0, <1>5, <3>1, <3>2, StoreSlot
  <2> QED BY <2>1, <2>2 DEF MeInv
<1> QED BY <1>4, <1>5 DEF Turn

\* Every slot.
LEMMA TurnSlots ==
  ASSUME TypeInv, GoodInv, CacheInv, NEW w \in Workers, NEW p, Turn(w, p)
  PROVE  CacheInv'
<1>1. MeInv /\ \A s \in Slots \ {AtMe} : SlotInv(s)
  BY DEF CacheInv
<1>2. MeInv'
  BY <1>1, TurnMe
<1>3. ASSUME NEW s \in Slots \ {AtMe} PROVE SlotInv(s)'
  <2>1. CASE Asks(w, p)
    BY <1>1, <2>1, AskSlot
  <2>2. CASE Stores(w, p)
    BY <1>1, <2>2, StoreSlot
  <2> QED BY <2>1, <2>2 DEF Turn
<1>4. (Slots \ {AtMe})' = Slots \ {AtMe}
  BY DEF Slots, AtMe
<1> QED BY <1>2, <1>3 DEF CacheInv

-----------------------------------------------------------------------------
(* Handlers that wait and tell                                             *)

\* The steps about guilds that are left when a worker moves.
LEMMA ThenGuild ==
  ASSUME TypeInv, NEW w \in Workers, todo[w] # <<>>, NEW p \in Seq(Steps), Then(w, p),
         \A k \in 1..Len(p) : p[k].op \notin GuildOps \ {"forget"}
  PROVE  /\ \A op : (\A k \in 1..Len(p) : p[k].op # op) => (Has(todo'[w], op) => Has(todo[w], op))
         /\ Listed(todo'[w]) => Listed(todo[w])
         /\ todo[w][1].op # "announce" => (Lists1(todo[w]) => Lists1(todo'[w]))
         /\ Announces(todo[w]) => Announces(todo'[w])
         /\ todo[w][1].op # "awaitReady" =>
               (Before(todo[w], "awaitReady", "created") => Before(todo'[w], "awaitReady", "created"))
<1> DEFINE q == todo[w]
           r == todo'[w]
           a == Len(p)
           b == Len(q)
<1>1. /\ a \in Nat /\ b \in Nat
      /\ \A k \in 1..a : k \in 1..Len(r) /\ r[k] = p[k]
      /\ \A i \in 2..b : i - 1 + a \in 1..Len(r) /\ r[i - 1 + a] = q[i]
      /\ \A k \in 1..Len(r) : k \in 1..a \/ \E i \in 2..b : k = i - 1 + a
  BY ThenIs
<1>2. \A k \in 1..a : p[k].op \notin {"announce", "becomeReady", "awaitReady", "created"}
  BY DEF GuildOps
<1> HIDE DEF q, r, a, b
<1>3. \A i \in 2..b : i \in 1..b
  BY <1>1
<1>4. \A k \in 1..Len(r) : (\E i \in 1..a : r[k] = p[i]) \/ \E i \in 2..b : r[k] = q[i]
  BY <1>1
<1>5. \A op : (\A k \in 1..a : p[k].op # op) => (Has(r, op) => Has(q, op))
  BY <1>3, <1>4 DEF Has, b
<1>6. Listed(r) => Listed(q)
  BY <1>2, <1>3, <1>4 DEF Listed, b
<1>7. q[1].op # "announce" => (Lists1(q) => Lists1(r))
  <2>1. \A i \in 1..b : i = 1 \/ i \in 2..b
    BY <1>1
  <2> QED BY <1>1, <2>1 DEF Lists1, b
<1>8. Announces(q) => Announces(r)
  <2>1. ASSUME Announces(q), NEW k \in 1..Len(r), NEW l \in 1..Len(r),
               r[k].op = "announce", r[l].op \in {"announce", "becomeReady"}
        PROVE  k <= l
    <3>1. k \notin 1..a /\ l \notin 1..a
      BY <1>1, <1>2, <2>1
    <3>2. PICK i \in 2..b, j \in 2..b : k = i - 1 + a /\ l = j - 1 + a
      BY <1>1, <3>1
    <3>3. r[k] = q[i] /\ r[l] = q[j]
      BY <1>1, <3>2
    <3>4. i <= j
      BY <1>3, <2>1, <3>3 DEF Announces, b
    <3> QED BY ONLY <1>1, <3>2, <3>4
  <2> QED BY <2>1 DEF Announces
<1>9. q[1].op # "awaitReady" => (Before(q, "awaitReady", "created") => Before(r, "awaitReady", "created"))
  <2>1. ASSUME q[1].op # "awaitReady", Before(q, "awaitReady", "created"), NEW l \in 1..Len(r), r[l].op = "created"
        PROVE  \E k \in 1..Len(r) : k < l /\ r[k].op = "awaitReady"
    <3>1. l \notin 1..a
      BY <1>1, <1>2, <2>1
    <3>2. PICK j \in 2..b : l = j - 1 + a
      BY <1>1, <3>1
    <3>3. r[l] = q[j]
      BY <1>1, <3>2
    <3>4. PICK i \in 1..b : i < j /\ q[i].op = "awaitReady"
      BY <1>3, <2>1, <3>3 DEF Before, b
    <3>5. i \in 2..b
      BY <1>1, <2>1, <3>4
    <3>6. i - 1 + a \in 1..Len(r) /\ r[i - 1 + a] = q[i]
      BY <1>1, <3>5
    <3>7. i - 1 + a < l
      BY ONLY <1>1, <3>2, <3>4
    <3> QED BY <3>4, <3>6, <3>7
  <2> QED BY <2>1 DEF Before
<1> QED BY <1>5, <1>6, <1>7, <1>8, <1>9 DEF q, r, a, b

(* Nothing about guilds has come in between.                               *)
Calmer(q, r) ==
    /\ \A op \in GuildOps : Has(r, op) => Has(q, op)
    /\ Listed(r) => Listed(q)
    /\ Lists1(q) => Lists1(r)
    /\ Announces(q) => Announces(r)
    /\ Before(q, "awaitReady", "created") => Before(r, "awaitReady", "created")

\* A step that is not about guilds.
LEMMA ThenCalmer ==
  ASSUME TypeInv, NEW w \in Workers, todo[w] # <<>>, NEW p \in Seq(Steps), Then(w, p),
         todo[w][1].op \notin GuildOps, \A k \in 1..Len(p) : p[k].op \notin GuildOps
  PROVE  \A o \in Workers : Calmer(todo[o], todo'[o])
<1>1. Calmer(todo[w], todo'[w])
  BY ThenGuild DEF Calmer, GuildOps
<1>2. \A o \in Workers \ {w} : todo'[o] = todo[o]
  BY ThenIs
<1>3. \A o \in Workers \ {w} : Calmer(todo[o], todo'[o])
  BY <1>2 DEF Calmer
<1> QED BY <1>1, <1>3

\* Steps that are not about guilds.
LEMMA NewCalmer ==
  ASSUME NEW q, NEW r, \A i \in 1..Len(q) : q[i].op \notin GuildOps, \A i \in 1..Len(r) : r[i].op \notin GuildOps
  PROVE  Calmer(q, r)
<1>1. /\ ~Has(q, "announce") /\ ~Has(r, "announce") /\ ~Has(r, "becomeReady") /\ ~Has(r, "created")
      /\ \A op \in GuildOps : ~Has(r, op)
  BY DEF Has, GuildOps
<1>2. ~Listed(r) /\ ~Lists1(q) /\ Announces(r) /\ Before(r, "awaitReady", "created")
  BY <1>1 DEF Listed, Lists1, Announces, Before, Has
<1> QED BY <1>1, <1>2 DEF Calmer

\* Where nobody begins anything about guilds, startup stays silent.
LEMMA SilentCalm ==
  ASSUME SilentInv, \A o \in Workers : Calmer(todo[o], todo'[o]),
         UNCHANGED <<overlap, reported, owed, unavailable, gateway>>, world'[Guild].live = world[Guild].live
  PROVE  SilentInv'
<1>0. CASE overlap
  BY <1>0 DEF SilentInv
<1> SUFFICES ASSUME ~overlap PROVE SilentInv'
  BY <1>0
<1>1. /\ ~reported
      /\ \A w \in Workers : Listed(todo[w]) => owed = "no" /\ \A o \in Workers : Has(todo[o], "created") => o = w
      /\ owed = "listed" => \A w \in Workers : ~Has(todo[w], "created")
      /\ Pending => world[Guild].live /\ \A w \in Workers : ~Has(todo[w], "deleted") /\ ~Has(todo[w], "forget")
      /\ Pending => unavailable \/ \E w \in Workers : Lists1(todo[w])
      /\ \A w \in Workers : Has(todo[w], "announce") =>
            /\ gateway = "AUTHENTICATION_SENT"
            /\ Announces(todo[w])
            /\ \A o \in Workers : Has(todo[o], "becomeReady") => o = w
            /\ \A o \in Workers : Listed(todo[o]) => Before(todo[o], "awaitReady", "created")
  BY DEF SilentInv
<1>2. \A o \in Workers :
         /\ \A op \in {"announce", "becomeReady", "awaitReady", "created", "deleted", "forget"} : Has(todo'[o], op) => Has(todo[o], op)
         /\ Listed(todo'[o]) => Listed(todo[o])
         /\ Lists1(todo[o]) => Lists1(todo'[o])
         /\ Announces(todo[o]) => Announces(todo'[o])
         /\ Before(todo[o], "awaitReady", "created") => Before(todo'[o], "awaitReady", "created")
  BY DEF Calmer, GuildOps
<1>3. Pending' => Pending
  BY <1>2 DEF Pending
<1> QED BY <1>1, <1>2, <1>3 DEF SilentInv

\* The interactions that are left when a worker moves.
LEMMA ThenRoutes ==
  ASSUME TypeInv, NEW w \in Workers, todo[w] # <<>>, NEW p \in Seq(Steps), Then(w, p),
         \A k \in 1..Len(p) : p[k].op \notin RouteOps
  PROVE  \A o \in Workers :
            /\ RoutesOnce(todo[o]) => RoutesOnce(todo'[o])
            /\ \A op \in RouteOps : Has(todo'[o], op) => Has(todo[o], op)
<1> DEFINE q == todo[w]
           r == todo'[w]
           a == Len(p)
           b == Len(q)
<1>1. /\ a \in Nat /\ b \in Nat
      /\ \A k \in 1..a : k \in 1..Len(r) /\ r[k] = p[k]
      /\ \A i \in 2..b : i - 1 + a \in 1..Len(r) /\ r[i - 1 + a] = q[i]
      /\ \A k \in 1..Len(r) : k \in 1..a \/ \E i \in 2..b : k = i - 1 + a
  BY ThenIs
<1>2. \A o \in Workers \ {w} : todo'[o] = todo[o]
  BY ThenIs
<1> HIDE DEF q, r, a, b
<1>3. \A i \in 2..b : i \in 1..b
  BY <1>1
<1>4. \A k \in 1..Len(r) : (\E i \in 1..a : r[k] = p[i]) \/ \E i \in 2..b : r[k] = q[i]
  BY <1>1
<1>5. \A op \in RouteOps : Has(r, op) => Has(q, op)
  BY <1>3, <1>4 DEF Has, a, b
<1>6. RoutesOnce(q) => RoutesOnce(r)
  <2>1. ASSUME RoutesOnce(q), NEW k \in 1..Len(r), NEW l \in 1..Len(r), r[k].op \in RouteOps, r[l].op \in RouteOps
        PROVE  k = l
    <3>1. k \notin 1..a /\ l \notin 1..a
      BY <1>1, <2>1 DEF a
    <3>2. PICK i \in 2..b, j \in 2..b : k = i - 1 + a /\ l = j - 1 + a
      BY <1>1, <3>1
    <3>3. r[k] = q[i] /\ r[l] = q[j]
      BY <1>1, <3>2
    <3>4. i = j
      BY <1>3, <2>1, <3>3 DEF RoutesOnce, b
    <3> QED BY <3>2, <3>4
  <2> QED BY <2>1 DEF RoutesOnce
<1> QED BY <1>2, <1>5, <1>6 DEF q, r

\* Where nobody takes up an interaction, all of them still arrive.
LEMMA ArriveKept ==
  ASSUME ArriveInv, UNCHANGED interactionVars,
         \A o \in Workers : /\ RoutesOnce(todo'[o])
                            /\ \A op \in RouteOps : Has(todo'[o], op) => Has(todo[o], op)
  PROVE  ArriveInv'
BY DEF ArriveInv, interactionVars, Handles, RouteOps

\* What holds after a step of a worker.
LEMMA TurnAll ==
  ASSUME TypeInv, GoodInv, LockInv, CacheInv, NEW w \in Workers, NEW p, Turn(w, p),
         readers' \subseteq Workers,
         \A o \in readers' : \/ o \in readers /\ (o = w => todo[w][1].op # "unshare")
                             \/ o = w /\ Has(p, "unshare")
  PROVE  /\ GoodInv' /\ LockInv' /\ CacheInv'
         /\ todo' \in [Workers -> Seq(Steps)] /\ owner' \in [Mutexes -> Workers \union {NoOne}]
         /\ cache' \in [Slots -> Versions] /\ crossed' \subseteq Slots /\ fetched' \subseteq Lists
<1>1. owner' \in [Mutexes -> Workers \union {NoOne}]
  BY DEF Turn
<1> QED BY <1>1, TurnTypes, TurnLocks, TurnSlots

\* A step inside the caches.
LEMMA CacheStepKeeps ==
  ASSUME DispatchInv, NEW w \in Workers, CacheStep(w), UNCHANGED botVars
  PROVE  DispatchInv'
<1>1. TypeInv /\ GoodInv /\ LockInv /\ CacheInv /\ SilentInv /\ ArriveInv
  BY DEF DispatchInv
<1>2. PICK p : CacheTurn(w, p)
  BY <1>1, CacheStepTurns
<1>3. /\ Turn(w, p) /\ todo[w] # <<>> /\ Then(w, p) /\ p \in Seq(Steps) /\ todo[w][1].op \notin Quiet
      /\ (\A k \in 1..Len(p) : p[k].op \notin Quiet) /\ known' \in BOOLEAN /\ world' = world
  BY <1>2 DEF CacheTurn, Turn, Fits
<1>4. /\ UNCHANGED <<topic, gateway, unavailable, readers, registered, session, owed, calls, events, overlap, reported>>
      /\ UNCHANGED <<table, made, routes, crashed, astray>>
  BY DEF botVars, dispatchVars, interactionVars
<1>5. readers \subseteq Workers /\ todo[w][1].op # "unshare"
  BY <1>1, <1>3 DEF TypeInv, Quiet
<1>6. /\ GoodInv' /\ LockInv' /\ CacheInv'
      /\ todo' \in [Workers -> Seq(Steps)] /\ owner' \in [Mutexes -> Workers \union {NoOne}]
      /\ cache' \in [Slots -> Versions] /\ crossed' \subseteq Slots /\ fetched' \subseteq Lists
  <2>1. readers' \subseteq Workers
    BY <1>4, <1>5
  <2>2. \A o \in readers' : \/ o \in readers /\ (o = w => todo[w][1].op # "unshare")
                            \/ o = w /\ Has(p, "unshare")
    BY <1>4, <1>5
  <2>3. Turn(w, p) /\ TypeInv /\ GoodInv /\ LockInv /\ CacheInv
    BY <1>1, <1>3
  <2> QED BY ONLY <2>1, <2>2, <2>3, TurnAll
<1>7. TypeInv'
  BY <1>1, <1>3, <1>4, <1>6 DEF TypeInv
<1>8. SilentInv'
  BY <1>1, <1>3, <1>4, ThenCalmer, SilentCalm DEF Quiet
<1>9. ArriveInv'
  <2>1. \A o \in Workers : RoutesOnce(todo[o])
    BY <1>1 DEF ArriveInv
  <2>2. UNCHANGED interactionVars
    BY DEF botVars
  <2>3. \A k \in 1..Len(p) : p[k].op \notin RouteOps
    BY <1>3 DEF Quiet
  <2> QED BY <1>1, <1>3, <2>1, <2>2, <2>3, ThenRoutes, ArriveKept
<1> QED BY <1>6, <1>7, <1>8, <1>9 DEF DispatchInv

\* A step that neither writes nor asks.
LEMMA PlainTurns ==
  ASSUME TypeInv, NEW w \in Workers, NEW op, At(w, op), op \notin WriteOps \union {"unlock"},
         NEW p, Fits(p, todo[w][1]), \A k \in 1..Len(p) : NewsOf(p[k]) = {} /\ p[k].op \notin WriteOps,
         Then(w, p), UNCHANGED <<world, cache, owner, crossed, fetched>>
  PROVE  Turn(w, p)
<1>1. todo[w] # <<>> /\ todo[w][1].op = op
  BY AtIs
<1>2. Asks(w, p)
  <2>1. \A list : StoreOp(list) \in WriteOps
    BY DEF StoreOp, WriteOps
  <2> QED BY <1>1, <2>1 DEF Asks, Has
<1>3. Locks(w, p)
  BY <1>1 DEF Locks, WriteOps
<1>4. owner' \in [Mutexes -> Workers \union {NoOne}]
  BY DEF TypeInv
<1> QED BY <1>1, <1>2, <1>3, <1>4 DEF Turn

\* A step that is about neither caches nor readers.
LEMMA PlainAll ==
  ASSUME DispatchInv, NEW w \in Workers, NEW op, At(w, op), op \notin WriteOps \union {"unlock", "unshare"},
         NEW p, Fits(p, todo[w][1]), \A k \in 1..Len(p) : NewsOf(p[k]) = {} /\ p[k].op \notin WriteOps,
         Then(w, p), UNCHANGED <<world, cache, owner, crossed, fetched, readers>>
  PROVE  /\ GoodInv' /\ LockInv' /\ CacheInv'
         /\ todo' \in [Workers -> Seq(Steps)] /\ owner' \in [Mutexes -> Workers \union {NoOne}]
         /\ cache' \in [Slots -> Versions] /\ crossed' \subseteq Slots /\ fetched' \subseteq Lists
<1>1. TypeInv /\ GoodInv /\ LockInv /\ CacheInv
  BY DEF DispatchInv
<1>2. Turn(w, p)
  BY <1>1, PlainTurns
<1>3. readers' \subseteq Workers /\ readers' = readers /\ todo[w][1].op # "unshare"
  BY <1>1, AtIs DEF TypeInv
<1> QED BY <1>1, <1>2, <1>3, TurnAll

\* A step that ends.
LEMMA OverIs ==
  ASSUME NEW t
  PROVE  /\ Fits(<<>>, t) /\ <<>> \in Seq(Steps)
         /\ \A k \in 1..Len(<<>>) : NewsOf(<<>>[k]) = {} /\ <<>>[k].op \notin WriteOps \union GuildOps \union RouteOps
BY FitsNone

\* A step that only ends keeps what is known of caches and locks.
LEMMA OverAll ==
  ASSUME DispatchInv, NEW w \in Workers, NEW op, At(w, op), op \notin WriteOps \union {"unlock", "unshare"},
         Then(w, <<>>), UNCHANGED <<world, cache, owner, crossed, fetched, readers>>
  PROVE  /\ GoodInv' /\ LockInv' /\ CacheInv'
         /\ todo' \in [Workers -> Seq(Steps)] /\ owner' \in [Mutexes -> Workers \union {NoOne}]
         /\ cache' \in [Slots -> Versions] /\ crossed' \subseteq Slots /\ fetched' \subseteq Lists
<1>1. \A k \in 1..Len(<<>>) : NewsOf(<<>>[k]) = {} /\ <<>>[k].op \notin WriteOps
  BY OverIs
<1>2. Fits(<<>>, todo[w][1])
  BY FitsNone
<1> QED BY <1>1, <1>2, PlainAll

\* A step that ends takes no interaction with it that is not its own.
LEMMA OverRoutes ==
  ASSUME DispatchInv, NEW w \in Workers, todo[w] # <<>>, Then(w, <<>>), UNCHANGED interactionVars
  PROVE  ArriveInv'
<1>1. TypeInv /\ ArriveInv /\ \A o \in Workers : RoutesOnce(todo[o])
  BY DEF DispatchInv, ArriveInv
<1>2. <<>> \in Seq(Steps) /\ \A k \in 1..Len(<<>>) : <<>>[k].op \notin RouteOps
  BY OverIs
<1> QED BY <1>1, <1>2, ThenRoutes, ArriveKept

\* The steps that are left when one ends.
LEMMA OverGuild ==
  ASSUME TypeInv, NEW w \in Workers, todo[w] # <<>>, Then(w, <<>>)
  PROVE  /\ \A o \in Workers \ {w} : todo'[o] = todo[o]
         /\ \A i \in 1..Len(todo[w]) : i = 1 \/ \E k \in 1..Len(todo'[w]) : todo'[w][k] = todo[w][i]
         /\ \A op : Has(todo'[w], op) => Has(todo[w], op)
         /\ Listed(todo'[w]) => Listed(todo[w])
         /\ todo[w][1].op # "announce" => (Lists1(todo[w]) => Lists1(todo'[w]))
         /\ Announces(todo[w]) => Announces(todo'[w])
         /\ todo[w][1].op # "awaitReady" =>
               (Before(todo[w], "awaitReady", "created") => Before(todo'[w], "awaitReady", "created"))
<1> DEFINE p == <<>>
<1>1. p \in Seq(Steps) /\ Then(w, p) /\ (\A k \in 1..Len(p) : p[k].op \notin GuildOps \ {"forget"})
      /\ \A op : \A k \in 1..Len(p) : p[k].op # op
  BY OverIs
<1> HIDE DEF p
<1>2. \A o \in Workers \ {w} : todo'[o] = todo[o]
  BY <1>1, ThenIs
<1>3. \A i \in 1..Len(todo[w]) : i = 1 \/ \E k \in 1..Len(todo'[w]) : todo'[w][k] = todo[w][i]
  BY <1>1, ThenHas
<1>4. \A op : Has(todo'[w], op) => Has(todo[w], op)
  BY <1>1, ThenGuild
<1>5. /\ Listed(todo'[w]) => Listed(todo[w])
      /\ todo[w][1].op # "announce" => (Lists1(todo[w]) => Lists1(todo'[w]))
      /\ Announces(todo[w]) => Announces(todo'[w])
      /\ todo[w][1].op # "awaitReady" =>
            (Before(todo[w], "awaitReady", "created") => Before(todo'[w], "awaitReady", "created"))
  BY <1>1, ThenGuild
<1> QED BY <1>2, <1>3, <1>4, <1>5

\* READY has listed the guild.
LEMMA AnnounceKeeps ==
  ASSUME DispatchInv, NEW w \in Workers, Announce(w), UNCHANGED interactionVars
  PROVE  DispatchInv'
<1>1. TypeInv /\ GoodInv /\ SilentInv
  BY DEF DispatchInv
<1>2. /\ At(w, "announce") /\ readers = {} /\ Then(w, <<>>)
      /\ unavailable' = (unavailable \/ Head(todo[w]).listed)
      /\ UNCHANGED <<world, cache, known, owner, crossed, fetched,
                     topic, gateway, readers, registered, session, owed, calls, events, overlap, reported>>
      /\ UNCHANGED <<table, made, routes, crashed, astray>>
  BY DEF Announce, interactionVars
<1>3. /\ todo[w] # <<>> /\ todo[w][1].op = "announce" /\ Head(todo[w]) = todo[w][1] /\ Len(todo[w]) >= 1
      /\ Len(todo[w]) \in Nat /\ todo[w][1].listed \in BOOLEAN
  BY <1>1, <1>2, AtIs, StepOp DEF TypeInv
<1>4. /\ GoodInv' /\ LockInv' /\ CacheInv'
      /\ todo' \in [Workers -> Seq(Steps)] /\ owner' \in [Mutexes -> Workers \union {NoOne}]
      /\ cache' \in [Slots -> Versions] /\ crossed' \subseteq Slots /\ fetched' \subseteq Lists
  BY <1>2, OverAll DEF WriteOps
<1>5. TypeInv'
  BY <1>1, <1>2, <1>3, <1>4 DEF TypeInv
<1>6. ArriveInv'
  BY <1>2, <1>3, OverRoutes
<1>7. SilentInv'
  <2> SUFFICES ASSUME ~overlap PROVE SilentInv'
    BY <1>2 DEF SilentInv
  <2>1. /\ ~reported
        /\ \A o \in Workers : Listed(todo[o]) => owed = "no" /\ \A z \in Workers : Has(todo[z], "created") => z = o
        /\ owed = "listed" => \A o \in Workers : ~Has(todo[o], "created")
        /\ Pending => world[Guild].live /\ \A o \in Workers : ~Has(todo[o], "deleted") /\ ~Has(todo[o], "forget")
        /\ Pending => unavailable \/ \E o \in Workers : Lists1(todo[o])
        /\ \A o \in Workers : Has(todo[o], "announce") =>
              /\ gateway = "AUTHENTICATION_SENT"
              /\ Announces(todo[o])
              /\ \A z \in Workers : Has(todo[z], "becomeReady") => z = o
              /\ \A z \in Workers : Listed(todo[z]) => Before(todo[z], "awaitReady", "created")
    BY <1>1 DEF SilentInv
  <2>2. /\ \A op : Has(todo'[w], op) => Has(todo[w], op)
        /\ Listed(todo'[w]) => Listed(todo[w])
        /\ Announces(todo[w]) => Announces(todo'[w])
        /\ Before(todo[w], "awaitReady", "created") => Before(todo'[w], "awaitReady", "created")
    BY <1>1, <1>2, <1>3, OverGuild
  <2>3. \A o \in Workers \ {w} : todo'[o] = todo[o]
    BY <1>1, <1>2, <1>3, OverGuild
  <2>4. \A o \in Workers :
           /\ \A op : Has(todo'[o], op) => Has(todo[o], op)
           /\ Listed(todo'[o]) => Listed(todo[o])
           /\ Announces(todo[o]) => Announces(todo'[o])
           /\ Before(todo[o], "awaitReady", "created") => Before(todo'[o], "awaitReady", "created")
    BY <2>2, <2>3
  <2>5. Pending' => Pending
    BY <1>2, <2>4 DEF Pending
  <2>6. (\E o \in Workers : Lists1(todo[o])) => unavailable' \/ \E o \in Workers : Lists1(todo'[o])
    <3> SUFFICES ASSUME NEW o \in Workers, Lists1(todo[o]) PROVE unavailable' \/ \E z \in Workers : Lists1(todo'[z])
      OBVIOUS
    <3>1. CASE o # w
      BY <2>3, <3>1
    <3>2. CASE o = w
      <4>1. PICK i \in 1..Len(todo[w]) : todo[w][i].op = "announce" /\ todo[w][i].listed
        BY <3>2 DEF Lists1
      <4>2. CASE i = 1
        BY <1>2, <1>3, <4>1, <4>2
      <4>3. CASE i # 1
        <5>2. \E k \in 1..Len(todo'[w]) : todo'[w][k] = todo[w][i]
          BY <1>1, <1>2, <1>3, <4>3, OverGuild
        <5> QED BY <4>1, <5>2 DEF Lists1
      <4> QED BY <4>2, <4>3
    <3> QED BY <3>1, <3>2
  <2>7. unavailable => unavailable'
    BY <1>2
  <2> QED BY <1>2, <2>1, <2>4, <2>5, <2>6, <2>7 DEF SilentInv
<1> QED BY <1>4, <1>5, <1>6, <1>7 DEF DispatchInv

\* Silence when a step ends that is not the announcement.
LEMMA OverSilent ==
  ASSUME TypeInv, SilentInv, NEW w \in Workers, todo[w] # <<>>, Then(w, <<>>), todo[w][1].op # "announce",
         UNCHANGED <<world, owed, overlap, reported>>,
         \/ gateway' = gateway /\ todo[w][1].op # "awaitReady"
         \/ overlap \/ \A o \in Workers : ~Has(todo[o], "announce"),
         unavailable' = unavailable \/ overlap \/ ~Pending
  PROVE  SilentInv'
<1> SUFFICES ASSUME ~overlap PROVE SilentInv'
  BY DEF SilentInv
<1>1. /\ ~reported
      /\ \A o \in Workers : Listed(todo[o]) => owed = "no" /\ \A z \in Workers : Has(todo[z], "created") => z = o
      /\ owed = "listed" => \A o \in Workers : ~Has(todo[o], "created")
      /\ Pending => world[Guild].live /\ \A o \in Workers : ~Has(todo[o], "deleted") /\ ~Has(todo[o], "forget")
      /\ Pending => unavailable \/ \E o \in Workers : Lists1(todo[o])
      /\ \A o \in Workers : Has(todo[o], "announce") =>
            /\ gateway = "AUTHENTICATION_SENT"
            /\ Announces(todo[o])
            /\ \A z \in Workers : Has(todo[z], "becomeReady") => z = o
            /\ \A z \in Workers : Listed(todo[z]) => Before(todo[z], "awaitReady", "created")
  BY DEF SilentInv
<1>2. \A o \in Workers :
         /\ \A op : Has(todo'[o], op) => Has(todo[o], op)
         /\ Listed(todo'[o]) => Listed(todo[o])
         /\ Lists1(todo[o]) => Lists1(todo'[o])
         /\ Announces(todo[o]) => Announces(todo'[o])
         /\ todo[w][1].op # "awaitReady" =>
               (Before(todo[o], "awaitReady", "created") => Before(todo'[o], "awaitReady", "created"))
  BY OverGuild
<1>3. Pending' => Pending
  BY <1>2 DEF Pending
<1>4. Pending' => unavailable' \/ \E o \in Workers : Lists1(todo'[o])
  BY <1>1, <1>2, <1>3
<1>5. \A o \in Workers : Has(todo'[o], "announce") =>
         /\ gateway' = "AUTHENTICATION_SENT"
         /\ Announces(todo'[o])
         /\ \A z \in Workers : Has(todo'[z], "becomeReady") => z = o
         /\ \A z \in Workers : Listed(todo'[z]) => Before(todo'[z], "awaitReady", "created")
  BY <1>1, <1>2
<1> QED BY <1>1, <1>2, <1>3, <1>4, <1>5 DEF SilentInv

\* The shard is ready.
LEMMA BecomeReadyKeeps ==
  ASSUME DispatchInv, NEW w \in Workers, BecomeReady(w), UNCHANGED interactionVars
  PROVE  DispatchInv'
<1>1. TypeInv /\ GoodInv /\ SilentInv
  BY DEF DispatchInv
<1>2. /\ At(w, "becomeReady") /\ Then(w, <<>>) /\ gateway' = "READY"
      /\ UNCHANGED <<world, cache, known, owner, crossed, fetched,
                     topic, unavailable, readers, registered, session, owed, calls, events, overlap, reported>>
      /\ UNCHANGED <<table, made, routes, crashed, astray>>
  BY DEF BecomeReady, interactionVars
<1>3. /\ todo[w] # <<>> /\ todo[w][1].op = "becomeReady" /\ Len(todo[w]) >= 1 /\ Len(todo[w]) \in Nat
  BY <1>1, <1>2, AtIs DEF TypeInv
<1>4. /\ GoodInv' /\ LockInv' /\ CacheInv'
      /\ todo' \in [Workers -> Seq(Steps)] /\ owner' \in [Mutexes -> Workers \union {NoOne}]
      /\ cache' \in [Slots -> Versions] /\ crossed' \subseteq Slots /\ fetched' \subseteq Lists
  BY <1>2, OverAll DEF WriteOps
<1>5. TypeInv'
  BY <1>1, <1>2, <1>4 DEF TypeInv
<1>6. ArriveInv'
  BY <1>2, <1>3, OverRoutes
<1>7. overlap \/ \A o \in Workers : ~Has(todo[o], "announce")
  <2> SUFFICES ASSUME ~overlap, NEW o \in Workers, Has(todo[o], "announce") PROVE FALSE
    OBVIOUS
  <2>1. Has(todo[w], "becomeReady")
    BY <1>3 DEF Has
  <2>2. o = w /\ Announces(todo[w])
    BY <1>1, <2>1 DEF SilentInv
  <2>3. PICK i \in 1..Len(todo[w]) : todo[w][i].op = "announce"
    BY <2>2 DEF Has
  <2>4. i <= 1
    BY <1>3, <2>2, <2>3 DEF Announces
  <2> QED BY <1>3, <2>3, <2>4
<1>8. SilentInv'
  BY <1>1, <1>2, <1>3, <1>7, OverSilent
<1> QED BY <1>4, <1>5, <1>6, <1>8 DEF DispatchInv

\* The wait of a handler of guilds is over.
LEMMA AwaitReadyKeeps ==
  ASSUME DispatchInv, NEW w \in Workers, AwaitReady(w), UNCHANGED interactionVars
  PROVE  DispatchInv'
<1>1. TypeInv /\ GoodInv /\ SilentInv
  BY DEF DispatchInv
<1>2. /\ At(w, "awaitReady") /\ Then(w, <<>>) /\ gateway = "READY"
      /\ UNCHANGED <<world, cache, known, owner, crossed, fetched, topic, gateway,
                     unavailable, readers, registered, session, owed, calls, events, overlap, reported>>
      /\ UNCHANGED <<table, made, routes, crashed, astray>>
  BY DEF AwaitReady, interactionVars, dispatchVars
<1>3. /\ todo[w] # <<>> /\ todo[w][1].op = "awaitReady"
  BY <1>1, <1>2, AtIs DEF TypeInv
<1>4. /\ GoodInv' /\ LockInv' /\ CacheInv'
      /\ todo' \in [Workers -> Seq(Steps)] /\ owner' \in [Mutexes -> Workers \union {NoOne}]
      /\ cache' \in [Slots -> Versions] /\ crossed' \subseteq Slots /\ fetched' \subseteq Lists
  BY <1>2, OverAll DEF WriteOps
<1>5. TypeInv'
  BY <1>1, <1>2, <1>4 DEF TypeInv
<1>6. ArriveInv'
  BY <1>2, <1>3, OverRoutes
<1>7. overlap \/ \A o \in Workers : ~Has(todo[o], "announce")
  BY <1>1, <1>2 DEF SilentInv
<1>8. SilentInv'
  BY <1>1, <1>2, <1>3, <1>7, OverSilent
<1> QED BY <1>4, <1>5, <1>6, <1>8 DEF DispatchInv

\* A listed guild has come, and is forgotten.
LEMMA ForgetGuildKeeps ==
  ASSUME DispatchInv, NEW w \in Workers, ForgetGuild(w), UNCHANGED interactionVars
  PROVE  DispatchInv'
<1>1. TypeInv /\ GoodInv /\ SilentInv
  BY DEF DispatchInv
<1>2. /\ At(w, "forget") /\ Then(w, <<>>) /\ unavailable' = FALSE
      /\ UNCHANGED <<world, cache, known, owner, crossed, fetched, topic, gateway,
                     readers, registered, session, owed, calls, events, overlap, reported>>
      /\ UNCHANGED <<table, made, routes, crashed, astray>>
  BY DEF ForgetGuild, interactionVars
<1>3. /\ todo[w] # <<>> /\ todo[w][1].op = "forget" /\ 1 \in 1..Len(todo[w])
  BY <1>1, <1>2, AtIs DEF TypeInv
<1>4. /\ GoodInv' /\ LockInv' /\ CacheInv'
      /\ todo' \in [Workers -> Seq(Steps)] /\ owner' \in [Mutexes -> Workers \union {NoOne}]
      /\ cache' \in [Slots -> Versions] /\ crossed' \subseteq Slots /\ fetched' \subseteq Lists
  BY <1>2, OverAll DEF WriteOps
<1>5. TypeInv'
  BY <1>1, <1>2, <1>4 DEF TypeInv
<1>6. ArriveInv'
  BY <1>2, <1>3, OverRoutes
<1>7. overlap \/ ~Pending
  BY <1>1, <1>3 DEF SilentInv, Has
<1>8. SilentInv'
  BY <1>1, <1>2, <1>3, <1>7, OverSilent
<1> QED BY <1>4, <1>5, <1>6, <1>8 DEF DispatchInv

\* The shared lock is given back after the callback.
LEMMA UnshareKeeps ==
  ASSUME DispatchInv, NEW w \in Workers, Unshare(w), UNCHANGED interactionVars
  PROVE  DispatchInv'
<1>1. TypeInv /\ GoodInv /\ SilentInv /\ LockInv /\ CacheInv
  BY DEF DispatchInv
<1>2. /\ At(w, "unshare") /\ Then(w, <<>>) /\ readers' = readers \ {w}
      /\ UNCHANGED <<world, cache, known, owner, crossed, fetched, topic, gateway,
                     unavailable, registered, session, owed, calls, events, overlap, reported>>
      /\ UNCHANGED <<table, made, routes, crashed, astray>>
  BY DEF Unshare, interactionVars
<1>3. /\ todo[w] # <<>> /\ todo[w][1].op = "unshare"
  BY <1>1, <1>2, AtIs DEF TypeInv
<1>4. /\ GoodInv' /\ LockInv' /\ CacheInv'
      /\ todo' \in [Workers -> Seq(Steps)] /\ owner' \in [Mutexes -> Workers \union {NoOne}]
      /\ cache' \in [Slots -> Versions] /\ crossed' \subseteq Slots /\ fetched' \subseteq Lists
  <2>1. Turn(w, <<>>)
    <3>1. \A k \in 1..Len(<<>>) : NewsOf(<<>>[k]) = {} /\ <<>>[k].op \notin WriteOps
      BY OverIs
    <3>2. Fits(<<>>, todo[w][1]) /\ "unshare" \notin WriteOps \union {"unlock"}
      BY FitsNone DEF WriteOps
    <3> QED BY <1>1, <1>2, <3>1, <3>2, PlainTurns
  <2>2. readers' \subseteq Workers /\ \A o \in readers' : o \in readers /\ o # w
    BY <1>1, <1>2 DEF TypeInv
  <2> QED BY <1>1, <2>1, <2>2, TurnAll
<1>5. TypeInv'
  <2>1. readers' \subseteq Workers
    BY <1>1, <1>2 DEF TypeInv
  <2> QED BY <1>1, <1>2, <1>4, <2>1 DEF TypeInv
<1>6. ArriveInv'
  BY <1>2, <1>3, OverRoutes
<1>8. SilentInv'
  BY <1>1, <1>2, <1>3, OverSilent
<1> QED BY <1>4, <1>5, <1>6, <1>8 DEF DispatchInv

\* What a worker does once it knows about a guild.
LEMMA TellIs ==
  ASSUME TypeInv, NEW w \in Workers, TellGuild(w)
  PROVE  \E p : /\ Then(w, p) /\ Fits(p, todo[w][1])
                /\ \A k \in 1..Len(p) : /\ NewsOf(p[k]) = {} /\ p[k].op \notin WriteOps
                                        /\ p[k].op \in {"forget", "callback", "unshare"}
                /\ \/ unavailable /\ readers' = readers /\ reported' = reported
                   \/ /\ ~unavailable /\ readers' = readers \union {w} /\ Has(p, "unshare")
                      /\ reported' = (reported \/ (At(w, "created") /\ Head(todo[w]).listed))
                   \/ readers' = readers /\ reported' = reported
<1> DEFINE a == <<Do("forget")>>
           b == <<Do("callback"), Do("unshare")>>
<1>1. /\ TypeInv
      /\ At(w, "created") \/ At(w, "deleted")
      /\ Then(w, IF unavailable THEN a ELSE IF registered THEN b ELSE <<>>)
      /\ readers' = IF ~unavailable /\ registered THEN readers \union {w} ELSE readers
      /\ reported' = (reported \/ (~unavailable /\ registered /\ At(w, "created") /\ Head(todo[w]).listed))
  BY DEF TellGuild
<1>2. todo[w][1].op \in {"created", "deleted"}
  BY <1>1, AtIs
<1>3. \A op \in {"forget", "callback", "unshare"} : Do(op) \in Steps /\ Do(op).op = op /\ NewsOf(Do(op)) = {} /\ op \notin WriteOps
  BY DoIs DEF TellOps, WriteOps
<1>4. Fits(a, todo[w][1])
  <2>1. Weight("forget") <= Weight(todo[w][1].op) /\ todo[w][1].op \in AskOps
    BY <1>2 DEF Weight, AskOps
  <2> QED BY <1>3, <2>1, FitsOne
<1>5. Fits(b, todo[w][1])
  <2>1. /\ Weight("callback") + 1 <= Weight(todo[w][1].op) /\ Weight("unshare") <= Weight(todo[w][1].op)
        /\ todo[w][1].op \in AskOps
    BY <1>2 DEF Weight, AskOps
  <2> QED BY <1>3, <2>1, FitsTwo
<1>6. Len(a) = 1 /\ a[1] = Do("forget") /\ Len(b) = 2 /\ b[1] = Do("callback") /\ b[2] = Do("unshare")
  OBVIOUS
<1> HIDE DEF a, b
<1>7. (\A k \in 1..Len(a) : k = 1) /\ (\A k \in 1..Len(b) : k = 1 \/ k = 2) /\ 2 \in 1..Len(b)
  BY <1>6
<1>8. CASE unavailable
  <2>1. \A k \in 1..Len(a) : NewsOf(a[k]) = {} /\ a[k].op \notin WriteOps /\ a[k].op \in {"forget", "callback", "unshare"}
    BY <1>3, <1>6, <1>7
  <2>2. Then(w, a) /\ readers' = readers /\ (reported' = reported \/ reported' = (reported \/ FALSE))
    BY <1>1, <1>8
  <2>3. reported' = reported
    BY <2>2 DEF TypeInv
  <2> QED BY <1>4, <1>8, <2>1, <2>2, <2>3
<1>9. CASE ~unavailable /\ registered
  <2>1. \A k \in 1..Len(b) : NewsOf(b[k]) = {} /\ b[k].op \notin WriteOps /\ b[k].op \in {"forget", "callback", "unshare"}
    BY <1>3, <1>6, <1>7
  <2>2. Then(w, b) /\ readers' = readers \union {w} /\ reported' = (reported \/ (At(w, "created") /\ Head(todo[w]).listed))
    BY <1>1, <1>9
  <2>3. Has(b, "unshare")
    BY <1>3, <1>6, <1>7 DEF Has
  <2> QED BY <1>5, <1>9, <2>1, <2>2, <2>3
<1>10. CASE ~unavailable /\ ~registered
  <2>1. \A k \in 1..Len(<<>>) : NewsOf(<<>>[k]) = {} /\ <<>>[k].op \notin WriteOps /\ <<>>[k].op \in {"forget", "callback", "unshare"}
    BY OverIs
  <2>2. Then(w, <<>>) /\ readers' = readers /\ reported' = (reported \/ FALSE)
    BY <1>1, <1>10
  <2>3. reported' = reported /\ Fits(<<>>, todo[w][1])
    BY <2>2, FitsNone DEF TypeInv
  <2> QED BY <2>1, <2>2, <2>3
<1> QED BY <1>8, <1>9, <1>10

\* The end of guildCreate and guildDelete.
LEMMA TellGuildKeeps ==
  ASSUME DispatchInv, NEW w \in Workers, TellGuild(w), UNCHANGED interactionVars
  PROVE  DispatchInv'
<1>1. TypeInv /\ GoodInv /\ LockInv /\ CacheInv /\ SilentInv /\ ArriveInv
  BY DEF DispatchInv
<1>2. PICK p :
         /\ Then(w, p) /\ Fits(p, todo[w][1])
         /\ \A k \in 1..Len(p) : /\ NewsOf(p[k]) = {} /\ p[k].op \notin WriteOps
                                 /\ p[k].op \in {"forget", "callback", "unshare"}
         /\ \/ unavailable /\ readers' = readers /\ reported' = reported
            \/ /\ ~unavailable /\ readers' = readers \union {w} /\ Has(p, "unshare")
               /\ reported' = (reported \/ (At(w, "created") /\ Head(todo[w]).listed))
            \/ readers' = readers /\ reported' = reported
  BY <1>1, TellIs
<1>3. /\ At(w, "created") \/ At(w, "deleted")
      /\ UNCHANGED <<world, cache, known, owner, crossed, fetched, topic, gateway,
                     unavailable, registered, session, owed, calls, events, overlap>>
      /\ UNCHANGED <<table, made, routes, crashed, astray>>
  BY DEF TellGuild, interactionVars
<1>4. /\ todo[w] # <<>> /\ todo[w][1].op \in {"created", "deleted"} /\ Head(todo[w]) = todo[w][1]
      /\ Len(todo[w]) >= 1 /\ Len(todo[w]) \in Nat /\ p \in Seq(Steps)
  BY <1>1, <1>2, <1>3, AtIs DEF TypeInv, Fits
<1>5. readers' \subseteq Workers /\ reported' \in BOOLEAN
  <2>1. readers \subseteq Workers /\ reported \in BOOLEAN
    BY <1>1 DEF TypeInv
  <2> QED BY <1>2, <2>1
<1>6. \A o \in readers' : \/ o \in readers /\ (o = w => todo[w][1].op # "unshare")
                          \/ o = w /\ Has(p, "unshare")
  BY <1>2, <1>4
<1>7. Turn(w, p)
  <2>1. \A k \in 1..Len(p) : NewsOf(p[k]) = {} /\ p[k].op \notin WriteOps
    BY <1>2
  <2>2. UNCHANGED <<world, cache, owner, crossed, fetched>>
    BY <1>3
  <2>3. CASE At(w, "created")
    BY <1>1, <1>2, <2>1, <2>2, <2>3, PlainTurns DEF WriteOps
  <2>4. CASE At(w, "deleted")
    BY <1>1, <1>2, <2>1, <2>2, <2>4, PlainTurns DEF WriteOps
  <2> QED BY <1>3, <2>3, <2>4
<1>8. /\ GoodInv' /\ LockInv' /\ CacheInv'
      /\ todo' \in [Workers -> Seq(Steps)] /\ owner' \in [Mutexes -> Workers \union {NoOne}]
      /\ cache' \in [Slots -> Versions] /\ crossed' \subseteq Slots /\ fetched' \subseteq Lists
  BY <1>1, <1>5, <1>6, <1>7, TurnAll
<1>9. TypeInv'
  BY <1>1, <1>3, <1>5, <1>8 DEF TypeInv
<1>10. ArriveInv'
  <2>1. \A o \in Workers : RoutesOnce(todo[o])
    BY <1>1 DEF ArriveInv
  <2>2. \A k \in 1..Len(p) : p[k].op \notin RouteOps
    BY <1>2 DEF RouteOps
  <2> QED BY <1>1, <1>2, <1>4, <2>1, <2>2, ThenRoutes, ArriveKept
<1>11. SilentInv'
  <2> SUFFICES ASSUME ~overlap PROVE SilentInv'
    BY <1>3 DEF SilentInv
  <2>1. /\ ~reported
        /\ \A o \in Workers : Listed(todo[o]) => owed = "no" /\ \A z \in Workers : Has(todo[z], "created") => z = o
        /\ owed = "listed" => \A o \in Workers : ~Has(todo[o], "created")
        /\ Pending => world[Guild].live /\ \A o \in Workers : ~Has(todo[o], "deleted") /\ ~Has(todo[o], "forget")
        /\ Pending => unavailable \/ \E o \in Workers : Lists1(todo[o])
        /\ \A o \in Workers : Has(todo[o], "announce") =>
              /\ gateway = "AUTHENTICATION_SENT"
              /\ Announces(todo[o])
              /\ \A z \in Workers : Has(todo[z], "becomeReady") => z = o
              /\ \A z \in Workers : Listed(todo[z]) => Before(todo[z], "awaitReady", "created")
    BY <1>1 DEF SilentInv
  <2>2. /\ \A op \in {"announce", "becomeReady", "created"} : Has(todo'[w], op) => Has(todo[w], op)
        /\ Listed(todo'[w]) => Listed(todo[w])
        /\ Announces(todo[w]) => Announces(todo'[w])
        /\ Before(todo[w], "awaitReady", "created") => Before(todo'[w], "awaitReady", "created")
    <3>1. \A k \in 1..Len(p) : p[k].op \notin GuildOps \ {"forget"}
      BY <1>2 DEF GuildOps
    <3>2. \A op \in {"announce", "becomeReady", "created"} : \A k \in 1..Len(p) : p[k].op # op
      BY <1>2
    <3> QED BY <1>1, <1>2, <1>4, <3>1, <3>2, ThenGuild
  <2>3. \A o \in Workers \ {w} : todo'[o] = todo[o]
    BY <1>1, <1>2, <1>4, ThenIs
  <2>4. Has(todo[w], "created") \/ Has(todo[w], "deleted")
    BY <1>4 DEF Has
  <2>5. ~reported'
    <3> SUFFICES ASSUME ~unavailable, At(w, "created"), Head(todo[w]).listed PROVE FALSE
      BY <1>2, <2>1
    <3>1. Listed(todo[w]) /\ todo[w][1].op = "created" /\ 1 \in 1..Len(todo[w])
      BY <1>4 DEF Listed
    <3>2. \E o \in Workers : Lists1(todo[o])
      BY <2>1, <3>1 DEF Pending
    <3>3. \E o \in Workers : Has(todo[o], "announce")
      BY <3>2 DEF Lists1, Has
    <3>4. Before(todo[w], "awaitReady", "created")
      BY <2>1, <3>1, <3>3
    <3>5. PICK i \in 1..Len(todo[w]) : i < 1
      BY <3>1, <3>4 DEF Before
    <3> QED BY <3>5
  <2>6. ASSUME Pending' PROVE FALSE
    <3>1. owed' = owed
      BY <1>3
    <3>2. Pending
      BY <2>2, <2>3, <2>6, <3>1 DEF Pending
    <3>3. Has(todo[w], "created")
      BY <2>1, <2>4, <3>2
    <3>4. owed # "listed"
      BY <2>1, <3>3
    <3>5. PICK o \in Workers : Listed(todo'[o])
      BY <2>6, <3>1, <3>4 DEF Pending
    <3>6. Listed(todo[o])
      BY <2>2, <2>3, <3>5
    <3>7. o = w
      BY <2>1, <3>3, <3>6
    <3>8. todo[w][1].op = "created"
      BY <1>4, <2>1, <3>2 DEF Has
    <3>9. Len(todo[w]) = 1
      <4>1. TellsLast(todo[w])
        BY <1>1 DEF GoodInv, Good
      <4>2. 1 \in 1..Len(todo[w])
        BY <1>4
      <4> QED BY <3>8, <4>1, <4>2 DEF TellsLast
    <3>10. \A k \in 1..Len(todo'[w]) : \/ \E i \in 1..Len(p) : todo'[w][k] = p[i]
                                       \/ \E i \in 2..Len(todo[w]) : todo'[w][k] = todo[w][i]
      BY <1>1, <1>2, <1>4, ThenHas
    <3>11. \A k \in 1..Len(todo'[w]) : todo'[w][k].op # "created"
      BY <1>2, <3>9, <3>10
    <3> QED BY <3>5, <3>7, <3>11 DEF Listed
  <2>7. owed' = "listed" => Pending'
    BY DEF Pending
  <2>8. \A o \in Workers : Listed(todo'[o]) => Pending'
    BY DEF Pending
  <2>9. \A o \in Workers : Has(todo'[o], "announce") =>
           /\ gateway' = "AUTHENTICATION_SENT"
           /\ Announces(todo'[o])
           /\ \A z \in Workers : Has(todo'[z], "becomeReady") => z = o
           /\ \A z \in Workers : Listed(todo'[z]) => Before(todo'[z], "awaitReady", "created")
    BY <1>3, <2>1, <2>2, <2>3
  <2> QED BY <2>5, <2>6, <2>7, <2>8, <2>9 DEF SilentInv
<1> QED BY <1>8, <1>9, <1>10, <1>11 DEF DispatchInv

-----------------------------------------------------------------------------
(* Callbacks                                                               *)

\* What the program may ask the caches.
LEMMA ApiCallIs ==
  ASSUME NEW x, NEW c \in CallsAbout(x)
  PROVE  /\ c \in Steps /\ NewsOf(c) = {}
         /\ c.op \in {"get", "getGuildUser", "getGuildChannels", "getGuildRoles", "getGuildRole", "getCurrentUser"}
<1> DEFINE ops == {"get", "getGuildUser", "getGuildChannels", "getGuildRoles", "getGuildRole", "getCurrentUser"}
<1>1. PICK force \in BOOLEAN :
         \/ \E s \in Slots : s[1] \in {"guild", "channel", "user"} /\ c = Get(s, force)
         \/ x \in Users /\ c = Call("getGuildUser", x, force)
         \/ x \in Channels /\ c = Call("getGuildChannels", Guild, force)
         \/ x \in Roles /\ (c = Call("getGuildRoles", Guild, force) \/ c = Call("getGuildRole", x, force))
         \/ c = Call("getCurrentUser", Me, FALSE)
  BY DEF CallsAbout
<1>2. CASE \E s \in Slots : s[1] \in {"guild", "channel", "user"} /\ c = Get(s, force)
  <2>1. PICK s \in ItemSlots : c = Call("get", s, force)
    BY <1>2 DEF Get, ItemSlots
  <2>2. "get" \in ItemOps /\ "get" \in ops
    BY DEF ItemOps
  <2> QED BY <2>1, <2>2, CallIs
<1>3. CASE x \in Users /\ c = Call("getGuildUser", x, force)
  <2>1. "getGuildUser" \in UserOps
    BY DEF UserOps
  <2> QED BY <1>3, <2>1, CallIs
<1>4. CASE x \in Channels /\ c = Call("getGuildChannels", Guild, force)
  <2>1. "getGuildChannels" \in WholeOps
    BY DEF WholeOps
  <2> QED BY <1>4, <2>1, CallIs
<1>5. CASE x \in Roles /\ c = Call("getGuildRoles", Guild, force)
  <2>1. "getGuildRoles" \in WholeOps
    BY DEF WholeOps
  <2> QED BY <1>5, <2>1, CallIs
<1>6. CASE x \in Roles /\ c = Call("getGuildRole", x, force)
  <2>1. "getGuildRole" \in RoleOps
    BY DEF RoleOps
  <2> QED BY <1>6, <2>1, CallIs
<1>7. CASE c = Call("getCurrentUser", Me, FALSE)
  <2>1. PICK no \in BOOLEAN : no = FALSE
    OBVIOUS
  <2>2. "getCurrentUser" \in WholeOps /\ Me \in {Guild, Me} /\ c = Call("getCurrentUser", Me, no)
    BY <1>7, <2>1 DEF WholeOps
  <2> QED BY <2>2, CallIs
<1> QED BY <1>1, <1>2, <1>3, <1>4, <1>5, <1>6, <1>7

\* A step that is about neither caches, readers, guilds nor interactions.
LEMMA PlainKeeps ==
  ASSUME DispatchInv, NEW w \in Workers, NEW op, At(w, op),
         op \notin WriteOps \union GuildOps \union RouteOps \union {"unlock", "unshare"},
         NEW p, Fits(p, todo[w][1]),
         \A k \in 1..Len(p) : NewsOf(p[k]) = {} /\ p[k].op \notin WriteOps \union GuildOps \union RouteOps,
         Then(w, p), UNCHANGED <<world, cache, known, owner, crossed, fetched>>,
         UNCHANGED <<topic, gateway, unavailable, readers, registered, session, owed, events, overlap, reported>>,
         UNCHANGED interactionVars, calls' \in 0..MaxCalls
  PROVE  DispatchInv'
<1>1. TypeInv /\ SilentInv /\ ArriveInv
  BY DEF DispatchInv
<1>2. p \in Seq(Steps) /\ todo[w] # <<>> /\ todo[w][1].op = op
  BY <1>1, AtIs DEF Fits
<1>3. /\ GoodInv' /\ LockInv' /\ CacheInv'
      /\ todo' \in [Workers -> Seq(Steps)] /\ owner' \in [Mutexes -> Workers \union {NoOne}]
      /\ cache' \in [Slots -> Versions] /\ crossed' \subseteq Slots /\ fetched' \subseteq Lists
  BY PlainAll
<1>4. TypeInv'
  BY <1>1, <1>3 DEF TypeInv, interactionVars
<1>5. SilentInv'
  BY <1>1, <1>2, ThenCalmer, SilentCalm
<1>6. ArriveInv'
  <2>1. \A o \in Workers : RoutesOnce(todo[o])
    BY <1>1 DEF ArriveInv
  <2>2. \A k \in 1..Len(p) : p[k].op \notin RouteOps
    OBVIOUS
  <2> QED BY <1>1, <1>2, <2>1, <2>2, ThenRoutes, ArriveKept
<1> QED BY <1>3, <1>4, <1>5, <1>6 DEF DispatchInv

\* The callback runs, and may call the API.
LEMMA RunCallbackKeeps ==
  ASSUME DispatchInv, NEW w \in Workers, RunCallback(w), UNCHANGED interactionVars
  PROVE  DispatchInv'
<1>1. /\ At(w, "callback")
      /\ UNCHANGED <<world, cache, known, owner, crossed, fetched>>
      /\ UNCHANGED <<topic, gateway, unavailable, readers, registered, session, owed, events, overlap, reported>>
  BY DEF RunCallback
<1>2. TypeInv /\ calls \in 0..MaxCalls /\ MaxCalls \in Nat
  BY DispatchAssumption DEF DispatchInv, TypeInv, DispatchAssumption
<1>3. todo[w][1].op = "callback" /\ todo[w] # <<>>
  BY <1>1, <1>2, AtIs
<1>4. "callback" \notin WriteOps \union GuildOps \union RouteOps \union {"unlock", "unshare"}
  BY DEF WriteOps, GuildOps, RouteOps
<1>5. CASE Then(w, <<>>) /\ UNCHANGED calls
  <2>1. \A k \in 1..Len(<<>>) : NewsOf(<<>>[k]) = {} /\ <<>>[k].op \notin WriteOps \union GuildOps \union RouteOps
    BY OverIs
  <2>2. Fits(<<>>, todo[w][1]) /\ calls' \in 0..MaxCalls
    BY <1>2, <1>5, FitsNone
  <2> QED BY <1>1, <1>4, <1>5, <2>1, <2>2, PlainKeeps
<1>6. CASE calls < MaxCalls /\ calls' = calls + 1 /\ \E c \in UNION {CallsAbout(x) : x \in topic} : Then(w, <<c>>)
  <2>1. PICK x \in topic : \E c \in CallsAbout(x) : Then(w, <<c>>)
    BY <1>6
  <2>2. PICK c \in CallsAbout(x) : Then(w, <<c>>)
    BY <2>1
  <2>3. /\ c \in Steps /\ NewsOf(c) = {}
        /\ c.op \in {"get", "getGuildUser", "getGuildChannels", "getGuildRoles", "getGuildRole", "getCurrentUser"}
    BY ApiCallIs
  <2>4. /\ Weight(c.op) <= Weight("callback") /\ "callback" \in AskOps
        /\ c.op \notin WriteOps \union GuildOps \union RouteOps \union {"ifRegistered"}
    BY <2>3 DEF Weight, AskOps, WriteOps, GuildOps, RouteOps
  <2>5. Fits(<<c>>, todo[w][1])
    BY <1>3, <2>3, <2>4, FitsOne DEF GuildOps
  <2>6. \A k \in 1..Len(<<c>>) : NewsOf(<<c>>[k]) = {} /\ <<c>>[k].op \notin WriteOps \union GuildOps \union RouteOps
    <3> DEFINE p == <<c>>
    <3>1. Len(p) = 1 /\ p[1] = c
      OBVIOUS
    <3> HIDE DEF p
    <3>2. \A k \in 1..Len(p) : k = 1
      BY <3>1
    <3>3. \A k \in 1..Len(p) : NewsOf(p[k]) = {} /\ p[k].op \notin WriteOps \union GuildOps \union RouteOps
      BY <2>3, <2>4, <3>1, <3>2
    <3> QED BY <3>3 DEF p
  <2>7. calls' \in 0..MaxCalls
    BY <1>2, <1>6
  <2> QED BY <1>1, <1>4, <2>2, <2>5, <2>6, <2>7, PlainKeeps
<1> QED BY <1>5, <1>6 DEF RunCallback

\* Nobody registered for the event: the handler leaves its slots behind.
LEMMA TurnAwayKeeps ==
  ASSUME DispatchInv, NEW w \in Workers, At(w, "ifRegistered"),
         todo' = [todo EXCEPT ![w] = <<>>], crossed' = crossed \union Head(todo[w]).misses,
         UNCHANGED <<world, cache, known, owner, fetched, dispatchVars, interactionVars>>
  PROVE  DispatchInv'
<1> DEFINE q == todo[w]
<1>1. TypeInv /\ GoodInv /\ LockInv /\ CacheInv /\ SilentInv /\ ArriveInv
  BY DEF DispatchInv
<1>2. /\ q # <<>> /\ q \in Seq(Steps) /\ Len(q) >= 1 /\ Len(q) \in Nat
      /\ q[1] \in Steps /\ q[1].op = "ifRegistered" /\ Head(q) = q[1] /\ q[1].misses \subseteq SlotsOfRoles
  BY <1>1, AtIs, StepOp
<1>3. \A i \in 1..Len(q) : q[i].op \notin {"unlock", "unshare", "storeGuildChannels"} \union GuildOps
  BY <1>1, <1>2 DEF GoodInv, Good, LooksFirst
<1>4. todo'[w] = <<>> /\ (\A o \in Workers \ {w} : todo'[o] = todo[o]) /\ todo' \in [Workers -> Seq(Steps)]
  <2>1. todo \in [Workers -> Seq(Steps)] /\ <<>> \in Seq(Steps)
    BY <1>1 DEF TypeInv
  <2> QED BY <2>1
<1>5. crossed' = crossed \union q[1].misses /\ SlotsOfRoles \subseteq Slots
  BY <1>2 DEF SlotsOfRoles
<1> HIDE DEF q
<1>6. TypeInv'
  <2>1. crossed' \subseteq Slots
    BY <1>1, <1>2, <1>5 DEF TypeInv
  <2> QED BY <1>1, <1>4, <2>1 DEF TypeInv, dispatchVars, interactionVars
<1>7. GoodInv'
  <2>1. Good(<<>>)
    BY DEF Good, Apart, AsksLast, LooksFirst, TellsLast, Short
  <2> QED BY <1>1, <1>4, <2>1 DEF GoodInv
<1>8. LockInv'
  <2>1. UNCHANGED owner /\ UNCHANGED readers /\ owner \in [Mutexes -> Workers \union {NoOne}] /\ readers \subseteq Workers
    BY <1>1 DEF TypeInv, dispatchVars
  <2>2. \A m \in Mutexes : owner[m] # NoOne => owner[m] # w
    BY <1>1, <1>3 DEF LockInv, q
  <2>3. \A o \in readers : o # w
    BY <1>1, <1>3 DEF LockInv, Has, q
  <2> QED BY <1>1, <1>4, <2>1, <2>2, <2>3 DEF LockInv
<1>9. \A s : Coming(s) => Coming(s)' \/ s \in q[1].misses
  <2> SUFFICES ASSUME NEW s, NEW o \in Workers, NEW v \in Versions, Brings(todo[o], s, v), Right(s, v), Sure(todo[o], s)
               PROVE  Coming(s)' \/ s \in q[1].misses
    BY DEF Coming
  <2>1. CASE o = w
    BY <1>2, <2>1 DEF Sure, q
  <2>2. CASE o # w
    <3>1. Right(s, v)'
      BY SameWorld
    <3> QED BY <1>4, <2>2, <3>1 DEF Coming
  <2> QED BY <2>1, <2>2
<1>10. \A s, v : ~Brings(<<>>, s, v) /\ ~Has(<<>>, v)
  BY DEF Brings, Has
<1>11. \A s : Mistaken(s)' => Mistaken(s)
  <2>1. \A s, v : Right(s, v)' <=> Right(s, v)
    BY SameWorld
  <2> QED BY <1>4, <1>10, <2>1 DEF Mistaken
<1>12. \A s : Needed(s)' => Needed(s)
  BY <1>4, <1>10 DEF Needed, Told
<1>13. \A s, v : Right(s, v)' <=> Right(s, v)
  BY SameWorld
<1>14. CacheInv'
  <2>1. \A s : SlotInv(s) => SlotInv(s)'
    BY <1>5, <1>9, <1>11, <1>12, <1>13 DEF SlotInv
  <2>2. Current \notin q[1].misses
    BY <1>2 DEF SlotsOfRoles, Current
  <2>3. MeInv'
    BY <1>1, <1>9, <1>11, <1>13, <2>2 DEF CacheInv, MeInv
  <2> QED BY <1>1, <2>1, <2>3 DEF CacheInv
<1>15. SilentInv'
  <2>1. Calmer(todo[w], todo'[w])
    BY <1>3, <1>4, NewCalmer DEF q
  <2>2. \A o \in Workers \ {w} : Calmer(todo[o], todo'[o])
    BY <1>4 DEF Calmer
  <2> QED BY <1>1, <2>1, <2>2, SilentCalm DEF dispatchVars
<1>16. ArriveInv'
  <2>1. \A o \in Workers : RoutesOnce(todo[o])
    BY <1>1 DEF ArriveInv
  <2>2. RoutesOnce(<<>>)
    BY DEF RoutesOnce
  <2> QED BY <1>1, <1>4, <1>10, <2>1, <2>2, ArriveKept
<1> QED BY <1>6, <1>7, <1>8, <1>14, <1>15, <1>16 DEF DispatchInv

\* A handler goes on, or turns away.
LEMMA LookForCallbackKeeps ==
  ASSUME DispatchInv, NEW w \in Workers, LookForCallback(w), UNCHANGED interactionVars
  PROVE  DispatchInv'
<1>1. /\ At(w, "ifRegistered")
      /\ UNCHANGED <<world, cache, known, owner, fetched, dispatchVars>>
  BY DEF LookForCallback
<1>2. CASE Then(w, <<>>) /\ UNCHANGED crossed
  <2>1. \A k \in 1..Len(<<>>) : NewsOf(<<>>[k]) = {} /\ <<>>[k].op \notin WriteOps \union GuildOps \union RouteOps
    BY OverIs
  <2>2. Fits(<<>>, todo[w][1]) /\ calls' \in 0..MaxCalls
    BY <1>1, FitsNone DEF DispatchInv, TypeInv, dispatchVars
  <2>3. "ifRegistered" \notin WriteOps \union GuildOps \union RouteOps \union {"unlock", "unshare"}
    BY DEF WriteOps, GuildOps, RouteOps
  <2>4. UNCHANGED <<topic, gateway, unavailable, readers, registered, session, owed, events, overlap, reported>>
    BY <1>1 DEF dispatchVars
  <2> QED BY <1>1, <1>2, <2>1, <2>2, <2>3, <2>4, PlainKeeps
<1>3. CASE todo' = [todo EXCEPT ![w] = <<>>] /\ crossed' = crossed \union Head(todo[w]).misses
  BY <1>1, <1>3, TurnAwayKeeps
<1> QED BY <1>2, <1>3 DEF LookForCallback

-----------------------------------------------------------------------------
(* Interactions on the way                                                 *)

\* Only one interaction is handled by a worker: it has none left when that is replaced.
LEMMA RoutesOver ==
  ASSUME TypeInv, NEW w \in Workers, todo[w] # <<>>, RoutesOnce(todo[w]), todo[w][1].op \in RouteOps,
         Then(w, <<>>)
  PROVE  \A op \in RouteOps : ~Has(todo'[w], op)
<1> DEFINE p == <<>>
<1>1. p \in Seq(Steps) /\ Then(w, p) /\ Len(p) = 0 /\ Len(todo[w]) \in Nat /\ Len(todo[w]) >= 1
  BY DEF TypeInv
<1> HIDE DEF p
<1>2. \A k \in 1..Len(todo'[w]) : (\E i \in 1..Len(p) : todo'[w][k] = p[i]) \/ \E i \in 2..Len(todo[w]) : todo'[w][k] = todo[w][i]
  BY <1>1, ThenHas
<1>3. \A k \in 1..Len(todo'[w]) : \E i \in 2..Len(todo[w]) : todo'[w][k] = todo[w][i]
  <2>1. \A i : i \notin 1..Len(p)
    BY <1>1
  <2> QED BY ONLY <1>2, <2>1
<1>4. \A i \in 2..Len(todo[w]) : todo[w][i].op \notin RouteOps
  <2>1. \A i \in 2..Len(todo[w]) : i \in 1..Len(todo[w]) /\ 1 \in 1..Len(todo[w]) /\ i # 1
    BY <1>1
  <2> QED BY <2>1 DEF RoutesOnce
<1> QED BY <1>3, <1>4 DEF Has

\* An interaction is looked up.
LEMMA RouteInteractionKeeps ==
  ASSUME DispatchInv, ~crashed, NEW w \in Workers, RouteInteraction(w),
         UNCHANGED <<world, cache, known, owner, crossed, fetched, dispatchVars>>
  PROVE  DispatchInv'
<1> DEFINE r == routes[w]
           found == table[r.kind] # None
           t == Call("handler", todo[w][1].x, FALSE)
<1>1. TypeInv /\ SilentInv /\ ArriveInv /\ NullAssumption
  BY NullAssumption DEF DispatchInv
<1>2. /\ At(w, "route") /\ UNCHANGED <<table, made, crashed>>
      /\ astray' = (astray \/ (~found /\ Misses(w, None)))
      /\ UNCHANGED <<topic, gateway, unavailable, readers, registered, session, owed, calls, events, overlap, reported>>
  BY DEF RouteInteraction, dispatchVars
<1>3. /\ todo[w] # <<>> /\ todo[w][1].op = "route" /\ todo[w][1] \in Steps /\ Head(todo[w]) = todo[w][1]
      /\ Len(todo[w]) \in Nat /\ Len(todo[w]) >= 1
  BY <1>1, <1>2, AtIs
<1>4. todo[w][1].x \in Users
  BY <1>3, StepOp DEF RouteOps
<1>5. t \in Steps /\ t.op = "handler" /\ NewsOf(t) = {}
  <2>1. "handler" \in RouteOps /\ FALSE \in BOOLEAN
    BY DEF RouteOps
  <2> QED BY <1>4, <2>1, CallIs
<1>6. r \in [kind : Kinds, meant : 0..made \union {Null}, changed : BOOLEAN] /\ r.kind \in {"command", "component"}
  BY <1>1 DEF TypeInv, Kinds
<1>7. "route" \notin WriteOps \union GuildOps \union {"unlock", "unshare"}
  BY DEF WriteOps, GuildOps
<1>8. CASE found
  <2>1. Then(w, <<t>>) /\ routes' = routes
    BY <1>3, <1>8 DEF RouteInteraction
  <2>2. Has(todo[w], "route")
    BY <1>3 DEF Has
  <2> DEFINE p == <<t>>
  <2> HIDE DEF t
  <2>3. Len(p) = 1 /\ p[1] = t /\ p \in Seq(Steps)
    BY <1>5
  <2>4. Fits(p, todo[w][1])
    <3>1. Weight("handler") <= Weight("route") /\ "handler" \notin AskOps
      BY DEF Weight, AskOps, ItemOps, UserOps, RoleOps, WholeOps
    <3> QED BY <1>3, <1>5, <3>1, FitsOne
  <2> HIDE DEF p
  <2>5. \A k \in 1..Len(p) : k = 1
    BY <2>3
  <2>6. \A k \in 1..Len(p) : NewsOf(p[k]) = {} /\ p[k].op \notin WriteOps \union GuildOps
    BY <1>5, <2>3, <2>5 DEF WriteOps, GuildOps
  <2>7. Then(w, p)
    BY <2>1 DEF p
  <2>8. /\ GoodInv' /\ LockInv' /\ CacheInv'
        /\ todo' \in [Workers -> Seq(Steps)] /\ owner' \in [Mutexes -> Workers \union {NoOne}]
        /\ cache' \in [Slots -> Versions] /\ crossed' \subseteq Slots /\ fetched' \subseteq Lists
    BY <1>2, <1>7, <2>4, <2>6, <2>7, PlainAll
  <2>9. astray' = astray
    BY <1>1, <1>2, <1>8 DEF TypeInv
  <2>10. TypeInv'
    BY <1>1, <1>2, <2>1, <2>8, <2>9 DEF TypeInv
  <2>11. SilentInv'
    BY <1>1, <1>2, <1>3, <1>7, <2>3, <2>6, <2>7, ThenCalmer, SilentCalm
  <2>12. ArriveInv'
    <3>1. /\ \A o \in Workers \ {w} : todo'[o] = todo[o]
          /\ \A k \in 1..Len(p) : k \in 1..Len(todo'[w]) /\ todo'[w][k] = p[k]
          /\ \A k \in 1..Len(todo'[w]) : k \in 1..Len(p) \/ \E i \in 2..Len(todo[w]) : k = i - 1 + Len(p)
          /\ \A i \in 2..Len(todo[w]) : todo'[w][i - 1 + Len(p)] = todo[w][i]
      BY <1>1, <1>3, <2>3, <2>7, ThenIs, ZenonT(60)
    <3>2. \A i \in 2..Len(todo[w]) : todo[w][i].op \notin RouteOps
      <4>1. RoutesOnce(todo[w])
        BY <1>1 DEF ArriveInv
      <4>2. \A i \in 2..Len(todo[w]) : i \in 1..Len(todo[w]) /\ 1 \in 1..Len(todo[w]) /\ i # 1
        BY <1>3
      <4> QED BY <1>3, <4>1, <4>2 DEF RoutesOnce, RouteOps
    <3>3. \A k \in 1..Len(todo'[w]) : todo'[w][k].op \in RouteOps => k = 1
      BY <2>5, <3>1, <3>2
    <3>4. RoutesOnce(todo'[w]) /\ \A o \in Workers : RoutesOnce(todo'[o])
      BY <1>1, <3>1, <3>3 DEF RoutesOnce, ArriveInv
    <3>5. Handles(w) /\ \A o \in Workers \ {w} : Handles(o)' <=> Handles(o)
      BY <2>2, <3>1 DEF Handles
    <3>6. /\ \A kind \in Kinds : table[kind] # Null
          /\ \A o \in Workers : Handles(o) =>
                LET z == routes[o]
                IN /\ z.kind = "command" /\ ~z.changed =>
                          z.meant = table["command"] /\ (Has(todo[o], "handler") => z.meant # None)
                   /\ z.kind = "component" /\ z.meant # None => z.meant = table["component"]
      BY <1>1 DEF ArriveInv
    <3>7. \A o \in Workers : Handles(o)' =>
                LET z == routes[o]
                IN /\ z.kind = "command" /\ ~z.changed =>
                          z.meant = table["command"] /\ (Has(todo'[o], "handler") => z.meant # None)
                   /\ z.kind = "component" /\ z.meant # None => z.meant = table["component"]
      <4> SUFFICES ASSUME NEW o \in Workers, Handles(o)'
                   PROVE  LET z == routes[o]
                          IN /\ z.kind = "command" /\ ~z.changed =>
                                    z.meant = table["command"] /\ (Has(todo'[o], "handler") => z.meant # None)
                             /\ z.kind = "component" /\ z.meant # None => z.meant = table["component"]
        OBVIOUS
      <4>1. CASE o # w
        BY <3>1, <3>5, <3>6, <4>1
      <4>2. CASE o = w
        BY <1>8, <3>5, <3>6, <4>2
      <4> QED BY <4>1, <4>2
    <3> QED BY <1>1, <1>2, <2>1, <2>9, <3>4, <3>6, <3>7 DEF ArriveInv
  <2> QED BY <2>8, <2>10, <2>11, <2>12 DEF DispatchInv
<1>9. CASE ~found
  <2>1. Then(w, <<>>) /\ routes' = [routes EXCEPT ![w] = NoRoute]
    BY <1>9 DEF RouteInteraction
  <2>2. Has(todo[w], "route")
    BY <1>3 DEF Has
  <2>3. /\ r.kind = "command" /\ ~r.changed => r.meant = table["command"]
        /\ r.kind = "component" /\ r.meant # None => r.meant = table["component"]
    BY <1>1, <2>2 DEF ArriveInv, Handles
  <2>4. ~Misses(w, None)
    <3>1. None # Null
      BY <1>1 DEF NullAssumption, None
    <3> QED BY <1>6, <1>9, <2>3, <3>1 DEF Misses
  <2>5. astray' = astray
    BY <1>1, <1>2, <2>4 DEF TypeInv
  <2>6. /\ GoodInv' /\ LockInv' /\ CacheInv'
        /\ todo' \in [Workers -> Seq(Steps)] /\ owner' \in [Mutexes -> Workers \union {NoOne}]
        /\ cache' \in [Slots -> Versions] /\ crossed' \subseteq Slots /\ fetched' \subseteq Lists
    BY <1>2, <1>7, <2>1, OverAll
  <2>7. TypeInv'
    <3>1. routes' \in [Workers -> [kind : Kinds, meant : 0..made \union {Null}, changed : BOOLEAN]]
      BY <1>1, <2>1 DEF TypeInv, NoRoute, Kinds, None
    <3> QED BY <1>1, <1>2, <2>5, <2>6, <3>1 DEF TypeInv
  <2>8. SilentInv'
    <3>1. todo[w][1].op # "announce" /\ todo[w][1].op # "awaitReady"
      BY <1>3
    <3> QED BY <1>1, <1>2, <1>3, <2>1, <3>1, OverSilent
  <2>9. ArriveInv'
    <3>1. \A o \in Workers : RoutesOnce(todo[o])
      BY <1>1 DEF ArriveInv
    <3>2. \A op \in RouteOps : ~Has(todo'[w], op)
      BY <1>1, <1>3, <2>1, <3>1, RoutesOver DEF RouteOps
    <3>3. \A o \in Workers \ {w} : todo'[o] = todo[o] /\ routes'[o] = routes[o]
      BY <1>1, <1>3, <2>1, OverGuild DEF TypeInv
    <3>4. RoutesOnce(todo'[w])
      BY <3>2 DEF RoutesOnce, Has
    <3>5. ~Handles(w)' /\ \A o \in Workers \ {w} : Handles(o)' <=> Handles(o)
      BY <3>2, <3>3 DEF Handles, RouteOps
    <3> QED BY <1>1, <1>2, <2>5, <3>1, <3>3, <3>4, <3>5 DEF ArriveInv
  <2> QED BY <2>6, <2>7, <2>8, <2>9 DEF DispatchInv
<1> QED BY <1>8, <1>9

\* The handler of an interaction is run.
LEMMA RunHandlerKeeps ==
  ASSUME DispatchInv, ~crashed, NEW w \in Workers, RunHandler(w),
         UNCHANGED <<world, cache, known, owner, crossed, fetched, dispatchVars>>
  PROVE  DispatchInv'
<1> DEFINE r == routes[w]
           kind == r.kind
           target == IF table[kind] = None THEN Null ELSE table[kind]
<1>1. TypeInv /\ SilentInv /\ ArriveInv /\ NullAssumption
  BY NullAssumption DEF DispatchInv
<1>2. /\ At(w, "handler") /\ Then(w, <<>>) /\ made' = made
      /\ table' = [table EXCEPT ![kind] = target] /\ crashed' = (target = Null)
      /\ astray' = (astray \/ Misses(w, target))
      /\ routes' = [routes EXCEPT ![w] = NoRoute]
      /\ UNCHANGED <<topic, gateway, unavailable, readers, registered, session, owed, calls, events, overlap, reported>>
  BY DEF RunHandler, dispatchVars
<1>3. todo[w] # <<>> /\ todo[w][1].op = "handler" /\ Len(todo[w]) \in Nat /\ Len(todo[w]) >= 1
  BY <1>1, <1>2, AtIs
<1>4. /\ r \in [kind : Kinds, meant : 0..made \union {Null}, changed : BOOLEAN] /\ kind \in Kinds
      /\ kind \in {"command", "component"} /\ table \in [Kinds -> 0..made \union {Null}]
  BY <1>1 DEF TypeInv, Kinds
<1>5. "handler" \notin WriteOps \union GuildOps \union {"unlock", "unshare"}
  BY DEF WriteOps, GuildOps
<1>6. Has(todo[w], "handler")
  BY <1>3 DEF Has
<1>7. /\ kind = "command" /\ ~r.changed => r.meant = table["command"] /\ r.meant # None
      /\ kind = "component" /\ r.meant # None => r.meant = table["component"]
      /\ table[kind] # Null
  BY <1>1, <1>4, <1>6 DEF ArriveInv, Handles
<1>8. ~Misses(w, target)
  BY <1>4, <1>7 DEF Misses
<1>9. astray' = astray
  BY <1>1, <1>2, <1>8 DEF TypeInv
<1>10. target = Null \/ (target = table[kind] /\ table' = table)
  BY <1>2, <1>4
<1>11. target \in 0..made \union {Null}
  BY <1>4
<1> HIDE DEF r, kind, target
<1>12. /\ GoodInv' /\ LockInv' /\ CacheInv'
       /\ todo' \in [Workers -> Seq(Steps)] /\ owner' \in [Mutexes -> Workers \union {NoOne}]
       /\ cache' \in [Slots -> Versions] /\ crossed' \subseteq Slots /\ fetched' \subseteq Lists
  BY <1>2, <1>5, OverAll
<1>13. TypeInv'
  <2>1. routes' \in [Workers -> [kind : Kinds, meant : 0..made \union {Null}, changed : BOOLEAN]]
    BY <1>1, <1>2 DEF TypeInv, NoRoute, Kinds, None
  <2>2. table' \in [Kinds -> 0..made \union {Null}] /\ crashed' \in BOOLEAN
    BY <1>2, <1>4, <1>11
  <2> QED BY <1>1, <1>2, <1>9, <1>12, <2>1, <2>2 DEF TypeInv
<1>14. SilentInv'
  <2>1. todo[w][1].op # "announce" /\ todo[w][1].op # "awaitReady"
    BY <1>3
  <2> QED BY <1>1, <1>2, <1>3, <2>1, OverSilent
<1>15. ArriveInv'
  <2>1. \A o \in Workers : RoutesOnce(todo[o])
    BY <1>1 DEF ArriveInv
  <2>2. \A op \in RouteOps : ~Has(todo'[w], op)
    BY <1>1, <1>2, <1>3, <2>1, RoutesOver DEF RouteOps
  <2>3. \A o \in Workers \ {w} : todo'[o] = todo[o] /\ routes'[o] = routes[o]
    BY <1>1, <1>2, <1>3, OverGuild DEF TypeInv
  <2>4. RoutesOnce(todo'[w])
    BY <2>2 DEF RoutesOnce, Has
  <2>5. ~Handles(w)' /\ \A o \in Workers \ {w} : Handles(o)' <=> Handles(o)
    BY <2>2, <2>3 DEF Handles, RouteOps
  <2>6. CASE target = Null
    <3>1. crashed' /\ ~astray'
      <4>1. crashed' = (target = Null)
        BY <1>2
      <4>2. crashed' = TRUE
        BY ONLY <2>6, <4>1
      <4>3. ~astray'
        BY <1>1, <1>9 DEF ArriveInv
      <4> QED BY <4>2, <4>3
    <3>2. \A o \in Workers : RoutesOnce(todo'[o])
      BY <2>1, <2>3, <2>4
    <3> QED BY <3>1, <3>2 DEF ArriveInv
  <2>7. CASE table' = table
    BY <1>1, <1>2, <1>9, <2>1, <2>3, <2>4, <2>5, <2>7 DEF ArriveInv
  <2> QED BY <1>10, <2>6, <2>7
<1> QED BY <1>12, <1>13, <1>14, <1>15 DEF DispatchInv

\* Whatever a worker does.
LEMMA WorkerStepKeeps ==
  ASSUME DispatchInv, NEW w \in Workers, WorkerStep(w)
  PROVE  DispatchInv'
<1>1. CASE CacheStep(w) /\ UNCHANGED botVars
  BY <1>1, CacheStepKeeps
<1>2. CASE /\ RouteInteraction(w) \/ RunHandler(w)
           /\ UNCHANGED <<world, cache, known, owner, crossed, fetched, dispatchVars>>
  BY <1>2, RouteInteractionKeeps, RunHandlerKeeps DEF WorkerStep
<1>3. CASE /\ \/ Announce(w) \/ BecomeReady(w) \/ AwaitReady(w)
              \/ TellGuild(w) \/ ForgetGuild(w) \/ Unshare(w)
              \/ LookForCallback(w) \/ RunCallback(w)
           /\ UNCHANGED interactionVars
  BY <1>3, AnnounceKeeps, BecomeReadyKeeps, AwaitReadyKeeps, TellGuildKeeps, ForgetGuildKeeps, UnshareKeeps,
     LookForCallbackKeeps, RunCallbackKeeps
<1> QED BY <1>1, <1>2, <1>3 DEF WorkerStep

-----------------------------------------------------------------------------
(* What an idle worker takes up                                            *)

(* Steps that write nothing but what is true, and lists as a whole.        *)
Honest(q) ==
    /\ \A s, v : Brings(q, s, v) => Right(s, v)
    /\ \A list \in Lists : Has(q, StoreOp(list)) =>
          \A s \in Slots : s[1] = list /\ world[s[2]].live => Brings(q, s, 1) /\ Sure(q, s)

(* Workers that were idle take up something.                               *)
Fresh ==
    /\ todo' \in [Workers -> Seq(Steps)]
    /\ \A o \in Workers : todo'[o] = todo[o] \/ (todo[o] = <<>> /\ Good(todo'[o]) /\ Honest(todo[o])')

\* A worker with nothing to do.
LEMMA IdleIs ==
  /\ \A s, v : ~Brings(<<>>, s, v)
  /\ \A op : ~Has(<<>>, op)
  /\ Good(<<>>) /\ RoutesOnce(<<>>) /\ <<>> \in Seq(Steps)
BY DEF Brings, Has, Good, Apart, AsksLast, LooksFirst, TellsLast, Short, RoutesOnce

\* The locks and the steps, when idle workers take up something.
LEMMA FreshGood ==
  ASSUME TypeInv, GoodInv, LockInv, Fresh, UNCHANGED <<owner, readers>>
  PROVE  GoodInv' /\ LockInv'
<1>1. GoodInv'
  BY DEF GoodInv, Fresh
<1>2. owner \in [Mutexes -> Workers \union {NoOne}] /\ readers \subseteq Workers
  BY DEF TypeInv
<1>3. \A o \in Workers : todo'[o] = todo[o] \/ todo[o] = <<>>
  BY DEF Fresh
<1>4. \A i : i \notin 1..Len(<<>>)
  OBVIOUS
<1>5. ASSUME NEW m \in Mutexes, owner[m] # NoOne
      PROVE  owner[m] \in Workers /\ todo'[owner[m]] = todo[owner[m]]
  <2>1. owner[m] \in Workers
    BY <1>2, <1>5
  <2>2. todo[owner[m]] # <<>>
    BY <1>4, <1>5 DEF LockInv
  <2> QED BY <1>3, <2>1, <2>2
<1>6. \A o \in readers : Has(todo'[o], "unshare")
  BY <1>2, <1>3, IdleIs DEF LockInv
<1>7. ASSUME NEW m \in Mutexes, owner'[m] # NoOne
      PROVE  \E i \in 1..Len(todo'[owner'[m]]) :
                LET t == todo'[owner'[m]][i]
                IN \/ t.op = "unlock" /\ t.x = m
                   \/ t.op = "storeGuildChannels" /\ m = "channels"
  BY <1>5, <1>7 DEF LockInv
<1> QED BY <1>1, <1>6, <1>7 DEF LockInv

\* The caches, when something changes outside and idle workers take up the news.
LEMMA FreshCaches ==
  ASSUME TypeInv, CacheInv, Fresh, UNCHANGED <<cache, crossed, fetched>>,
         \A x \in Objects : world'[x].live \in BOOLEAN,
         \A s \in Slots \ {AtMe} : (\A v : Right(s, v)' <=> Right(s, v)) \/ Coming(s)',
         (\A v : Right(AtMe, v)' <=> Right(AtMe, v)) \/ Coming(Current)'
  PROVE  CacheInv'
<1>1. \A o \in Workers : todo'[o] = todo[o] \/ (todo[o] = <<>> /\ Good(todo'[o]) /\ Honest(todo[o])')
  BY DEF Fresh
<1>2. ASSUME NEW s, \A v : Right(s, v)' <=> Right(s, v)
      PROVE  /\ Coming(s) => Coming(s)'
             /\ Mistaken(s)' => Mistaken(s)
  <2>1. ASSUME Coming(s) PROVE Coming(s)'
    <3>1. PICK o \in Workers, v \in Versions : Brings(todo[o], s, v) /\ Right(s, v) /\ Sure(todo[o], s)
      BY <2>1 DEF Coming
    <3>2. todo'[o] = todo[o]
      BY <1>1, <3>1, IdleIs
    <3>3. Right(s, v)'
      BY <1>2, <3>1
    <3> QED BY <3>1, <3>2, <3>3 DEF Coming
  <2>2. ASSUME Mistaken(s)' PROVE Mistaken(s)
    <3>1. PICK o \in Workers, v \in Versions : Brings(todo'[o], s, v) /\ ~Right(s, v)'
      BY <2>2 DEF Mistaken
    <3>2. CASE todo'[o] = todo[o]
      BY <1>2, <3>1, <3>2 DEF Mistaken
    <3>3. CASE Honest(todo[o])'
      <4>1. Right(s, v)'
        BY <3>1, <3>3 DEF Honest
      <4> QED BY <3>1, <4>1
    <3> QED BY <1>1, <3>2, <3>3
  <2> QED BY <2>1, <2>2
<1>3. ASSUME NEW s \in Slots \ {AtMe}, SlotInv(s), ~Coming(s)'
      PROVE  SlotInv(s)'
  <2>1. \A v : Right(s, v)' <=> Right(s, v)
    BY <1>3
  <2>2. (Coming(s) => Coming(s)') /\ (Mistaken(s)' => Mistaken(s))
    BY <1>2, <2>1
  <2>3. ASSUME Needed(s)', ~Right(s, cache[s])' PROVE Needed(s)
    <3> SUFFICES ASSUME s[1] \in Lists, ~Told(s[1]), Told(s[1])', cache[s] # 1 PROVE FALSE
      BY <2>3 DEF Needed
    <3>1. PICK o \in Workers : Has(todo'[o], StoreOp(s[1]))
      BY DEF Told
    <3>2. ~Has(todo[o], StoreOp(s[1]))
      BY DEF Told
    <3>3. Honest(todo[o])'
      BY <1>1, <3>1, <3>2
    <3>4. world'[s[2]].live \in BOOLEAN
      BY SlotKinds
    <3>5. CASE world'[s[2]].live
      <4>1. Brings(todo'[o], s, 1) /\ Sure(todo'[o], s)
        BY <3>1, <3>3, <3>5 DEF Honest
      <4>2. Right(s, 1)'
        BY <3>4, <3>5 DEF Right
      <4>3. 1 \in Versions
        BY DispatchAssumption DEF DispatchAssumption, Versions
      <4> QED BY <1>3, <4>1, <4>2, <4>3 DEF Coming
    <3>6. CASE ~world'[s[2]].live
      <4>1. cache' = cache
        OBVIOUS
      <4> QED BY <2>3, <3>4, <3>6, <4>1 DEF Right
    <3> QED BY <3>5, <3>6
  <2>4. Right(s, cache[s])' <=> Right(s, cache[s])
    BY <2>1 DEF Right
  <2> QED BY <1>3, <2>2, <2>3, <2>4 DEF SlotInv
<1>4. \A s \in Slots \ {AtMe} : SlotInv(s)'
  BY <1>3 DEF CacheInv, SlotInv
<1>5. MeInv'
  <2>1. Current \in Slots \ {AtMe}
    BY SlotsAre DEF Current, AtMe
  <2>2. Coming(Current) => Coming(Current)'
    BY <1>2, <2>1
  <2>3. CASE Coming(Current)'
    BY <2>3 DEF MeInv
  <2>4. CASE ~Coming(Current)'
    <3>1. \A v : Right(AtMe, v)' <=> Right(AtMe, v)
      BY <2>4
    <3>2. Mistaken(AtMe)' => Mistaken(AtMe)
      BY <1>2, <3>1
    <3>3. Right(AtMe, cache[AtMe])' <=> Right(AtMe, cache[AtMe])
      BY <3>1 DEF Right
    <3> QED BY <2>2, <2>4, <3>2, <3>3 DEF CacheInv, MeInv
  <2> QED BY <2>3, <2>4
<1> QED BY <1>4, <1>5 DEF CacheInv

\* Handlers: only their last step may call.
LEMMA RowGood ==
  ASSUME NEW q \in Seq(Steps), Len(q) \in 1..4, \A i \in 1..Len(q) : i # Len(q) => q[i].op \notin AskOps,
         Apart(q), LooksFirst(q)
  PROVE  Good(q)
<1>0. Len(q) \in Nat /\ Len(q) <= 4
  <2>1. \A n \in 1..4 : n \in Nat /\ n <= 4
    OBVIOUS
  <2> QED BY <2>1
<1>1. AsksLast(q)
  <2>1. \A i, j \in 1..Len(q) : i < j => i # Len(q)
    BY <1>0
  <2> QED BY <2>1 DEF AsksLast
<1>2. TellsLast(q)
  BY DEF TellsLast, AskOps
<1>3. \A op : op \notin AskOps => Weight(op) = 1
  BY DEF Weight, AskOps, ItemOps, UserOps, RoleOps, WholeOps
<1>4. \A op : Weight(op) \in 1..4
  BY DEF Weight
<1>5. Short(q)
  <2>1. ASSUME NEW i \in 1..Len(q) PROVE Weight(q[i].op) + Len(q) - i <= 4
    <3>1. Weight(q[i].op) \in 1..4
      BY <1>4
    <3>2. CASE i = Len(q)
      BY ONLY <1>0, <3>1, <3>2
    <3>3. CASE i # Len(q)
      <4>1. Weight(q[i].op) = 1
        BY <1>3, <3>3
      <4> QED BY ONLY <1>0, <4>1
    <3> QED BY <3>2, <3>3
  <2> QED BY <2>1 DEF Short
<1> QED BY <1>1, <1>2, <1>5 DEF Good

\* A handler of one step.
LEMMA RowOne ==
  ASSUME NEW t \in Steps, t.op # "ifRegistered"
  PROVE  LET q == <<t>> IN
         /\ q \in Seq(Steps) /\ Good(q)
         /\ \A op : Has(q, op) <=> op = t.op
         /\ \A s, v : Brings(q, s, v) <=> <<s, v>> \in NewsOf(t)
         /\ \A s : Sure(q, s)
<1> DEFINE q == <<t>>
<1>1. q \in Seq(Steps) /\ Len(q) = 1 /\ q[1] = t
  OBVIOUS
<1> HIDE DEF q
<1>2. 1 \in 1..Len(q) /\ \A i \in 1..Len(q) : i = 1
  BY <1>1
<1>3. Good(q)
  <2>1. Apart(q) /\ LooksFirst(q)
    BY <1>1, <1>2 DEF Apart, LooksFirst
  <2>2. Len(q) \in 1..4 /\ \A i \in 1..Len(q) : i # Len(q) => q[i].op \notin AskOps
    BY <1>1, <1>2
  <2> QED BY <1>1, <2>1, <2>2, RowGood
<1> QED BY <1>1, <1>2, <1>3 DEF Has, Brings, Sure, q

(* Slots are written once.                                                 *)
Clear(t, u) == \A m \in NewsOf(t), n \in NewsOf(u) : m[1] # n[1]

\* A handler of two steps.
LEMMA RowTwo ==
  ASSUME NEW t \in Steps, NEW u \in Steps, t.op \notin AskOps, u.op # "ifRegistered", Clear(t, u),
         t.op = "ifRegistered" => u.op \notin {"unlock", "unshare", "storeGuildChannels"} \union GuildOps
  PROVE  LET q == <<t, u>> IN
         /\ q \in Seq(Steps) /\ Good(q)
         /\ \A op : Has(q, op) <=> op \in {t.op, u.op}
         /\ \A s, v : Brings(q, s, v) <=> <<s, v>> \in NewsOf(t) \/ <<s, v>> \in NewsOf(u)
         /\ \A s : (t.op = "ifRegistered" => s \in t.misses) => Sure(q, s)
<1> DEFINE q == <<t, u>>
<1>1. q \in Seq(Steps) /\ Len(q) = 2 /\ q[1] = t /\ q[2] = u
  OBVIOUS
<1> HIDE DEF q
<1>2. 1 \in 1..Len(q) /\ 2 \in 1..Len(q) /\ \A i \in 1..Len(q) : i = 1 \/ i = 2
  BY <1>1
<1>3. Apart(q)
  BY <1>1, <1>2 DEF Apart, Clear
<1>4. LooksFirst(q)
  BY <1>1, <1>2 DEF LooksFirst, GuildOps
<1>5. Good(q)
  <2>1. Len(q) \in 1..4 /\ \A i \in 1..Len(q) : i # Len(q) => q[i].op \notin AskOps
    BY <1>1, <1>2
  <2> QED BY <1>1, <1>3, <1>4, <2>1, RowGood
<1>6. \A op : Has(q, op) <=> op \in {t.op, u.op}
  BY <1>1, <1>2 DEF Has
<1>7. \A s, v : Brings(q, s, v) <=> <<s, v>> \in NewsOf(t) \/ <<s, v>> \in NewsOf(u)
  BY <1>1, <1>2 DEF Brings
<1>8. \A s : (t.op = "ifRegistered" => s \in t.misses) => Sure(q, s)
  BY <1>1, <1>2 DEF Sure
<1> QED BY <1>1, <1>5, <1>6, <1>7, <1>8 DEF q

\* A handler of three steps.
LEMMA RowThree ==
  ASSUME NEW t \in Steps, NEW u \in Steps, NEW x \in Steps, t.op \notin AskOps, u.op \notin AskOps,
         u.op # "ifRegistered", x.op # "ifRegistered", Clear(t, u), Clear(t, x), Clear(u, x),
         t.op = "ifRegistered" => {u.op, x.op} \cap ({"unlock", "unshare", "storeGuildChannels"} \union GuildOps) = {}
  PROVE  LET q == <<t, u, x>> IN
         /\ q \in Seq(Steps) /\ Good(q)
         /\ \A op : Has(q, op) <=> op \in {t.op, u.op, x.op}
         /\ \A s, v : Brings(q, s, v) <=> <<s, v>> \in NewsOf(t) \/ <<s, v>> \in NewsOf(u) \/ <<s, v>> \in NewsOf(x)
<1> DEFINE q == <<t, u, x>>
<1>1. q \in Seq(Steps) /\ Len(q) = 3 /\ q[1] = t /\ q[2] = u /\ q[3] = x
  OBVIOUS
<1> HIDE DEF q
<1>2. 1 \in 1..Len(q) /\ 2 \in 1..Len(q) /\ 3 \in 1..Len(q) /\ \A i \in 1..Len(q) : i = 1 \/ i = 2 \/ i = 3
  BY <1>1
<1>3. Apart(q)
  BY <1>1, <1>2 DEF Apart, Clear
<1>4. LooksFirst(q)
  BY <1>1, <1>2 DEF LooksFirst, GuildOps
<1>5. Good(q)
  <2>1. Len(q) \in 1..4 /\ \A i \in 1..Len(q) : i # Len(q) => q[i].op \notin AskOps
    BY <1>1, <1>2
  <2> QED BY <1>1, <1>3, <1>4, <2>1, RowGood
<1>6. \A op : Has(q, op) <=> op \in {t.op, u.op, x.op}
  BY <1>1, <1>2 DEF Has
<1>7. \A s, v : Brings(q, s, v) <=> <<s, v>> \in NewsOf(t) \/ <<s, v>> \in NewsOf(u) \/ <<s, v>> \in NewsOf(x)
  BY <1>1, <1>2 DEF Brings
<1> QED BY <1>1, <1>5, <1>6, <1>7 DEF q

\* A handler of four steps.
LEMMA RowFour ==
  ASSUME NEW t \in Steps, NEW u \in Steps, NEW x \in Steps, NEW y \in Steps,
         t.op \notin AskOps, u.op \notin AskOps, x.op \notin AskOps,
         "ifRegistered" \notin {t.op, u.op, x.op, y.op},
         Clear(t, u), Clear(t, x), Clear(t, y), Clear(u, x), Clear(u, y), Clear(x, y)
  PROVE  LET q == <<t, u, x, y>> IN
         /\ q \in Seq(Steps) /\ Good(q) /\ Len(q) = 4 /\ q[1] = t /\ q[2] = u /\ q[3] = x /\ q[4] = y
         /\ \A op : Has(q, op) <=> op \in {t.op, u.op, x.op, y.op}
         /\ \A s, v : Brings(q, s, v) <=> \/ <<s, v>> \in NewsOf(t) \/ <<s, v>> \in NewsOf(u)
                                          \/ <<s, v>> \in NewsOf(x) \/ <<s, v>> \in NewsOf(y)
         /\ \A s : Sure(q, s)
<1> DEFINE q == <<t, u, x, y>>
<1>1. q \in Seq(Steps) /\ Len(q) = 4 /\ q[1] = t /\ q[2] = u /\ q[3] = x /\ q[4] = y
  OBVIOUS
<1> HIDE DEF q
<1>2. /\ 1 \in 1..Len(q) /\ 2 \in 1..Len(q) /\ 3 \in 1..Len(q) /\ 4 \in 1..Len(q)
      /\ \A i \in 1..Len(q) : i = 1 \/ i = 2 \/ i = 3 \/ i = 4
  BY <1>1
<1>3. Apart(q)
  BY <1>1, <1>2 DEF Apart, Clear
<1>4. LooksFirst(q)
  BY <1>1, <1>2 DEF LooksFirst
<1>5. Good(q)
  <2>1. Len(q) \in 1..4 /\ \A i \in 1..Len(q) : i # Len(q) => q[i].op \notin AskOps
    BY <1>1, <1>2
  <2> QED BY <1>1, <1>3, <1>4, <2>1, RowGood
<1>6. \A op : Has(q, op) <=> op \in {t.op, u.op, x.op, y.op}
  BY <1>1, <1>2 DEF Has
<1>7. \A s, v : Brings(q, s, v) <=> \/ <<s, v>> \in NewsOf(t) \/ <<s, v>> \in NewsOf(u)
                                    \/ <<s, v>> \in NewsOf(x) \/ <<s, v>> \in NewsOf(y)
  BY <1>1, <1>2 DEF Brings
<1>8. \A s : Sure(q, s)
  BY <1>1, <1>2 DEF Sure
<1> QED BY <1>1, <1>5, <1>6, <1>7, <1>8 DEF q

(* A handler that is neither about guilds nor an interaction.              *)
Mild(q) == \A op \in GuildOps \union RouteOps : ~Has(q, op)
(* A handler that stores no list as a whole.                               *)
Listless(q) == \A list \in Lists : ~Has(q, StoreOp(list))

\* A handler that writes one slot.
LEMMA WriteOne ==
  ASSUME NEW op \in WriteOps, op \notin {"storeGuildChannels", "storeGuildRoles"},
         NEW s \in Slots, NEW v \in Versions, s[1] = "current" => v # 0
  PROVE  LET q == <<Write(op, {<<s, v>>})>> IN
         /\ q \in Seq(Steps) /\ Good(q) /\ Mild(q) /\ Listless(q)
         /\ \A x, y : Brings(q, x, y) <=> x = s /\ y = v
         /\ \A x : Sure(q, x)
<1> DEFINE t == Write(op, {<<s, v>>})
<1>1. t \in Steps /\ t.op = op /\ \A n : n \in NewsOf(t) <=> n = <<s, v>>
  BY InsertIs
<1> HIDE DEF t
<1>2. op \notin GuildOps \union RouteOps \union {"ifRegistered"} /\ \A list : StoreOp(list) # op
  BY DEF WriteOps, GuildOps, RouteOps, StoreOp
<1>3. /\ <<t>> \in Seq(Steps) /\ Good(<<t>>)
      /\ \A o : Has(<<t>>, o) <=> o = op
      /\ \A x, y : Brings(<<t>>, x, y) <=> <<x, y>> \in NewsOf(t)
      /\ \A x : Sure(<<t>>, x)
  BY <1>1, <1>2, RowOne
<1>4. Mild(<<t>>) /\ Listless(<<t>>)
  BY <1>2, <1>3 DEF Mild, Listless
<1>5. \A x, y : <<x, y>> = <<s, v>> <=> x = s /\ y = v
  OBVIOUS
<1>6. \A x, y : Brings(<<t>>, x, y) <=> x = s /\ y = v
  BY <1>1, <1>3, <1>5
<1> QED BY <1>3, <1>4, <1>6 DEF t

\* A handler that writes two slots.
LEMMA WriteTwo ==
  ASSUME NEW op \in WriteOps, op \notin {"storeGuildChannels", "storeGuildRoles"},
         NEW s \in Slots, NEW v \in Versions, s[1] = "current" => v # 0,
         NEW op2 \in WriteOps, op2 \notin {"storeGuildChannels", "storeGuildRoles"},
         NEW s2 \in Slots, NEW v2 \in Versions, s2[1] = "current" => v2 # 0, s # s2
  PROVE  LET q == <<Write(op, {<<s, v>>}), Write(op2, {<<s2, v2>>})>> IN
         /\ q \in Seq(Steps) /\ Good(q) /\ Mild(q) /\ Listless(q)
         /\ \A x, y : Brings(q, x, y) <=> (x = s /\ y = v) \/ (x = s2 /\ y = v2)
         /\ \A x : Sure(q, x)
<1> DEFINE t == Write(op, {<<s, v>>})
           u == Write(op2, {<<s2, v2>>})
           q == <<t, u>>
<1>1. /\ t \in Steps /\ t.op = op /\ \A n : n \in NewsOf(t) <=> n = <<s, v>>
      /\ u \in Steps /\ u.op = op2 /\ \A n : n \in NewsOf(u) <=> n = <<s2, v2>>
  BY InsertIs
<1> HIDE DEF t, u
<1>2. /\ op \notin GuildOps \union RouteOps \union AskOps \union {"ifRegistered"} /\ \A list : StoreOp(list) # op
      /\ op2 \notin GuildOps \union RouteOps \union {"ifRegistered"} /\ \A list : StoreOp(list) # op2
  BY OpsAre DEF WriteOps, GuildOps, RouteOps, StoreOp
<1>3. Clear(t, u)
  <2>1. <<s, v>>[1] = s /\ <<s2, v2>>[1] = s2
    OBVIOUS
  <2> QED BY <1>1, <2>1 DEF Clear
<1>4. /\ q \in Seq(Steps) /\ Good(q)
      /\ \A o : Has(q, o) <=> o \in {op, op2}
      /\ \A x, y : Brings(q, x, y) <=> <<x, y>> \in NewsOf(t) \/ <<x, y>> \in NewsOf(u)
      /\ \A x : Sure(q, x)
  BY <1>1, <1>2, <1>3, RowTwo
<1> HIDE DEF q
<1>5. Mild(q) /\ Listless(q)
  BY <1>2, <1>4 DEF Mild, Listless
<1>6. \A x, y : (<<x, y>> = <<s, v>> <=> x = s /\ y = v) /\ (<<x, y>> = <<s2, v2>> <=> x = s2 /\ y = v2)
  OBVIOUS
<1>7. \A x, y : Brings(q, x, y) <=> (x = s /\ y = v) \/ (x = s2 /\ y = v2)
  BY <1>1, <1>4, <1>6, ZenonT(60)
<1> QED BY <1>4, <1>5, <1>7 DEF q, t, u

\* A handler that looks for its callback before it writes.
LEMMA LookAndWrite ==
  ASSUME NEW slots \in SUBSET SlotsOfRoles,
         NEW op \in WriteOps, op \notin {"storeGuildChannels", "storeGuildRoles"}, NEW news \in Newses
  PROVE  LET q == <<IfRegistered(slots), Write(op, news)>> IN
         /\ q \in Seq(Steps) /\ Good(q) /\ Mild(q) /\ Listless(q)
         /\ \A x, y : Brings(q, x, y) <=> <<x, y>> \in news
         /\ \A x \in slots : Sure(q, x)
<1> DEFINE t == IfRegistered(slots)
           u == Write(op, news)
           q == <<t, u>>
<1>1. /\ t \in Steps /\ t.op = "ifRegistered" /\ t.misses = slots /\ NewsOf(t) = {}
      /\ u \in Steps /\ u.op = op /\ NewsOf(u) = news
  BY DoIs, WriteIs
<1> HIDE DEF t, u
<1>2. /\ op \notin GuildOps \union RouteOps \union {"ifRegistered", "unlock", "unshare"} /\ \A list : StoreOp(list) # op
      /\ "ifRegistered" \notin GuildOps \union RouteOps \union AskOps /\ \A list : StoreOp(list) # "ifRegistered"
  BY DEF WriteOps, GuildOps, RouteOps, StoreOp, AskOps, ItemOps, UserOps, RoleOps, WholeOps
<1>3. Clear(t, u)
  BY <1>1 DEF Clear
<1>4. /\ q \in Seq(Steps) /\ Good(q)
      /\ \A o : Has(q, o) <=> o \in {t.op, u.op}
      /\ \A x, y : Brings(q, x, y) <=> <<x, y>> \in NewsOf(t) \/ <<x, y>> \in NewsOf(u)
      /\ \A x : (t.op = "ifRegistered" => x \in t.misses) => Sure(q, x)
  <2>1. /\ t.op \notin AskOps /\ u.op # "ifRegistered"
        /\ u.op \notin {"unlock", "unshare", "storeGuildChannels"} \union GuildOps
    BY <1>1, <1>2
  <2> QED BY <1>1, <1>3, <2>1, RowTwo
<1> HIDE DEF q
<1>5. Mild(q) /\ Listless(q)
  BY <1>1, <1>2, <1>4 DEF Mild, Listless
<1>6. (\A x, y : Brings(q, x, y) <=> <<x, y>> \in news) /\ \A x \in slots : Sure(q, x)
  BY <1>1, <1>4
<1> QED BY <1>4, <1>5, <1>6 DEF q, t, u

-----------------------------------------------------------------------------
(* The handlers, the calls and the routes, one by one                      *)

\* Which handler it is.
LEMMA HandlersAre ==
  ASSUME NEW x, NEW v
  PROVE  /\ x \in Channels => /\ Created(x, v) = ChannelCreate(x, v) /\ Updated(x, v) = ChannelCreate(x, v)
                              /\ Deleted(x, v) = ChannelDelete(x)
         /\ x \in Threads => /\ Created(x, v) = ThreadEvent(x, v) /\ Updated(x, v) = ThreadEvent(x, v)
                             /\ Deleted(x, v) = ThreadEvent(x, v)
         /\ x \in Roles => /\ Created(x, v) = RoleCreate(x, v) /\ Updated(x, v) = RoleCreate(x, v)
                           /\ Deleted(x, v) = RoleDelete(x)
         /\ x \in Users => /\ Created(x, v) = MemberAdd(x, v) /\ Updated(x, v) = MemberAdd(x, v)
                           /\ Deleted(x, v) = Ban(x, v)
         /\ x = Guild => /\ Created(x, v) = GuildAvailable(v, FALSE) /\ Updated(x, v) = GuildUpdate(v)
                         /\ Deleted(x, v) = GuildDelete
         /\ x = Me => Updated(x, v) = UserUpdate(v)
<1>1. CASE x \in Channels
  BY <1>1, Kinds5 DEF Created, Updated, Deleted, ChannelCreate, ChannelUpdate
<1>2. CASE x \in Threads
  BY <1>2, Kinds5 DEF Created, Updated, Deleted
<1>3. CASE x \in Roles
  BY <1>3, Kinds5 DEF Created, Updated, Deleted, RoleCreate, RoleUpdate
<1>4. CASE x \in Users
  BY <1>4, Kinds5 DEF Created, Updated, Deleted, MemberAdd, MemberUpdate, MemberRemove, Ban
<1>5. CASE x = Guild
  BY <1>5, Kinds5 DEF Created, Updated, Deleted, GuildCreate
<1>6. CASE x = Me
  BY <1>6, Kinds5 DEF Updated
<1> QED BY <1>1, <1>2, <1>3, <1>4, <1>5, <1>6

\* Channels and threads.
LEMMA ChannelEventIs ==
  ASSUME NEW c \in Channels, NEW v \in Versions
  PROVE  /\ LET q == ChannelCreate(c, v) IN
            /\ q \in Seq(Steps) /\ Good(q) /\ Mild(q) /\ Listless(q)
            /\ \A s, y : Brings(q, s, y) <=> (s = <<"channel", c>> /\ y = v) \/ (s = <<"channels", c>> /\ y = 1)
            /\ \A s : Sure(q, s)
         /\ LET q == ChannelDelete(c) IN
            /\ q \in Seq(Steps) /\ Good(q) /\ Mild(q) /\ Listless(q)
            /\ \A s, y : Brings(q, s, y) <=> (s = <<"channel", c>> /\ y = 0) \/ (s = <<"channels", c>> /\ y = 0)
            /\ \A s : Sure(q, s)
<1> DEFINE s1 == <<"channel", c>>
           s2 == <<"channels", c>>
<1>1. /\ s1 \in Slots /\ s2 \in Slots /\ s1[1] # "current" /\ s2[1] # "current" /\ s1 # s2
      /\ 0 \in Versions /\ 1 \in Versions
  BY SlotsAre, DispatchAssumption DEF DispatchAssumption, Versions
<1>2. /\ ChannelCreate(c, v) = <<Write("insert", {<<s1, v>>}), Write("insertGuildChannel", {<<s2, 1>>})>>
      /\ ChannelDelete(c) = <<Write("insert", {<<s1, 0>>}), Write("removeGuildChannel", {<<s2, 0>>})>>
  BY DEF ChannelCreate, ChannelDelete, Insert, Erase, InsertGuildChannel, RemoveGuildChannel
<1>3. \A op \in {"insert", "insertGuildChannel", "removeGuildChannel"} :
          op \in WriteOps /\ op \notin {"storeGuildChannels", "storeGuildRoles"}
  BY DEF WriteOps
<1> HIDE DEF s1, s2
<1>4. LET q == <<Write("insert", {<<s1, v>>}), Write("insertGuildChannel", {<<s2, 1>>})>> IN
      /\ q \in Seq(Steps) /\ Good(q) /\ Mild(q) /\ Listless(q)
      /\ \A s, y : Brings(q, s, y) <=> (s = s1 /\ y = v) \/ (s = s2 /\ y = 1)
      /\ \A s : Sure(q, s)
  BY <1>1, <1>3, WriteTwo
<1>5. LET q == <<Write("insert", {<<s1, 0>>}), Write("removeGuildChannel", {<<s2, 0>>})>> IN
      /\ q \in Seq(Steps) /\ Good(q) /\ Mild(q) /\ Listless(q)
      /\ \A s, y : Brings(q, s, y) <=> (s = s1 /\ y = 0) \/ (s = s2 /\ y = 0)
      /\ \A s : Sure(q, s)
  <2>1. /\ "insert" \in WriteOps /\ "insert" \notin {"storeGuildChannels", "storeGuildRoles"}
        /\ "removeGuildChannel" \in WriteOps /\ "removeGuildChannel" \notin {"storeGuildChannels", "storeGuildRoles"}
    BY <1>3
  <2>2. PICK no \in Versions : no = 0
    BY <1>1
  <2>3. LET q == <<Write("insert", {<<s1, no>>}), Write("removeGuildChannel", {<<s2, no>>})>> IN
        /\ q \in Seq(Steps) /\ Good(q) /\ Mild(q) /\ Listless(q)
        /\ \A s, y : Brings(q, s, y) <=> (s = s1 /\ y = no) \/ (s = s2 /\ y = no)
        /\ \A s : Sure(q, s)
    BY <1>1, <2>1, WriteTwo
  <2> QED BY <2>2, <2>3
<1> QED BY <1>2, <1>4, <1>5 DEF s1, s2

\* Threads are inserted, whatever happened to them.
LEMMA ThreadEventIs ==
  ASSUME NEW c \in Channels \union Threads, NEW v \in Versions
  PROVE  LET q == ThreadEvent(c, v) IN
         /\ q \in Seq(Steps) /\ Good(q) /\ Mild(q) /\ Listless(q)
         /\ \A s, y : Brings(q, s, y) <=> s = <<"channel", c>> /\ y = v
         /\ \A s : Sure(q, s)
<1> DEFINE s1 == <<"channel", c>>
<1>1. s1 \in Slots /\ s1[1] # "current"
  BY SlotsAre
<1>2. ThreadEvent(c, v) = <<Write("insert", {<<s1, v>>})>>
  BY DEF ThreadEvent, Insert
<1>3. "insert" \in WriteOps
  BY DEF WriteOps
<1> HIDE DEF s1
<1>4. LET q == <<Write("insert", {<<s1, v>>})>> IN
      /\ q \in Seq(Steps) /\ Good(q) /\ Mild(q) /\ Listless(q)
      /\ \A s, y : Brings(q, s, y) <=> s = s1 /\ y = v
      /\ \A s : Sure(q, s)
  BY <1>1, <1>3, WriteOne
<1> QED BY <1>2, <1>4 DEF s1

\* Roles.
LEMMA RoleEventIs ==
  ASSUME NEW r \in Roles, NEW v \in Versions
  PROVE  /\ LET q == RoleCreate(r, v) IN
            /\ q \in Seq(Steps) /\ Good(q) /\ Mild(q) /\ Listless(q)
            /\ \A s, y : Brings(q, s, y) <=> (s = <<"roles", r>> /\ y = 1) \/ (s = <<"role", r>> /\ y = v)
            /\ \A s \in RoleSlots(r) : Sure(q, s)
         /\ LET q == RoleDelete(r) IN
            /\ q \in Seq(Steps) /\ Good(q) /\ Mild(q) /\ Listless(q)
            /\ \A s, y : Brings(q, s, y) <=> (s = <<"roles", r>> /\ y = 0) \/ (s = <<"role", r>> /\ y = 0)
            /\ \A s \in RoleSlots(r) : Sure(q, s)
<1> DEFINE a == RoleNews(r, v)
           b == {<<<<"roles", r>>, 0>>, <<<<"role", r>>, 0>>}
<1>1. /\ <<"role", r>> \in Slots /\ <<"roles", r>> \in Slots /\ RoleSlots(r) \in SUBSET SlotsOfRoles
      /\ 0 \in Versions
  BY SlotsAre, DispatchAssumption DEF DispatchAssumption, Versions, RoleSlots, SlotsOfRoles
<1>2. /\ RoleCreate(r, v) = <<IfRegistered(RoleSlots(r)), Write("insertGuildRole", a)>>
      /\ RoleDelete(r) = <<IfRegistered(RoleSlots(r)), Write("removeGuildRole", b)>>
  BY DEF RoleCreate, RoleDelete, InsertGuildRole, RemoveGuildRole
<1>3. /\ "insertGuildRole" \in WriteOps /\ "removeGuildRole" \in WriteOps
      /\ "insertGuildRole" \notin {"storeGuildChannels", "storeGuildRoles"}
      /\ "removeGuildRole" \notin {"storeGuildChannels", "storeGuildRoles"}
  BY DEF WriteOps
<1>4. /\ a \in Newses
      /\ \A s, y : <<s, y>> \in a <=> (s = <<"roles", r>> /\ y = 1) \/ (s = <<"role", r>> /\ y = v)
  BY RoleNewsIs
<1>5. b \in Newses
  BY <1>1 DEF Newses
<1>6. \A s, y : <<s, y>> \in b <=> (s = <<"roles", r>> /\ y = 0) \/ (s = <<"role", r>> /\ y = 0)
  OBVIOUS
<1> HIDE DEF a, b
<1>7. LET q == <<IfRegistered(RoleSlots(r)), Write("insertGuildRole", a)>> IN
      /\ q \in Seq(Steps) /\ Good(q) /\ Mild(q) /\ Listless(q)
      /\ \A s, y : Brings(q, s, y) <=> <<s, y>> \in a
      /\ \A s \in RoleSlots(r) : Sure(q, s)
  BY <1>1, <1>3, <1>4, LookAndWrite
<1>8. LET q == <<IfRegistered(RoleSlots(r)), Write("removeGuildRole", b)>> IN
      /\ q \in Seq(Steps) /\ Good(q) /\ Mild(q) /\ Listless(q)
      /\ \A s, y : Brings(q, s, y) <=> <<s, y>> \in b
      /\ \A s \in RoleSlots(r) : Sure(q, s)
  BY <1>1, <1>3, <1>5, LookAndWrite
<1> DEFINE p == <<IfRegistered(RoleSlots(r)), Write("insertGuildRole", a)>>
           q == <<IfRegistered(RoleSlots(r)), Write("removeGuildRole", b)>>
<1>9. /\ p \in Seq(Steps) /\ Good(p) /\ Mild(p) /\ Listless(p)
      /\ \A s, y : Brings(p, s, y) <=> <<s, y>> \in a
      /\ \A s \in RoleSlots(r) : Sure(p, s)
  BY <1>7
<1>10. /\ q \in Seq(Steps) /\ Good(q) /\ Mild(q) /\ Listless(q)
       /\ \A s, y : Brings(q, s, y) <=> <<s, y>> \in b
       /\ \A s \in RoleSlots(r) : Sure(q, s)
  BY <1>8
<1>11. RoleCreate(r, v) = p /\ RoleDelete(r) = q
  BY <1>2
<1> HIDE DEF p, q
<1>12. \A s, y : Brings(p, s, y) <=> (s = <<"roles", r>> /\ y = 1) \/ (s = <<"role", r>> /\ y = v)
  BY <1>4, <1>9
<1>13. \A s, y : Brings(q, s, y) <=> (s = <<"roles", r>> /\ y = 0) \/ (s = <<"role", r>> /\ y = 0)
  BY <1>6, <1>10
<1> QED BY <1>9, <1>10, <1>11, <1>12, <1>13

\* Members and users.
LEMMA MemberEventIs ==
  ASSUME NEW u \in Users, NEW v \in Versions
  PROVE  /\ LET q == MemberAdd(u, v) IN
            /\ q \in Seq(Steps) /\ Good(q) /\ Mild(q) /\ Listless(q)
            /\ \A s, y : Brings(q, s, y) <=> (s = <<"user", u>> /\ y = v) \/ (s = <<"member", u>> /\ y = v)
            /\ \A s : Sure(q, s)
         /\ LET q == Ban(u, v) IN
            /\ q \in Seq(Steps) /\ Good(q) /\ Mild(q) /\ Listless(q)
            /\ \A s, y : Brings(q, s, y) <=> s = <<"user", u>> /\ y = v
<1> DEFINE s1 == <<"user", u>>
           s2 == <<"member", u>>
<1>1. s1 \in Slots /\ s2 \in Slots /\ s1[1] # "current" /\ s2[1] # "current" /\ s1 # s2
  BY SlotsAre
<1>2. /\ MemberAdd(u, v) = <<Write("insert", {<<s1, v>>}), Write("insertGuildUser", {<<s2, v>>})>>
      /\ Ban(u, v) = <<IfRegistered({}), Write("insert", {<<s1, v>>})>>
  BY DEF MemberAdd, Ban, Insert, InsertGuildUser
<1>3. /\ "insert" \in WriteOps /\ "insert" \notin {"storeGuildChannels", "storeGuildRoles"}
      /\ "insertGuildUser" \in WriteOps /\ "insertGuildUser" \notin {"storeGuildChannels", "storeGuildRoles"}
  BY DEF WriteOps
<1> HIDE DEF s1, s2
<1>4. LET q == <<Write("insert", {<<s1, v>>}), Write("insertGuildUser", {<<s2, v>>})>> IN
      /\ q \in Seq(Steps) /\ Good(q) /\ Mild(q) /\ Listless(q)
      /\ \A s, y : Brings(q, s, y) <=> (s = s1 /\ y = v) \/ (s = s2 /\ y = v)
      /\ \A s : Sure(q, s)
  BY <1>1, <1>3, WriteTwo
<1>5. {<<s1, v>>} \in Newses /\ {} \in SUBSET SlotsOfRoles
  BY <1>1, OneNews
<1>6. LET q == <<IfRegistered({}), Write("insert", {<<s1, v>>})>> IN
      /\ q \in Seq(Steps) /\ Good(q) /\ Mild(q) /\ Listless(q)
      /\ \A s, y : Brings(q, s, y) <=> <<s, y>> \in {<<s1, v>>}
  BY <1>3, <1>5, LookAndWrite
<1>7. \A s, y : <<s, y>> \in {<<s1, v>>} <=> s = s1 /\ y = v
  OBVIOUS
<1> QED BY <1>2, <1>4, <1>6, <1>7 DEF s1, s2

\* The current user changed: both copies are replaced.
LEMMA UserUpdateIs ==
  ASSUME NEW v \in Versions, v # 0
  PROVE  LET q == UserUpdate(v) IN
         /\ q \in Seq(Steps) /\ Good(q) /\ Mild(q) /\ Listless(q)
         /\ \A s, y : Brings(q, s, y) <=> (s = Current /\ y = v) \/ (s = <<"user", Me>> /\ y = v)
         /\ \A s : Sure(q, s)
<1> DEFINE s2 == <<"user", Me>>
<1>1. Current \in Slots /\ s2 \in Slots /\ s2[1] # "current" /\ Current # s2
  BY SlotsAre DEF Current
<1>2. UserUpdate(v) = <<Write("insert", {<<Current, v>>}), Write("insert", {<<s2, v>>})>>
  BY DEF UserUpdate, Insert, Current
<1>3. "insert" \in WriteOps
  BY DEF WriteOps
<1> HIDE DEF s2
<1>4. LET q == <<Write("insert", {<<Current, v>>}), Write("insert", {<<s2, v>>})>> IN
      /\ q \in Seq(Steps) /\ Good(q) /\ Mild(q) /\ Listless(q)
      /\ \A s, y : Brings(q, s, y) <=> (s = Current /\ y = v) \/ (s = s2 /\ y = v)
      /\ \A s : Sure(q, s)
  BY <1>1, <1>3, WriteTwo
<1> QED BY <1>2, <1>4 DEF s2

\* GUILD_CREATE, GUILD_UPDATE, GUILD_DELETE.
LEMMA GuildAvailableIs ==
  ASSUME TypeInv, NEW v \in Versions, NEW listed \in BOOLEAN
  PROVE  LET q == GuildAvailable(v, listed) IN
         /\ q \in Seq(Steps) /\ Good(q) /\ Before(q, "awaitReady", "created")
         /\ \A op : Has(q, op) <=> op \in {"awaitReady", "storeGuildRoles", "insert", "created"}
         /\ Listed(q) => listed
         /\ \A s, y : Brings(q, s, y) <=> (s = <<"guild", Guild>> /\ y = v) \/ <<s, y>> \in NewsOf(RoleList)
         /\ \A s : Sure(q, s)
<1> DEFINE t == Do("awaitReady")
           u == RoleList
           x == Insert("guild", Guild, v)
           y == [op |-> "created", listed |-> listed]
           q == <<t, u, x, y>>
<1>1. t \in Steps /\ t.op = "awaitReady" /\ NewsOf(t) = {}
  BY DoIs DEF TellOps
<1>2. /\ u \in Steps /\ u.op = "storeGuildRoles"
      /\ \A n \in NewsOf(u) : n[1][1] \in {"role", "roles"}
  BY RoleListIs
<1>3. x \in Steps /\ x.op = "insert" /\ \A n : n \in NewsOf(x) <=> n = <<<<"guild", Guild>>, v>>
  <2> DEFINE s == <<"guild", Guild>>
  <2>1. s \in Slots /\ s[1] # "current" /\ "insert" \in WriteOps /\ x = Write("insert", {<<s, v>>})
    BY SlotsAre DEF WriteOps, Insert
  <2> HIDE DEF s, x
  <2>2. x \in Steps /\ x.op = "insert" /\ \A n : n \in NewsOf(x) <=> n = <<s, v>>
    BY <2>1, InsertIs
  <2> QED BY <2>2 DEF s
<1>4. y \in Steps /\ y.op = "created" /\ y.listed = listed /\ NewsOf(y) = {}
  BY DoIs
<1> HIDE DEF t, u, x, y
<1>5. Clear(t, u) /\ Clear(t, x) /\ Clear(t, y) /\ Clear(u, x) /\ Clear(u, y) /\ Clear(x, y)
  BY <1>1, <1>2, <1>3, <1>4 DEF Clear
<1>6. /\ q \in Seq(Steps) /\ Good(q) /\ Len(q) = 4 /\ q[1] = t /\ q[2] = u /\ q[3] = x /\ q[4] = y
      /\ \A op : Has(q, op) <=> op \in {t.op, u.op, x.op, y.op}
      /\ \A s, z : Brings(q, s, z) <=> \/ <<s, z>> \in NewsOf(t) \/ <<s, z>> \in NewsOf(u)
                                       \/ <<s, z>> \in NewsOf(x) \/ <<s, z>> \in NewsOf(y)
      /\ \A s : Sure(q, s)
  <2>1. /\ t.op \notin AskOps /\ u.op \notin AskOps /\ x.op \notin AskOps
        /\ "ifRegistered" \notin {t.op, u.op, x.op, y.op}
    BY <1>1, <1>2, <1>3, <1>4 DEF AskOps, ItemOps, UserOps, RoleOps, WholeOps
  <2>2. t \in Steps /\ u \in Steps /\ x \in Steps /\ y \in Steps
    BY <1>1, <1>2, <1>3, <1>4
  <2> QED BY ONLY <1>5, <2>1, <2>2, RowFour
<1>7. GuildAvailable(v, listed) = q
  BY DEF GuildAvailable, q, t, u, x, y
<1> HIDE DEF q
<1>8. Before(q, "awaitReady", "created")
  <2>1. \A j \in 1..Len(q) : q[j].op = "created" => j = 4
    BY <1>1, <1>2, <1>3, <1>6
  <2>2. 1 \in 1..Len(q) /\ 1 < 4
    BY <1>6
  <2> QED BY <1>1, <1>6, <2>1, <2>2 DEF Before
<1>9. Listed(q) => listed
  BY <1>1, <1>2, <1>3, <1>4, <1>6 DEF Listed
<1>10. \A s, z : Brings(q, s, z) <=> (s = <<"guild", Guild>> /\ z = v) \/ <<s, z>> \in NewsOf(RoleList)
  <2>1. \A s, z : <<s, z>> = <<<<"guild", Guild>>, v>> <=> s = <<"guild", Guild>> /\ z = v
    OBVIOUS
  <2>2. \A s, z : Brings(q, s, z) <=> \/ <<s, z>> \in NewsOf(t) \/ <<s, z>> \in NewsOf(u)
                                      \/ <<s, z>> \in NewsOf(x) \/ <<s, z>> \in NewsOf(y)
    BY <1>6
  <2>3. NewsOf(t) = {} /\ NewsOf(y) = {} /\ \A n : n \in NewsOf(x) <=> n = <<<<"guild", Guild>>, v>>
    BY <1>1, <1>3, <1>4
  <2>4. \A s, z : Brings(q, s, z) <=> (s = <<"guild", Guild>> /\ z = v) \/ <<s, z>> \in NewsOf(u)
    <3> SUFFICES ASSUME NEW s, NEW z
                 PROVE  Brings(q, s, z) <=> (s = <<"guild", Guild>> /\ z = v) \/ <<s, z>> \in NewsOf(u)
      OBVIOUS
    <3>1. <<s, z>> \notin NewsOf(t) /\ <<s, z>> \notin NewsOf(y)
      BY <2>3
    <3>2. <<s, z>> \in NewsOf(x) <=> (s = <<"guild", Guild>> /\ z = v)
      BY ONLY <2>1, <2>3
    <3>3. Brings(q, s, z) <=> \/ <<s, z>> \in NewsOf(t) \/ <<s, z>> \in NewsOf(u)
                              \/ <<s, z>> \in NewsOf(x) \/ <<s, z>> \in NewsOf(y)
      BY <2>2
    <3> QED BY ONLY <3>1, <3>2, <3>3
  <2> QED BY <2>4 DEF u
<1>11. \A op : Has(q, op) <=> op \in {"awaitReady", "storeGuildRoles", "insert", "created"}
  BY <1>1, <1>2, <1>3, <1>4, <1>6
<1> QED BY <1>6, <1>7, <1>8, <1>9, <1>10, <1>11

\* The guild changed.
LEMMA GuildUpdateIs ==
  ASSUME TypeInv, NEW v \in Versions
  PROVE  LET q == GuildUpdate(v) IN
         /\ q \in Seq(Steps) /\ Good(q) /\ Mild(q)
         /\ \A op : Has(q, op) <=> op \in {"storeGuildRoles", "insert"}
         /\ \A s, y : Brings(q, s, y) <=> (s = <<"guild", Guild>> /\ y = v) \/ <<s, y>> \in NewsOf(RoleList)
         /\ \A s : Sure(q, s)
<1> DEFINE u == RoleList
           x == Insert("guild", Guild, v)
           q == <<x, u>>
<1>2. /\ u \in Steps /\ u.op = "storeGuildRoles"
      /\ \A n \in NewsOf(u) : n[1][1] \in {"role", "roles"}
  BY RoleListIs
<1>3. x \in Steps /\ x.op = "insert" /\ \A n : n \in NewsOf(x) <=> n = <<<<"guild", Guild>>, v>>
  <2> DEFINE s == <<"guild", Guild>>
  <2>1. s \in Slots /\ s[1] # "current" /\ "insert" \in WriteOps /\ x = Write("insert", {<<s, v>>})
    BY SlotsAre DEF WriteOps, Insert
  <2> HIDE DEF s, x
  <2>2. x \in Steps /\ x.op = "insert" /\ \A n : n \in NewsOf(x) <=> n = <<s, v>>
    BY <2>1, InsertIs
  <2> QED BY <2>2 DEF s
<1> HIDE DEF u, x
<1>5. Clear(x, u)
  BY <1>2, <1>3 DEF Clear
<1>6. /\ q \in Seq(Steps) /\ Good(q)
      /\ \A op : Has(q, op) <=> op \in {x.op, u.op}
      /\ \A s, z : Brings(q, s, z) <=> <<s, z>> \in NewsOf(x) \/ <<s, z>> \in NewsOf(u)
      /\ \A s : Sure(q, s)
  <2>1. x.op \notin AskOps /\ u.op # "ifRegistered" /\ x.op # "ifRegistered"
    BY <1>2, <1>3 DEF AskOps, ItemOps, UserOps, RoleOps, WholeOps
  <2> QED BY <1>2, <1>3, <1>5, <2>1, RowTwo
<1>7. GuildUpdate(v) = q
  BY DEF GuildUpdate, q, u, x
<1> HIDE DEF q
<1>10. \A s, z : Brings(q, s, z) <=> (s = <<"guild", Guild>> /\ z = v) \/ <<s, z>> \in NewsOf(RoleList)
  <2>1. \A s, z : <<s, z>> = <<<<"guild", Guild>>, v>> <=> s = <<"guild", Guild>> /\ z = v
    OBVIOUS
  <2>2. \A s, z : Brings(q, s, z) <=> (s = <<"guild", Guild>> /\ z = v) \/ <<s, z>> \in NewsOf(u)
    BY <1>3, <1>6, <2>1
  <2> QED BY <2>2 DEF u
<1>11. \A op : Has(q, op) <=> op \in {"storeGuildRoles", "insert"}
  BY <1>2, <1>3, <1>6
<1>12. Mild(q)
  BY <1>11 DEF Mild, GuildOps, RouteOps
<1> QED BY <1>6, <1>7, <1>10, <1>11, <1>12

\* The guild is gone.
LEMMA GuildDeleteIs ==
  LET q == GuildDelete IN
  /\ q \in Seq(Steps) /\ Good(q)
  /\ \A op : Has(q, op) <=> op \in {"awaitReady", "deleted"}
  /\ \A s, y : ~Brings(q, s, y)
  /\ \A s : Sure(q, s)
<1> DEFINE x == Do("awaitReady")
           u == Do("deleted")
           q == <<x, u>>
<1>1. /\ x \in Steps /\ x.op = "awaitReady" /\ NewsOf(x) = {}
      /\ u \in Steps /\ u.op = "deleted" /\ NewsOf(u) = {}
  BY DoIs DEF TellOps
<1> HIDE DEF u, x
<1>2. Clear(x, u)
  BY <1>1 DEF Clear
<1>3. x.op \notin AskOps /\ u.op # "ifRegistered" /\ x.op # "ifRegistered"
  BY <1>1 DEF AskOps, ItemOps, UserOps, RoleOps, WholeOps
<1>4. /\ q \in Seq(Steps) /\ Good(q)
      /\ \A op : Has(q, op) <=> op \in {x.op, u.op}
      /\ \A s, z : Brings(q, s, z) <=> <<s, z>> \in NewsOf(x) \/ <<s, z>> \in NewsOf(u)
      /\ \A s : Sure(q, s)
  BY <1>1, <1>2, <1>3, RowTwo
<1>5. GuildDelete = q
  BY DEF GuildDelete, q, u, x
<1> HIDE DEF q
<1> QED BY <1>1, <1>4, <1>5

\* One insertion.
LEMMA OneInsert ==
  ASSUME NEW kind, NEW x, NEW v \in Versions, <<kind, x>> \in Slots, kind = "current" => v # 0
  PROVE  LET t == Insert(kind, x, v) IN
         t \in Steps /\ t.op = "insert" /\ \A s, z : <<s, z>> \in NewsOf(t) <=> s = <<kind, x>> /\ z = v
<1> DEFINE s1 == <<kind, x>>
<1>1. s1 \in Slots /\ (s1[1] = "current" => v # 0) /\ "insert" \in WriteOps
      /\ Insert(kind, x, v) = Write("insert", {<<s1, v>>})
  BY DEF WriteOps, Insert
<1> HIDE DEF s1
<1>2. LET t == Write("insert", {<<s1, v>>}) IN t \in Steps /\ t.op = "insert" /\ \A n : n \in NewsOf(t) <=> n = <<s1, v>>
  BY <1>1, InsertIs
<1>3. \A s, z : <<s, z>> = <<s1, v>> <=> s = s1 /\ z = v
  OBVIOUS
<1> DEFINE t == Insert(kind, x, v)
<1>4. t \in Steps /\ t.op = "insert" /\ \A n : n \in NewsOf(t) <=> n = <<s1, v>>
  BY <1>1, <1>2
<1> HIDE DEF t
<1>5. \A s, z : <<s, z>> \in NewsOf(t) <=> s = s1 /\ z = v
  BY <1>3, <1>4
<1> QED BY <1>4, <1>5 DEF s1, t

\* A member inserted.
LEMMA OneMember ==
  ASSUME NEW u \in Users, NEW v \in Versions
  PROVE  LET t == InsertGuildUser(u, v) IN
         t \in Steps /\ t.op = "insertGuildUser" /\ \A s, z : <<s, z>> \in NewsOf(t) <=> s = <<"member", u>> /\ z = v
<1> DEFINE s1 == <<"member", u>>
<1>1. s1 \in Slots /\ (s1[1] = "current" => v # 0) /\ "insertGuildUser" \in WriteOps
      /\ InsertGuildUser(u, v) = Write("insertGuildUser", {<<s1, v>>})
  BY SlotsAre DEF WriteOps, InsertGuildUser
<1> HIDE DEF s1
<1>2. LET t == Write("insertGuildUser", {<<s1, v>>})
      IN t \in Steps /\ t.op = "insertGuildUser" /\ \A n : n \in NewsOf(t) <=> n = <<s1, v>>
  BY <1>1, InsertIs
<1>3. \A s, z : <<s, z>> = <<s1, v>> <=> s = s1 /\ z = v
  OBVIOUS
<1> DEFINE t == InsertGuildUser(u, v)
<1>4. t \in Steps /\ t.op = "insertGuildUser" /\ \A n : n \in NewsOf(t) <=> n = <<s1, v>>
  BY <1>1, <1>2
<1> HIDE DEF t
<1>5. \A s, z : <<s, z>> \in NewsOf(t) <=> s = s1 /\ z = v
  BY <1>3, <1>4
<1> QED BY <1>4, <1>5 DEF s1, t

\* READY.
LEMMA ReadyIs ==
  ASSUME NEW v \in Versions, v # 0, world[Guild].live \in BOOLEAN
  PROVE  LET q == Ready(v) IN
         /\ q \in Seq(Steps) /\ Good(q) /\ Announces(q)
         /\ \A op : Has(q, op) <=> op \in {"insert", "announce", "becomeReady"}
         /\ world[Guild].live => Lists1(q)
         /\ \A s, y : Brings(q, s, y) <=> (s = <<"user", Me>> /\ y = v) \/ (s = Current /\ y = v)
         /\ \A s : Sure(q, s)
<1> DEFINE t == Insert("user", Me, v)
           u == Insert("current", Me, v)
           x == [op |-> "announce", listed |-> world[Guild].live]
           y == Do("becomeReady")
           q == <<t, u, x, y>>
<1>1. t \in Steps /\ t.op = "insert" /\ \A s, z : <<s, z>> \in NewsOf(t) <=> s = <<"user", Me>> /\ z = v
  BY SlotsAre, OneInsert
<1>2. u \in Steps /\ u.op = "insert" /\ \A s, z : <<s, z>> \in NewsOf(u) <=> s = Current /\ z = v
  BY SlotsAre, OneInsert DEF Current
<1>3. x \in Steps /\ x.op = "announce" /\ x.listed = world[Guild].live /\ \A n : n \notin NewsOf(x)
  BY DoIs
<1>4. y \in Steps /\ y.op = "becomeReady" /\ \A n : n \notin NewsOf(y)
  BY DoIs DEF TellOps
<1>5. \A n \in NewsOf(t) : n = <<n[1], n[2]>>
  BY <1>1, StepOp DEF Newses
<1>6. \A n \in NewsOf(u) : n = <<n[1], n[2]>>
  BY <1>2, StepOp DEF Newses
<1>7. Ready(v) = q
  BY DEF Ready, q, t, u, x, y
<1> HIDE DEF t, u, x, y
<1>8. \A n \in NewsOf(t) : n[1] = <<"user", Me>>
  BY <1>1, <1>5
<1>9. \A n \in NewsOf(u) : n[1] = Current
  BY <1>2, <1>6
<1>10. <<"user", Me>> # Current
  BY DEF Current
<1>11. Clear(t, u) /\ Clear(t, x) /\ Clear(t, y) /\ Clear(u, x) /\ Clear(u, y) /\ Clear(x, y)
  BY <1>3, <1>4, <1>8, <1>9, <1>10 DEF Clear
<1>12. /\ t.op \notin AskOps /\ u.op \notin AskOps /\ x.op \notin AskOps
       /\ "ifRegistered" \notin {t.op, u.op, x.op, y.op}
  BY <1>1, <1>2, <1>3, <1>4 DEF AskOps, ItemOps, UserOps, RoleOps, WholeOps
<1>13. t \in Steps /\ u \in Steps /\ x \in Steps /\ y \in Steps
  BY <1>1, <1>2, <1>3, <1>4
<1>14. /\ q \in Seq(Steps) /\ Good(q) /\ Len(q) = 4 /\ q[1] = t /\ q[2] = u /\ q[3] = x /\ q[4] = y
       /\ \A op : Has(q, op) <=> op \in {t.op, u.op, x.op, y.op}
       /\ \A s, z : Brings(q, s, z) <=> \/ <<s, z>> \in NewsOf(t) \/ <<s, z>> \in NewsOf(u)
                                        \/ <<s, z>> \in NewsOf(x) \/ <<s, z>> \in NewsOf(y)
       /\ \A s : Sure(q, s)
  BY ONLY <1>11, <1>12, <1>13, RowFour
<1> HIDE DEF q
<1>15. ASSUME NEW s, NEW z
       PROVE  Brings(q, s, z) <=> (s = <<"user", Me>> /\ z = v) \/ (s = Current /\ z = v)
  <2>1. <<s, z>> \notin NewsOf(x) /\ <<s, z>> \notin NewsOf(y)
    BY <1>3, <1>4
  <2>2. <<s, z>> \in NewsOf(t) <=> (s = <<"user", Me>> /\ z = v)
    BY <1>1
  <2>3. <<s, z>> \in NewsOf(u) <=> (s = Current /\ z = v)
    BY <1>2
  <2>4. Brings(q, s, z) <=> \/ <<s, z>> \in NewsOf(t) \/ <<s, z>> \in NewsOf(u)
                            \/ <<s, z>> \in NewsOf(x) \/ <<s, z>> \in NewsOf(y)
    BY <1>14
  <2> QED BY ONLY <2>1, <2>2, <2>3, <2>4
<1>16. q[1].op = "insert" /\ q[2].op = "insert" /\ q[3].op = "announce" /\ q[4].op = "becomeReady"
  BY <1>1, <1>2, <1>3, <1>4, <1>14
<1>17. Announces(q)
  <2>1. \A i \in 1..Len(q) : q[i].op = "announce" => i = 3
    BY <1>14, <1>16
  <2>2. \A j \in 1..Len(q) : q[j].op \in {"announce", "becomeReady"} => j = 3 \/ j = 4
    BY <1>14, <1>16
  <2> QED BY <2>1, <2>2 DEF Announces
<1>18. world[Guild].live => Lists1(q)
  <2>1. 3 \in 1..Len(q)
    BY <1>14
  <2>2. q[3].op = "announce" /\ q[3].listed = world[Guild].live
    BY <1>3, <1>14
  <2> QED BY ONLY <2>1, <2>2 DEF Lists1
<1>19. \A op : Has(q, op) <=> op \in {"insert", "announce", "becomeReady"}
  BY <1>1, <1>2, <1>3, <1>4, <1>14
<1> QED BY <1>7, <1>14, <1>15, <1>17, <1>18, <1>19

\* TYPING_START.
LEMMA TypingIs ==
  ASSUME NEW m \in Users, NEW v \in Versions
  PROVE  LET q == TypingStart(m, v) IN
         /\ q \in Seq(Steps) /\ Good(q) /\ Mild(q) /\ Listless(q)
         /\ \A s, y : Brings(q, s, y) => s[2] = m /\ s[1] \in {"user", "member"} /\ y = v
<1> DEFINE t == IfRegistered({})
           u == Insert("user", m, v)
           x == InsertGuildUser(m, v)
           q == <<t, u, x>>
<1>1. t \in Steps /\ t.op = "ifRegistered" /\ \A n : n \notin NewsOf(t)
  BY DoIs
<1>2. u \in Steps /\ u.op = "insert" /\ \A s, z : <<s, z>> \in NewsOf(u) <=> s = <<"user", m>> /\ z = v
  <2>1. <<"user", m>> \in Slots /\ "user" # "current"
    BY SlotsAre
  <2> QED BY ONLY <2>1, OneInsert DEF u
<1>3. x \in Steps /\ x.op = "insertGuildUser" /\ \A s, z : <<s, z>> \in NewsOf(x) <=> s = <<"member", m>> /\ z = v
  BY OneMember
<1>4. TypingStart(m, v) = q
  BY DEF TypingStart, q, t, u, x
<1> HIDE DEF t, u, x
<1>5. \A n \in NewsOf(u) : n = <<n[1], n[2]>>
  BY <1>2, StepOp DEF Newses
<1>6. \A n \in NewsOf(x) : n = <<n[1], n[2]>>
  BY <1>3, StepOp DEF Newses
<1>7. \A n \in NewsOf(u) : n[1] = <<"user", m>>
  BY <1>2, <1>5
<1>8. \A n \in NewsOf(x) : n[1] = <<"member", m>>
  BY <1>3, <1>6
<1>9. Clear(t, u) /\ Clear(t, x) /\ Clear(u, x)
  BY <1>1, <1>7, <1>8 DEF Clear
<1>10. /\ t.op \notin AskOps /\ u.op \notin AskOps /\ u.op # "ifRegistered" /\ x.op # "ifRegistered"
       /\ {u.op, x.op} \cap ({"unlock", "unshare", "storeGuildChannels"} \union GuildOps) = {}
  BY <1>1, <1>2, <1>3 DEF AskOps, ItemOps, UserOps, RoleOps, WholeOps, GuildOps
<1>11. t \in Steps /\ u \in Steps /\ x \in Steps
  BY <1>1, <1>2, <1>3
<1>12. /\ q \in Seq(Steps) /\ Good(q)
       /\ \A op : Has(q, op) <=> op \in {t.op, u.op, x.op}
       /\ \A s, z : Brings(q, s, z) <=> <<s, z>> \in NewsOf(t) \/ <<s, z>> \in NewsOf(u) \/ <<s, z>> \in NewsOf(x)
  BY ONLY <1>9, <1>10, <1>11, RowThree
<1> HIDE DEF q
<1>13. Mild(q) /\ Listless(q)
  BY <1>1, <1>2, <1>3, <1>12 DEF Mild, Listless, GuildOps, RouteOps, StoreOp
<1>14. ASSUME NEW s, NEW y, Brings(q, s, y)
       PROVE  s[2] = m /\ s[1] \in {"user", "member"} /\ y = v
  <2>1. <<s, y>> \in NewsOf(u) \/ <<s, y>> \in NewsOf(x)
    BY <1>1, <1>12, <1>14
  <2>2. (s = <<"user", m>> \/ s = <<"member", m>>) /\ y = v
    BY <1>2, <1>3, <2>1
  <2> QED BY <2>2
<1> QED BY <1>4, <1>12, <1>13, <1>14

\* Three steps in a row.
LEMMA TripleIs ==
  ASSUME NEW t \in Steps, NEW u \in Steps, NEW x \in Steps
  PROVE  <<t>> \o <<u, x>> = <<t, u, x>>
<1>1. /\ <<t>> \in Seq(Steps) /\ Len(<<t>>) = 1 /\ <<t>>[1] = t
      /\ <<u, x>> \in Seq(Steps) /\ Len(<<u, x>>) = 2 /\ <<u, x>>[1] = u /\ <<u, x>>[2] = x
  OBVIOUS
<1>2. <<t, u, x>> \in Seq(Steps) /\ Len(<<t, u, x>>) = 3 /\ <<t, u, x>>[1] = t /\ <<t, u, x>>[2] = u /\ <<t, u, x>>[3] = x
  OBVIOUS
<1>3. \A i \in 1..3 : i = 1 \/ i = 2 \/ i = 3
  OBVIOUS
<1> DEFINE a == <<t>>
           b == <<u, x>>
           c == <<t, u, x>>
<1> HIDE DEF a, b, c
<1>4. /\ a \o b \in Seq(Steps) /\ Len(a \o b) = Len(a) + Len(b)
      /\ \A j \in 1..(Len(a) + Len(b)) : (a \o b)[j] = IF j <= Len(a) THEN a[j] ELSE b[j - Len(a)]
  BY <1>1, ConcatProperties DEF a, b
<1>5. Len(a \o b) = 3 /\ (a \o b)[1] = t /\ (a \o b)[2] = u /\ (a \o b)[3] = x
  BY <1>1, <1>4 DEF a, b
<1>6. a \o b = c
  BY <1>2, <1>3, <1>4, <1>5, SeqEqual DEF c
<1> QED BY <1>6 DEF a, b, c

\* INTERACTION_CREATE.
LEMMA InteractionIs ==
  ASSUME NEW m \in Users, NEW v \in Versions, NEW member \in BOOLEAN
  PROVE  LET q == Interaction(m, v, member) IN
         /\ q \in Seq(Steps) /\ Good(q) /\ RoutesOnce(q) /\ ~Has(q, "handler") /\ Listless(q)
         /\ \A op \in GuildOps : ~Has(q, op)
         /\ \A s, y : Brings(q, s, y) => s[2] = m /\ s[1] \in {"user", "member"} /\ y = v
<1> DEFINE t == InsertGuildUser(m, v)
           u == Insert("user", m, v)
           x == Call("route", m, FALSE)
<1>1. t \in Steps /\ t.op = "insertGuildUser" /\ \A s, z : <<s, z>> \in NewsOf(t) <=> s = <<"member", m>> /\ z = v
  BY OneMember
<1>2. u \in Steps /\ u.op = "insert" /\ \A s, z : <<s, z>> \in NewsOf(u) <=> s = <<"user", m>> /\ z = v
  <2>1. <<"user", m>> \in Slots /\ "user" # "current"
    BY SlotsAre
  <2> QED BY ONLY <2>1, OneInsert DEF u
<1>3. x \in Steps /\ x.op = "route" /\ \A n : n \notin NewsOf(x)
  BY CallIs DEF RouteOps
<1>4. Interaction(m, v, member) = IF member THEN <<t>> \o <<u, x>> ELSE <<>> \o <<u, x>>
  BY DEF Interaction, t, u, x
<1> HIDE DEF t, u, x
<1>5. \A n \in NewsOf(u) : n = <<n[1], n[2]>>
  BY <1>2, StepOp DEF Newses
<1>6. \A n \in NewsOf(t) : n = <<n[1], n[2]>>
  BY <1>1, StepOp DEF Newses
<1>7. \A n \in NewsOf(u) : n[1] = <<"user", m>>
  BY <1>2, <1>5
<1>8. \A n \in NewsOf(t) : n[1] = <<"member", m>>
  BY <1>1, <1>6
<1>9. Clear(t, u) /\ Clear(t, x) /\ Clear(u, x)
  BY <1>3, <1>7, <1>8 DEF Clear
<1>10. /\ t.op \notin AskOps /\ u.op \notin AskOps
       /\ t.op # "ifRegistered" /\ u.op # "ifRegistered" /\ x.op # "ifRegistered"
  BY <1>1, <1>2, <1>3 DEF AskOps, ItemOps, UserOps, RoleOps, WholeOps
<1>11. t \in Steps /\ u \in Steps /\ x \in Steps
  BY <1>1, <1>2, <1>3
<1>12. CASE member
  <2> DEFINE q == <<t, u, x>>
  <2>1. Interaction(m, v, member) = q
    <3>1. <<t>> \o <<u, x>> = <<t, u, x>>
      BY <1>11, TripleIs
    <3> QED BY <1>4, <1>12, <3>1
  <2>2. /\ q \in Seq(Steps) /\ Good(q)
        /\ \A op : Has(q, op) <=> op \in {t.op, u.op, x.op}
        /\ \A s, z : Brings(q, s, z) <=> <<s, z>> \in NewsOf(t) \/ <<s, z>> \in NewsOf(u) \/ <<s, z>> \in NewsOf(x)
    BY ONLY <1>9, <1>10, <1>11, RowThree
  <2>3. RoutesOnce(q)
    <3>1. Len(q) = 3 /\ q[1] = t /\ q[2] = u /\ q[3] = x
      OBVIOUS
    <3> HIDE DEF q
    <3>2. \A i \in 1..Len(q) : q[i].op \in RouteOps => i = 3
      BY <1>1, <1>2, <3>1 DEF RouteOps
    <3> QED BY <3>2 DEF RoutesOnce
  <2> HIDE DEF q
  <2>4. Listless(q) /\ ~Has(q, "handler") /\ \A op \in GuildOps : ~Has(q, op)
    BY <1>1, <1>2, <1>3, <2>2 DEF Listless, GuildOps, StoreOp
  <2>5. ASSUME NEW s, NEW y, Brings(q, s, y)
        PROVE  s[2] = m /\ s[1] \in {"user", "member"} /\ y = v
    <3>1. <<s, y>> \in NewsOf(u) \/ <<s, y>> \in NewsOf(t)
      BY <1>3, <2>2, <2>5
    <3>2. (s = <<"user", m>> \/ s = <<"member", m>>) /\ y = v
      BY <1>1, <1>2, <3>1
    <3> QED BY <3>2
  <2> QED BY <2>1, <2>2, <2>3, <2>4, <2>5
<1>13. CASE ~member
  <2> DEFINE q == <<u, x>>
  <2>1. Interaction(m, v, member) = q
    <3>1. <<>> \o <<u, x>> = <<u, x>>
      BY <1>11
    <3> QED BY <1>4, <1>13, <3>1
  <2>2. /\ q \in Seq(Steps) /\ Good(q)
        /\ \A op : Has(q, op) <=> op \in {u.op, x.op}
        /\ \A s, z : Brings(q, s, z) <=> <<s, z>> \in NewsOf(u) \/ <<s, z>> \in NewsOf(x)
    BY ONLY <1>9, <1>10, <1>11, RowTwo
  <2>3. RoutesOnce(q)
    <3>1. Len(q) = 2 /\ q[1] = u /\ q[2] = x
      OBVIOUS
    <3> HIDE DEF q
    <3>2. \A i \in 1..Len(q) : q[i].op \in RouteOps => i = 2
      BY <1>2, <3>1 DEF RouteOps
    <3> QED BY <3>2 DEF RoutesOnce
  <2> HIDE DEF q
  <2>4. Listless(q) /\ ~Has(q, "handler") /\ \A op \in GuildOps : ~Has(q, op)
    BY <1>2, <1>3, <2>2 DEF Listless, GuildOps, StoreOp
  <2>5. ASSUME NEW s, NEW y, Brings(q, s, y)
        PROVE  s[2] = m /\ s[1] \in {"user", "member"} /\ y = v
    <3>1. <<s, y>> \in NewsOf(u)
      BY <1>3, <2>2, <2>5
    <3>2. s = <<"user", m>> /\ y = v
      BY <1>2, <3>1
    <3> QED BY <3>2
  <2> QED BY <2>1, <2>2, <2>3, <2>4, <2>5
<1> QED BY <1>12, <1>13

\* A call of the program.
LEMMA CallRow ==
  ASSUME NEW x, NEW c \in CallsAbout(x)
  PROVE  LET q == <<c>> IN
         /\ q \in Seq(Steps) /\ Good(q) /\ Mild(q) /\ Listless(q)
         /\ \A s, y : ~Brings(q, s, y)
<1>1. /\ c \in Steps /\ NewsOf(c) = {}
      /\ c.op \in {"get", "getGuildUser", "getGuildChannels", "getGuildRoles", "getGuildRole", "getCurrentUser"}
  BY ApiCallIs
<1>2. /\ <<c>> \in Seq(Steps) /\ Good(<<c>>)
      /\ \A op : Has(<<c>>, op) <=> op = c.op
      /\ \A s, v : Brings(<<c>>, s, v) <=> <<s, v>> \in NewsOf(c)
  BY <1>1, RowOne
<1>3. Mild(<<c>>) /\ Listless(<<c>>)
  BY <1>1, <1>2 DEF Mild, Listless, GuildOps, RouteOps, StoreOp
<1> QED BY <1>1, <1>2, <1>3

\* What is stored after an answer of the API.
LEMMA StoresAre ==
  ASSUME NEW x \in Objects, NEW v \in Versions, v # 0, NEW route \in RoutesAbout(x, v)
  PROVE  /\ \A steps \in {<<>>, route.stores} :
               /\ steps \in Seq(Steps) /\ Good(steps) /\ Mild(steps) /\ Listless(steps)
               /\ \A s, y : Brings(steps, s, y) =>
                        s[2] = x /\ s[1] \notin Lists /\ y = v /\ route.does \in {"make", "alter"}
         /\ route.does \in {"make", "alter", "delete", "pardon"}
         /\ route.does \in {"make", "delete", "pardon"} => x # Me
         /\ route.does = "pardon" => x \in Users
<1> DEFINE P(q, does) == /\ q \in Seq(Steps) /\ Good(q) /\ Mild(q) /\ Listless(q)
                         /\ \A s, y : Brings(q, s, y) => s[2] = x /\ s[1] \notin Lists /\ y = v /\ does \in {"make", "alter"}
<1>1. \A does : P(<<>>, does)
  BY IdleIs DEF Mild, Listless
<1>2. ASSUME x \in Channels \union Threads
      PROVE  P(<<Insert("channel", x, v)>>, "make") /\ P(<<Insert("channel", x, v)>>, "alter")
  <2> DEFINE q == ThreadEvent(x, v)
  <2>1. /\ q \in Seq(Steps) /\ Good(q) /\ Mild(q) /\ Listless(q)
        /\ \A s, y : Brings(q, s, y) <=> s = <<"channel", x>> /\ y = v
    BY <1>2, ThreadEventIs
  <2>2. q = <<Insert("channel", x, v)>>
    BY DEF ThreadEvent
  <2> HIDE DEF q
  <2>3. \A s, y : Brings(q, s, y) => s[2] = x /\ s[1] \notin Lists /\ y = v
    BY <2>1 DEF Lists
  <2> QED BY <2>1, <2>2, <2>3
<1>3. ASSUME x \in Users
      PROVE  P(<<Insert("user", x, v), InsertGuildUser(x, v)>>, "alter")
  <2> DEFINE q == MemberAdd(x, v)
  <2>1. /\ q \in Seq(Steps) /\ Good(q) /\ Mild(q) /\ Listless(q)
        /\ \A s, y : Brings(q, s, y) <=> (s = <<"user", x>> /\ y = v) \/ (s = <<"member", x>> /\ y = v)
    BY <1>3, MemberEventIs
  <2>2. q = <<Insert("user", x, v), InsertGuildUser(x, v)>>
    BY DEF MemberAdd
  <2> HIDE DEF q
  <2>3. \A s, y : Brings(q, s, y) => s[2] = x /\ s[1] \notin Lists /\ y = v
    BY <2>1 DEF Lists
  <2> QED BY <2>1, <2>2, <2>3
<1>4. ASSUME x = Me
      PROVE  P(<<Insert("user", x, v)>>, "alter")
  <2> DEFINE s1 == <<"user", Me>>
             q == <<Insert("user", Me, v)>>
  <2>1. s1 \in Slots /\ s1[1] # "current" /\ s1[2] = Me /\ s1[1] \notin Lists
    BY SlotsAre DEF Lists
  <2>2. q = <<Write("insert", {<<s1, v>>})>> /\ "insert" \in WriteOps /\ "insert" \notin {"storeGuildChannels", "storeGuildRoles"}
    BY DEF Insert, WriteOps
  <2> HIDE DEF s1, q
  <2>3. /\ q \in Seq(Steps) /\ Good(q) /\ Mild(q) /\ Listless(q)
        /\ \A s, y : Brings(q, s, y) <=> s = s1 /\ y = v
    BY <2>1, <2>2, WriteOne
  <2>4. \A s, y : Brings(q, s, y) => s[2] = x /\ s[1] \notin Lists /\ y = v
    BY <1>4, <2>1, <2>3
  <2> QED BY <1>4, <2>3, <2>4 DEF q
<1> HIDE DEF P
<1>5. x \in Channels \union Threads \union Users \union {Me, Guild} \/ RoutesAbout(x, v) = {}
  BY Kinds5 DEF RoutesAbout, Objects
<1>6. /\ P(<<>>, route.does) /\ P(route.stores, route.does)
      /\ route.does \in {"make", "alter", "delete", "pardon"}
      /\ route.does \in {"make", "delete", "pardon"} => x # Me
      /\ route.does = "pardon" => x \in Users
  <2>1. CASE x \in Channels
    <3>1. route \in {CreateChannel(x, v), ModifyChannel(x, v), CloseChannel} /\ x # Me
      BY <2>1, Kinds5 DEF RoutesAbout
    <3> QED BY <1>1, <1>2, <2>1, <3>1 DEF CreateChannel, ModifyChannel, CloseChannel, Route
  <2>2. CASE x \in Threads
    <3>1. route \in {ModifyChannel(x, v), CloseChannel} /\ x # Me
      BY <2>2, Kinds5 DEF RoutesAbout
    <3> QED BY <1>1, <1>2, <2>2, <3>1 DEF ModifyChannel, CloseChannel, Route
  <2>3. CASE x \in Users
    <3>1. route \in {ModifyMember(x, v), AddMemberRole, RemoveMemberRole, RemoveMember, CreateBan, RemoveBan} /\ x # Me
      BY <2>3, Kinds5 DEF RoutesAbout
    <3> QED BY <1>1, <1>3, <2>3, <3>1 DEF ModifyMember, AddMemberRole, RemoveMemberRole, RemoveMember, CreateBan, RemoveBan, Route
  <2>4. CASE x = Me
    <3>1. route = ModifyCurrentUser(v)
      BY <2>4, Kinds5 DEF RoutesAbout
    <3> QED BY <1>1, <1>4, <2>4, <3>1 DEF ModifyCurrentUser, Route
  <2>5. CASE x = Guild
    <3>1. route = LeaveGuild /\ x # Me
      BY <2>5, Kinds5 DEF RoutesAbout
    <3> QED BY <1>1, <3>1 DEF LeaveGuild, Route
  <2> QED BY <1>5, <2>1, <2>2, <2>3, <2>4, <2>5
<1> QED BY <1>6 DEF P

-----------------------------------------------------------------------------
(* What happens outside                                                    *)

\* Nobody takes up anything about guilds.
LEMMA FreshCalm ==
  ASSUME SilentInv,
         \A o \in Workers : todo'[o] = todo[o] \/ (todo[o] = <<>> /\ \A op \in GuildOps : ~Has(todo'[o], op)),
         UNCHANGED <<overlap, reported, owed, unavailable, gateway>>, world'[Guild].live = world[Guild].live
  PROVE  SilentInv'
<1>1. ASSUME NEW o \in Workers PROVE Calmer(todo[o], todo'[o])
  <2>1. CASE todo'[o] = todo[o]
    BY <2>1 DEF Calmer
  <2>2. CASE todo[o] = <<>> /\ \A op \in GuildOps : ~Has(todo'[o], op)
    <3>1. \A i \in 1..Len(todo[o]) : todo[o][i].op \notin GuildOps
      BY <2>2
    <3>2. \A i \in 1..Len(todo'[o]) : todo'[o][i].op \notin GuildOps
      BY <2>2 DEF Has
    <3> QED BY <3>1, <3>2, NewCalmer
  <2> QED BY <2>1, <2>2
<1> QED BY <1>1, SilentCalm

\* Nobody takes up an interaction.
LEMMA FreshArrive ==
  ASSUME ArriveInv, UNCHANGED interactionVars,
         \A o \in Workers : todo'[o] = todo[o] \/ \A op \in RouteOps : ~Has(todo'[o], op)
  PROVE  ArriveInv'
<1>1. ASSUME NEW o \in Workers
      PROVE  (RoutesOnce(todo[o]) => RoutesOnce(todo'[o])) /\ \A op \in RouteOps : Has(todo'[o], op) => Has(todo[o], op)
  <2>1. CASE todo'[o] = todo[o]
    BY <2>1
  <2>2. CASE \A op \in RouteOps : ~Has(todo'[o], op)
    BY <2>2 DEF RoutesOnce, Has
  <2> QED BY <2>1, <2>2
<1>2. \A o \in Workers : (Handles(o)' => Handles(o)) /\ (Has(todo'[o], "handler") => Has(todo[o], "handler"))
  BY <1>1 DEF Handles, RouteOps
<1> QED BY <1>1, <1>2 DEF ArriveInv, interactionVars

\* The types, when something happens outside.
LEMMA OutsideTypes ==
  ASSUME TypeInv, todo' \in [Workers -> Seq(Steps)],
         events' \in Nat, events <= events', events' <= MaxEvents,
         world' \in [Objects -> [v : 1..(1 + events'), live : BOOLEAN]], world'[Me].live,
         UNCHANGED <<cache, known, owner, crossed, fetched, unavailable, readers, reported>>,
         UNCHANGED interactionVars, {overlap, registered}' \subseteq BOOLEAN /\ owed' \in Debts,
         gateway' \in {"UNAUTHENTICATED", "AUTHENTICATION_SENT", "READY"},
         session' \in 0..MaxSessions, calls' \in 0..MaxCalls
  PROVE  TypeInv'
<1>1. MaxEvents \in Nat
  BY DispatchAssumption DEF DispatchAssumption
<1>2. events \in Nat /\ events' \in 0..MaxEvents
  BY <1>1 DEF TypeInv
<1>3. made' \in 1..(1 + events')
  <2>1. made' = made /\ made \in 1..(1 + events)
    BY DEF TypeInv, interactionVars
  <2>2. \A a, b \in Nat : a <= b => \A m \in 1..(1 + a) : m \in 1..(1 + b)
    OBVIOUS
  <2>3. \A m \in 1..(1 + events) : m \in 1..(1 + events')
    BY <1>2, <2>2
  <2> QED BY <2>1, <2>3
<1>4. /\ cache' \in [Slots -> Versions]
      /\ owner' \in [Mutexes -> Workers \union {NoOne}]
      /\ {known, unavailable, registered, overlap, reported, crashed, astray}' \subseteq BOOLEAN /\ owed' \in Debts
      /\ crossed' \subseteq Slots /\ fetched' \subseteq Lists /\ readers' \subseteq Workers
  BY DEF TypeInv, interactionVars
<1>5. /\ table' \in [Kinds -> 0..made' \union {Null}]
      /\ routes' \in [Workers -> [kind : Kinds, meant : 0..made' \union {Null}, changed : BOOLEAN]]
  BY DEF TypeInv, interactionVars
<1> QED BY <1>2, <1>3, <1>4, <1>5 DEF TypeInv, Versions

\* The world after a change of x.
LEMMA WorldTypes ==
  ASSUME TypeInv, NEW x \in Objects, events < MaxEvents, events' = events + 1, NEW f,
         world' = [world EXCEPT ![x] = f], f \in [v : 1..(1 + events'), live : BOOLEAN], x = Me => f.live
  PROVE  /\ world' \in [Objects -> [v : 1..(1 + events'), live : BOOLEAN]] /\ world'[Me].live
         /\ world'[x] = f /\ \A y \in Objects \ {x} : world'[y] = world[y]
<1>1. MaxEvents \in Nat /\ events \in Nat
  BY DispatchAssumption DEF DispatchAssumption, TypeInv
<1>2. \A v \in 1..(1 + events) : v \in 1..(1 + events')
  BY <1>1
<1>3. world \in [Objects -> [v : 1..(1 + events'), live : BOOLEAN]] /\ Me \in Objects /\ world[Me].live
  <2>1. world \in [Objects -> [v : 1..(1 + events), live : BOOLEAN]] /\ world[Me].live /\ Me \in Objects
    BY DEF TypeInv, Objects
  <2> QED BY <1>2, <2>1
<1>4. /\ world' \in [Objects -> [v : 1..(1 + events'), live : BOOLEAN]]
      /\ world'[x] = f /\ \A y \in Objects \ {x} : world'[y] = world[y]
  BY <1>3
<1> QED BY <1>3, <1>4

(* What an idle worker takes up.                                           *)
TakesUp(w) == /\ todo'[w] \in Seq(Steps) /\ Good(todo'[w]) /\ Honest(todo[w])'
              /\ \A op \in RouteOps : ~Has(todo'[w], op)
(* It brings the news of x.                                                *)
News1(w, x) == \A s \in Slots \ {AtMe} : s[2] = x =>
                   \E v \in Versions : Brings(todo'[w], s, v) /\ Right(s, v)' /\ Sure(todo'[w], s)

\* A handler that stores no list as a whole.
LEMMA MildTakesUp ==
  ASSUME NEW w, todo'[w] \in Seq(Steps), Good(todo'[w]), Mild(todo'[w]), Listless(todo'[w]),
         \A s, v : Brings(todo'[w], s, v) => Right(s, v)'
  PROVE  TakesUp(w) /\ \A op \in GuildOps : ~Has(todo'[w], op)
BY DEF TakesUp, Honest, Mild, Listless

\* An object is there, in its version n.
LEMMA EventIs ==
  ASSUME TypeInv, NEW w \in Workers, NEW x \in Objects, NEW n \in Versions, n # 0, x # Guild,
         todo'[w] = Created(x, n) \/ todo'[w] = Updated(x, n),
         x = Me => todo'[w] = Updated(x, n),
         world'[x] = [v |-> n, live |-> TRUE]
  PROVE  TakesUp(w) /\ News1(w, x) /\ \A op \in GuildOps : ~Has(todo'[w], op)
<1>0. world'[x].v = n /\ world'[x].live /\ 0 \in Versions /\ 1 \in Versions
  BY DispatchAssumption DEF DispatchAssumption, Versions
<1> DEFINE q == todo'[w]
<1>1. CASE x \in Channels
  <2>1. todo'[w] = ChannelCreate(x, n)
    BY <1>1, HandlersAre, Kinds5
  <2>2. /\ q \in Seq(Steps) /\ Good(q) /\ Mild(q) /\ Listless(q)
        /\ \A s, y : Brings(q, s, y) <=> (s = <<"channel", x>> /\ y = n) \/ (s = <<"channels", x>> /\ y = 1)
        /\ \A s : Sure(q, s)
    BY <1>1, <2>1, ChannelEventIs
  <2> HIDE DEF q
  <2>3. Right(<<"channel", x>>, n)' /\ Right(<<"channels", x>>, 1)'
    BY <1>0 DEF Right, Lists
  <2>4. \A s, y : Brings(q, s, y) => Right(s, y)'
    BY <2>2, <2>3
  <2>5. News1(w, x)
    BY <1>0, <1>1, <2>2, <2>3, ObjectSlots DEF News1, q
  <2> QED BY <2>2, <2>4, <2>5, MildTakesUp DEF q
<1>2. CASE x \in Threads
  <2>1. todo'[w] = ThreadEvent(x, n)
    BY <1>2, HandlersAre, Kinds5
  <2>2. /\ q \in Seq(Steps) /\ Good(q) /\ Mild(q) /\ Listless(q)
        /\ \A s, y : Brings(q, s, y) <=> s = <<"channel", x>> /\ y = n
        /\ \A s : Sure(q, s)
    BY <1>2, <2>1, ThreadEventIs
  <2> HIDE DEF q
  <2>3. Right(<<"channel", x>>, n)'
    BY <1>0 DEF Right, Lists
  <2>4. \A s, y : Brings(q, s, y) => Right(s, y)'
    BY <2>2, <2>3
  <2>5. News1(w, x)
    BY <1>0, <1>2, <2>2, <2>3, ObjectSlots DEF News1, q
  <2> QED BY <2>2, <2>4, <2>5, MildTakesUp DEF q
<1>3. CASE x \in Roles
  <2>1. todo'[w] = RoleCreate(x, n)
    BY <1>3, HandlersAre, Kinds5
  <2>2. /\ q \in Seq(Steps) /\ Good(q) /\ Mild(q) /\ Listless(q)
        /\ \A s, y : Brings(q, s, y) <=> (s = <<"roles", x>> /\ y = 1) \/ (s = <<"role", x>> /\ y = n)
        /\ \A s \in RoleSlots(x) : Sure(q, s)
    BY <1>3, <2>1, RoleEventIs
  <2> HIDE DEF q
  <2>3. Right(<<"roles", x>>, 1)' /\ Right(<<"role", x>>, n)'
    BY <1>0 DEF Right, Lists
  <2>4. \A s, y : Brings(q, s, y) => Right(s, y)'
    BY <2>2, <2>3
  <2>5. News1(w, x)
    BY <1>0, <1>3, <2>2, <2>3, ObjectSlots DEF News1, q, RoleSlots
  <2> QED BY <2>2, <2>4, <2>5, MildTakesUp DEF q
<1>4. CASE x \in Users
  <2>1. todo'[w] = MemberAdd(x, n)
    BY <1>4, HandlersAre, Kinds5
  <2>2. /\ q \in Seq(Steps) /\ Good(q) /\ Mild(q) /\ Listless(q)
        /\ \A s, y : Brings(q, s, y) <=> (s = <<"user", x>> /\ y = n) \/ (s = <<"member", x>> /\ y = n)
        /\ \A s : Sure(q, s)
    BY <1>4, <2>1, MemberEventIs
  <2> HIDE DEF q
  <2>3. Right(<<"user", x>>, n)' /\ Right(<<"member", x>>, n)'
    BY <1>0 DEF Right, Lists
  <2>4. \A s, y : Brings(q, s, y) => Right(s, y)'
    BY <2>2, <2>3
  <2>5. News1(w, x)
    BY <1>0, <1>4, <2>2, <2>3, ObjectSlots DEF News1, q
  <2> QED BY <2>2, <2>4, <2>5, MildTakesUp DEF q
<1>5. CASE x = Me
  <2>1. todo'[w] = UserUpdate(n)
    BY <1>5, HandlersAre, Kinds5
  <2>2. /\ q \in Seq(Steps) /\ Good(q) /\ Mild(q) /\ Listless(q)
        /\ \A s, y : Brings(q, s, y) <=> (s = Current /\ y = n) \/ (s = <<"user", Me>> /\ y = n)
        /\ \A s : Sure(q, s)
    BY <1>5, <2>1, UserUpdateIs
  <2> HIDE DEF q
  <2>3. Right(<<"user", Me>>, n)' /\ Right(Current, n)'
    BY <1>0, <1>5 DEF Right, Lists, Current
  <2>4. \A s, y : Brings(q, s, y) => Right(s, y)'
    BY <2>2, <2>3
  <2>5. News1(w, x)
    BY <1>0, <1>5, <2>2, <2>3, ObjectSlots DEF News1, q
  <2> QED BY <2>2, <2>4, <2>5, MildTakesUp DEF q
<1> QED BY <1>1, <1>2, <1>3, <1>4, <1>5 DEF Objects

\* An object is deleted, whose last version was n.
LEMMA DeletedIs ==
  ASSUME TypeInv, NEW w \in Workers, NEW x \in Objects, NEW n \in Versions, n # 0, x \notin {Guild, Me},
         todo'[w] = Deleted(x, n), world'[x].v = n, ~world'[x].live, world'[x].live \in BOOLEAN
  PROVE  /\ TakesUp(w) /\ \A op \in GuildOps : ~Has(todo'[w], op)
         /\ x \in Channels \union Roles => News1(w, x)
<1>0. world'[x].v = n /\ world'[x].live = FALSE /\ 0 \in Versions /\ 0 # 1
  BY DispatchAssumption DEF DispatchAssumption, Versions
<1> DEFINE q == todo'[w]
<1>1. CASE x \in Channels
  <2>1. todo'[w] = ChannelDelete(x)
    BY <1>1, HandlersAre, Kinds5
  <2>2. /\ q \in Seq(Steps) /\ Good(q) /\ Mild(q) /\ Listless(q)
        /\ \A s, y : Brings(q, s, y) <=> (s = <<"channel", x>> /\ y = 0) \/ (s = <<"channels", x>> /\ y = 0)
        /\ \A s : Sure(q, s)
    BY <1>1, <2>1, ChannelEventIs
  <2> HIDE DEF q
  <2>3. Right(<<"channel", x>>, 0)' /\ Right(<<"channels", x>>, 0)'
    BY <1>0 DEF Right, Lists
  <2>4. \A s, y : Brings(q, s, y) => Right(s, y)'
    BY <2>2, <2>3
  <2>5. News1(w, x)
    BY <1>0, <1>1, <2>2, <2>3, ObjectSlots DEF News1, q
  <2> QED BY <2>2, <2>4, <2>5, MildTakesUp DEF q
<1>2. CASE x \in Threads
  <2>1. todo'[w] = ThreadEvent(x, n) /\ x \notin Channels \union Roles
    BY <1>2, HandlersAre, Kinds5
  <2>2. /\ q \in Seq(Steps) /\ Good(q) /\ Mild(q) /\ Listless(q)
        /\ \A s, y : Brings(q, s, y) <=> s = <<"channel", x>> /\ y = n
    BY <1>2, <2>1, ThreadEventIs
  <2> HIDE DEF q
  <2>3. Right(<<"channel", x>>, n)'
    BY <1>0, <1>2 DEF Right, Lists, Kept
  <2>4. \A s, y : Brings(q, s, y) => Right(s, y)'
    BY <2>2, <2>3
  <2> QED BY <2>1, <2>2, <2>4, MildTakesUp DEF q
<1>3. CASE x \in Roles
  <2>1. todo'[w] = RoleDelete(x)
    BY <1>3, HandlersAre, Kinds5
  <2>2. /\ q \in Seq(Steps) /\ Good(q) /\ Mild(q) /\ Listless(q)
        /\ \A s, y : Brings(q, s, y) <=> (s = <<"roles", x>> /\ y = 0) \/ (s = <<"role", x>> /\ y = 0)
        /\ \A s \in RoleSlots(x) : Sure(q, s)
    BY <1>3, <2>1, <1>0, RoleEventIs
  <2> HIDE DEF q
  <2>3. Right(<<"roles", x>>, 0)' /\ Right(<<"role", x>>, 0)'
    BY <1>0 DEF Right, Lists
  <2>4. \A s, y : Brings(q, s, y) => Right(s, y)'
    BY <2>2, <2>3
  <2>5. News1(w, x)
    BY <1>0, <1>3, <2>2, <2>3, ObjectSlots DEF News1, q, RoleSlots
  <2> QED BY <2>2, <2>4, <2>5, MildTakesUp DEF q
<1>4. CASE x \in Users
  <2>1. todo'[w] = Ban(x, n) /\ x \notin Channels \union Roles
    BY <1>4, HandlersAre, Kinds5
  <2>2. /\ q \in Seq(Steps) /\ Good(q) /\ Mild(q) /\ Listless(q)
        /\ \A s, y : Brings(q, s, y) <=> s = <<"user", x>> /\ y = n
    BY <1>4, <2>1, MemberEventIs
  <2> HIDE DEF q
  <2>3. Right(<<"user", x>>, n)'
    BY <1>0, <1>4 DEF Right, Lists, Kept
  <2>4. \A s, y : Brings(q, s, y) => Right(s, y)'
    BY <2>2, <2>3
  <2> QED BY <2>1, <2>2, <2>4, MildTakesUp DEF q
<1> QED BY <1>1, <1>2, <1>3, <1>4 DEF Objects

\* The guild is there, in its version n.
LEMMA GuildIs ==
  ASSUME TypeInv, NEW w \in Workers, NEW n \in Versions, n # 0,
         todo'[w] = GuildUpdate(n) \/ \E listed \in BOOLEAN : todo'[w] = GuildAvailable(n, listed),
         world'[Guild].v = n, \A r \in Roles : world'[r] = world[r]
  PROVE  TakesUp(w) /\ News1(w, Guild)
<1>0. 1 \in Versions /\ 1 # 0
  BY DispatchAssumption DEF DispatchAssumption, Versions
<1> DEFINE q == todo'[w]
<1>1. /\ q \in Seq(Steps) /\ Good(q)
      /\ ~Has(q, "route") /\ ~Has(q, "handler") /\ ~Has(q, "storeGuildChannels")
      /\ \A s, y : Brings(q, s, y) <=> (s = <<"guild", Guild>> /\ y = n) \/ <<s, y>> \in NewsOf(RoleList)
      /\ \A s : Sure(q, s)
  <2>1. CASE todo'[w] = GuildUpdate(n)
    BY <2>1, GuildUpdateIs
  <2>2. CASE \E listed \in BOOLEAN : todo'[w] = GuildAvailable(n, listed)
    <3>1. PICK listed \in BOOLEAN : todo'[w] = GuildAvailable(n, listed)
      BY <2>2
    <3> QED BY <3>1, GuildAvailableIs
  <2> QED BY <2>1, <2>2
<1> HIDE DEF q
<1>2. /\ \A m \in NewsOf(RoleList) : /\ m \in Slots \X Versions /\ m[1][1] \in {"role", "roles"}
                                     /\ m[1][2] \in LiveRoles
                                     /\ m[2] = IF m[1][1] = "roles" THEN 1 ELSE world[m[1][2]].v
      /\ \A r \in LiveRoles : <<<<"roles", r>>, 1>> \in NewsOf(RoleList)
  BY RoleListIs
<1>3. Right(<<"guild", Guild>>, n)'
  BY DEF Right, Lists, Kept
<1>4. ASSUME NEW s, NEW y, Brings(q, s, y)
      PROVE  Right(s, y)'
  <2>1. CASE <<s, y>> \in NewsOf(RoleList)
    <3>1. s \in Slots /\ s[1] \in {"role", "roles"} /\ s[2] \in LiveRoles /\ y = IF s[1] = "roles" THEN 1 ELSE world[s[2]].v
      BY <1>2, <2>1
    <3>2. world'[s[2]] = world[s[2]] /\ world[s[2]].live
      BY <3>1 DEF LiveRoles
    <3>3. world[s[2]].live \in BOOLEAN
      BY <3>1, SlotKinds DEF TypeInv
    <3> QED BY <3>1, <3>2, <3>3 DEF Right, Lists
  <2> QED BY <1>1, <1>3, <1>4, <2>1
<1>5. ASSUME NEW s \in Slots, s[1] = "roles", world'[s[2]].live
      PROVE  Brings(q, s, 1)
  <2>1. s = <<"roles", s[2]>> /\ s[2] \in Roles
    BY <1>5, SlotKinds
  <2>2. s[2] \in LiveRoles
    BY <1>5, <2>1 DEF LiveRoles
  <2>3. <<s, 1>> \in NewsOf(RoleList)
    BY <1>2, <2>1, <2>2
  <2> QED BY <1>1, <2>3
<1>6. \A list \in Lists : Has(q, StoreOp(list)) =>
          \A s \in Slots : s[1] = list /\ world'[s[2]].live => Brings(q, s, 1) /\ Sure(q, s)
  BY <1>1, <1>5 DEF Lists, StoreOp
<1>7. Honest(todo[w])'
  BY <1>4, <1>6 DEF Honest, q
<1>8. TakesUp(w)
  BY <1>1, <1>7 DEF TakesUp, RouteOps, q
<1>9. News1(w, Guild)
  BY <1>1, <1>3, ObjectSlots DEF News1, q
<1> QED BY <1>8, <1>9

\* Something happens outside, and idle workers take up the news.
LEMMA OutsideKeeps ==
  ASSUME DispatchInv, TypeInv', SilentInv',
         \A o \in Workers : todo'[o] = todo[o] \/ (todo[o] = <<>> /\ TakesUp(o)),
         UNCHANGED <<cache, crossed, fetched, owner, readers>>, UNCHANGED interactionVars,
         \A s \in Slots \ {AtMe} : (\A v : Right(s, v)' <=> Right(s, v)) \/ Coming(s)',
         (\A v : Right(AtMe, v)' <=> Right(AtMe, v)) \/ Coming(Current)'
  PROVE  DispatchInv'
<1>1. TypeInv /\ GoodInv /\ LockInv /\ CacheInv /\ ArriveInv
  BY DEF DispatchInv
<1>2. Fresh
  <2>1. todo' \in [Workers -> Seq(Steps)]
    BY DEF TypeInv
  <2> QED BY <2>1 DEF Fresh, TakesUp
<1>3. GoodInv' /\ LockInv'
  BY <1>1, <1>2, FreshGood
<1>4. \A x \in Objects : world'[x].live \in BOOLEAN
  BY DEF TypeInv
<1>5. CacheInv'
  BY <1>1, <1>2, <1>4, FreshCaches
<1>6. ArriveInv'
  BY <1>1, FreshArrive DEF TakesUp
<1> QED BY <1>3, <1>5, <1>6 DEF DispatchInv

\* Slots that are about something else say what they said, and news of x are coming.
LEMMA ChangedSlots ==
  ASSUME NEW x \in Objects, NEW w \in Workers,
         \A y \in Objects \ {x} : world'[y] = world[y],
         News1(w, x) \/ (x \in Kept \ {Me} /\ world'[x].v = world[x].v)
  PROVE  /\ \A s \in Slots \ {AtMe} : (\A v : Right(s, v)' <=> Right(s, v)) \/ Coming(s)'
         /\ (\A v : Right(AtMe, v)' <=> Right(AtMe, v)) \/ Coming(Current)'
<1>1. ASSUME NEW s \in Slots, s[2] # x PROVE \A v : Right(s, v)' <=> Right(s, v)
  <2>1. world'[s[2]] = world[s[2]]
    BY <1>1, SlotKinds
  <2> QED BY <2>1 DEF Right
<1>2. ASSUME News1(w, x), NEW s \in Slots \ {AtMe}, s[2] = x PROVE Coming(s)'
  BY <1>2 DEF News1, Coming
<1>3. ASSUME x \in Kept \ {Me}, world'[x].v = world[x].v, NEW s \in Slots, s[2] = x
      PROVE  \A v : Right(s, v)' <=> Right(s, v)
  <2>1. s[1] \notin Lists
    BY <1>3, SlotKinds, Kinds5 DEF Kept, Lists
  <2> QED BY <1>3, <2>1 DEF Right
<1>4. AtMe \in Slots /\ AtMe[2] = Me /\ Current \in Slots \ {AtMe} /\ Current[2] = Me
  BY SlotsAre DEF AtMe, Current
<1>5. (\A v : Right(AtMe, v)' <=> Right(AtMe, v)) \/ Coming(Current)'
  BY <1>1, <1>2, <1>3, <1>4
<1> QED BY <1>1, <1>2, <1>3, <1>5

\* Nothing changes outside.
LEMMA SameSlots ==
  ASSUME world' = world
  PROVE  /\ \A s \in Slots \ {AtMe} : (\A v : Right(s, v)' <=> Right(s, v)) \/ Coming(s)'
         /\ (\A v : Right(AtMe, v)' <=> Right(AtMe, v)) \/ Coming(Current)'
BY DEF Right

\* A guild begins: no guild was listed, as it was not there.
LEMMA GuildBegins ==
  ASSUME SilentInv, NEW w \in Workers, NEW r \in Workers, NEW n \in Versions, TypeInv,
         ~world[Guild].live, todo'[w] = GuildAvailable(n, FALSE),
         \A o \in Workers \ {w} : todo'[o] = todo[o] \/ \A op \in GuildOps : ~Has(todo'[o], op),
         UNCHANGED <<overlap, reported, owed, unavailable, gateway>>
  PROVE  SilentInv'
<1>0. CASE overlap
  BY <1>0 DEF SilentInv
<1> SUFFICES ASSUME ~overlap PROVE SilentInv'
  BY <1>0
<1>1. ~reported /\ owed # "listed" /\ \A o \in Workers : ~Listed(todo[o])
  BY DEF SilentInv, Pending
<1>2. PICK no \in BOOLEAN : no = FALSE
  OBVIOUS
<1>3. /\ ~Listed(todo'[w])
      /\ \A op : Has(todo'[w], op) <=> op \in {"awaitReady", "storeGuildRoles", "insert", "created"}
  BY <1>2, GuildAvailableIs
<1>4. \A q : Listed(q) => Has(q, "created")
  BY DEF Listed, Has
<1>5. \A o \in Workers : ~Listed(todo'[o])
  BY <1>1, <1>3, <1>4 DEF GuildOps
<1>6. \A o \in Workers : /\ Has(todo'[o], "announce") => Has(todo[o], "announce") /\ todo'[o] = todo[o]
                         /\ Has(todo'[o], "becomeReady") => Has(todo[o], "becomeReady")
  <2>1. ~Has(todo'[w], "announce") /\ ~Has(todo'[w], "becomeReady")
    BY ONLY <1>3
  <2>2. "announce" \in GuildOps /\ "becomeReady" \in GuildOps
    BY DEF GuildOps
  <2> QED BY <2>1, <2>2
<1>7. ASSUME NEW o \in Workers, Has(todo'[o], "announce")
      PROVE  /\ gateway' = "AUTHENTICATION_SENT" /\ Announces(todo'[o])
             /\ \A v \in Workers : Has(todo'[v], "becomeReady") => v = o
  BY <1>6, <1>7 DEF SilentInv
<1> QED BY <1>1, <1>5, <1>7 DEF SilentInv, Pending

\* A guild ends or has an outage, and nobody handles a guild.
LEMMA GuildEnds ==
  ASSUME SilentInv, NEW w \in Workers,
         todo'[w] = GuildDelete, owed' # "listed", overlap' = (overlap \/ GuildHandlerRuns), overlap \in BOOLEAN,
         todo \in [Workers -> Seq(Steps)],
         \A o \in Workers \ {w} : todo'[o] = todo[o] \/ \A op \in GuildOps : ~Has(todo'[o], op),
         UNCHANGED <<reported, unavailable, gateway>>
  PROVE  SilentInv'
<1>0. CASE overlap'
  BY <1>0 DEF SilentInv
<1> SUFFICES ASSUME ~overlap' PROVE SilentInv'
  BY <1>0
<1>1. ~overlap /\ ~reported /\ ~GuildHandlerRuns
  BY DEF SilentInv
<1>2. \A o \in Workers : \A op \in GuildOps : ~Has(todo[o], op)
  BY <1>1 DEF GuildHandlerRuns, Has
<1>3. \A op : Has(todo'[w], op) <=> op \in {"awaitReady", "deleted"}
  BY GuildDeleteIs
<1>4. \A o \in Workers : ~Has(todo'[o], "created") /\ ~Has(todo'[o], "announce")
  BY <1>2, <1>3 DEF GuildOps
<1>5. \A o \in Workers : ~Listed(todo'[o])
  BY <1>4 DEF Listed, Has
<1> QED BY <1>1, <1>4, <1>5 DEF SilentInv, Pending

(* Another worker stores nothing, or what the API has just said of x.      *)
Stays(q, r, x) ==
    r = q \/ /\ q = <<>> /\ r \in Seq(Steps) /\ Good(r) /\ Mild(r) /\ Listless(r)
             /\ \A s, y : Brings(r, s, y) => s[2] = x /\ s[1] \notin Lists /\ y = world'[x].v /\ world'[x].live

\* Another worker that did not stay as it was took up a step of its own.
LEMMA StaysTakesUp ==
  ASSUME NEW o, NEW x, todo'[o] # todo[o], Stays(todo[o], todo'[o], x)
  PROVE  todo[o] = <<>> /\ TakesUp(o) /\ \A op \in GuildOps : ~Has(todo'[o], op)
<1>1. /\ todo[o] = <<>> /\ todo'[o] \in Seq(Steps) /\ Good(todo'[o]) /\ Mild(todo'[o]) /\ Listless(todo'[o])
      /\ \A s, y : Brings(todo'[o], s, y) => s[2] = x /\ s[1] \notin Lists /\ y = world'[x].v /\ world'[x].live
  BY DEF Stays
<1>2. \A s, y : Brings(todo'[o], s, y) => Right(s, y)'
  BY <1>1 DEF Right
<1> QED BY <1>1, <1>2, MildTakesUp

\* What is common to all that may happen to x.
LEMMA HappensTo ==
  ASSUME DispatchInv, NEW x \in Objects, NEW w \in Workers, todo[w] = <<>>,
         todo' \in [Workers -> Seq(Steps)], \A o \in Workers \ {w} : Stays(todo[o], todo'[o], x),
         events < MaxEvents, events' = events + 1, calls' \in 0..MaxCalls,
         UNCHANGED <<cache, known, owner, crossed, fetched,
                     gateway, unavailable, readers, registered, session, reported>>,
         UNCHANGED interactionVars, {overlap}' \subseteq BOOLEAN /\ owed' \in Debts,
         world' \in [Objects -> [v : 1..(1 + events'), live : BOOLEAN]], world'[Me].live,
         \A y \in Objects \ {x} : world'[y] = world[y],
         TakesUp(w), News1(w, x) \/ (x \in Kept \ {Me} /\ world'[x].v = world[x].v),
         SilentInv'
  PROVE  DispatchInv'
<1>1. TypeInv'
  <2>0. TypeInv
    BY DEF DispatchInv
  <2>1. TypeInv /\ MaxEvents \in Nat /\ events \in Nat
    <3>1. events \in 0..MaxEvents
      BY <2>0 DEF TypeInv
    <3>2. MaxEvents \in Nat
      BY ONLY DispatchAssumption DEF DispatchAssumption
    <3> QED BY ONLY <2>0, <3>1, <3>2
  <2>2. events' \in Nat /\ events <= events' /\ events' <= MaxEvents
    <3>1. \A a, b \in Nat : a < b => a + 1 \in Nat /\ a <= a + 1 /\ a + 1 <= b
      OBVIOUS
    <3> QED BY <2>1, <3>1
  <2>3. /\ registered' \in BOOLEAN /\ gateway' \in {"UNAUTHENTICATED", "AUTHENTICATION_SENT", "READY"}
        /\ session' \in 0..MaxSessions
    BY <2>1 DEF TypeInv
  <2>4. {overlap, registered}' \subseteq BOOLEAN /\ owed' \in Debts
    BY <2>3
  <2> QED BY <2>1, <2>2, <2>3, <2>4, OutsideTypes
<1>2. \A o \in Workers : todo'[o] = todo[o] \/ (todo[o] = <<>> /\ TakesUp(o))
  BY StaysTakesUp
<1>3. /\ \A s \in Slots \ {AtMe} : (\A v : Right(s, v)' <=> Right(s, v)) \/ Coming(s)'
      /\ (\A v : Right(AtMe, v)' <=> Right(AtMe, v)) \/ Coming(Current)'
  BY ChangedSlots
<1>4. UNCHANGED <<cache, crossed, fetched, owner, readers>>
  OBVIOUS
<1> QED BY <1>1, <1>2, <1>3, <1>4, OutsideKeeps

\* Something is made, altered or deleted, and the gateway says so.
LEMMA DoesKeeps ==
  ASSUME DispatchInv, NEW x \in Objects, NEW w \in Workers, todo[w] = <<>>,
         NEW STATE others, others \in [Workers -> Seq(Steps)],
         \A o \in Workers \ {w} : Stays(todo[o], others[o], x),
         events < MaxEvents, events' = events + 1, calls' \in 0..MaxCalls,
         UNCHANGED <<cache, known, owner, crossed, fetched,
                     gateway, unavailable, readers, registered, session, reported>>,
         UNCHANGED interactionVars,
         Make(x, w, others) \/ Alter(x, w, others) \/ Delete(x, w, others)
  PROVE  DispatchInv'
<1>1. TypeInv /\ SilentInv /\ {overlap} \subseteq BOOLEAN /\ owed \in Debts /\ Me \in Objects /\ Guild \in Objects
  BY DEF DispatchInv, TypeInv, Objects
<1> DEFINE n == world[x].v
<1>2. n \in Versions /\ n # 0 /\ n \in 1..(1 + events) /\ world[x].live \in BOOLEAN /\ events \in Nat /\ MaxEvents \in Nat
  BY <1>1, WorldIs, DispatchAssumption, SMTT(30) DEF TypeInv, DispatchAssumption
<1>3. n + 1 \in Versions /\ n + 1 # 0 /\ n + 1 \in 1..(1 + events') /\ n \in 1..(1 + events')
  <2>1. \A a, b \in Nat : a < b => \A m \in 1..(1 + a) : m + 1 \in 0..(1 + b) /\ m + 1 # 0 /\ m + 1 \in 1..(1 + (a + 1)) /\ m \in 1..(1 + (a + 1))
    OBVIOUS
  <2> HIDE DEF n
  <2>2. \A m \in 1..(1 + events) : /\ m + 1 \in 0..(1 + MaxEvents) /\ m + 1 # 0
                                   /\ m + 1 \in 1..(1 + (events + 1)) /\ m \in 1..(1 + (events + 1))
    BY <1>2, <2>1
  <2> QED BY <1>2, <2>2 DEF Versions
<1>4. world \in [Objects -> [v : 1..(1 + events), live : BOOLEAN]]
  BY <1>1 DEF TypeInv
<1>10. /\ [world[x] EXCEPT !.v = n + 1] = [v |-> n + 1, live |-> world[x].live]
       /\ [world[x] EXCEPT !.live = FALSE] = [v |-> n, live |-> FALSE]
  <2>1. \A r \in [v : 1..(1 + events), live : BOOLEAN] :
           /\ \A m : [r EXCEPT !.v = m] = [v |-> m, live |-> r.live]
           /\ \A b : [r EXCEPT !.live = b] = [v |-> r.v, live |-> b]
    OBVIOUS
  <2> QED BY <1>4, <2>1
<1>5. ASSUME NEW q \in Seq(Steps), todo' = [others EXCEPT ![w] = q]
      PROVE  todo' \in [Workers -> Seq(Steps)] /\ todo'[w] = q /\ \A o \in Workers \ {w} : Stays(todo[o], todo'[o], x)
  BY <1>5
<1>6. ASSUME NEW o \in Workers \ {w}, Stays(todo[o], todo'[o], x)
      PROVE  todo'[o] = todo[o] \/ (todo[o] = <<>> /\ \A op \in GuildOps : ~Has(todo'[o], op))
  BY <1>6, StaysTakesUp
<1> HIDE DEF n
<1>7. CASE Make(x, w, others)
  <2>1. /\ ~world[x].live /\ x # Me /\ todo' = [others EXCEPT ![w] = Created(x, n + 1)]
        /\ UNCHANGED <<owed, overlap>>
    BY <1>1, <1>7 DEF Make, TypeInv, n
  <2> DEFINE f == [v |-> n + 1, live |-> TRUE]
  <2>2. world' = [world EXCEPT ![x] = f]
    BY <1>4, <1>7 DEF Make, n
  <2>3. f \in [v : 1..(1 + events'), live : BOOLEAN] /\ f.live = TRUE /\ f.v = n + 1
    BY <1>3
  <2>4. /\ world' \in [Objects -> [v : 1..(1 + events'), live : BOOLEAN]] /\ world'[Me].live
        /\ world'[x] = f /\ \A y \in Objects \ {x} : world'[y] = world[y]
    BY <1>1, <2>2, <2>3, WorldTypes
  <2>5. CASE x # Guild
    <3>1. Created(x, n + 1) \in Seq(Steps)
      <4>1. /\ x \in Channels => ChannelCreate(x, n + 1) \in Seq(Steps)
            /\ x \in Threads => ThreadEvent(x, n + 1) \in Seq(Steps)
            /\ x \in Roles => RoleCreate(x, n + 1) \in Seq(Steps)
            /\ x \in Users => MemberAdd(x, n + 1) \in Seq(Steps)
        BY <1>3, ChannelEventIs, ThreadEventIs, RoleEventIs, MemberEventIs
      <4> QED BY <2>1, <2>5, <4>1, HandlersAre DEF Objects
    <3>2. todo' \in [Workers -> Seq(Steps)] /\ todo'[w] = Created(x, n + 1) /\ \A o \in Workers \ {w} : Stays(todo[o], todo'[o], x)
      BY <1>5, <2>1, <3>1
    <3>3. TakesUp(w) /\ News1(w, x) /\ \A op \in GuildOps : ~Has(todo'[w], op)
      BY <1>1, <1>3, <2>1, <2>4, <2>5, <3>2, EventIs
    <3>4. SilentInv'
      BY <1>1, <1>6, <2>1, <2>4, <2>5, <3>2, <3>3, FreshCalm
    <3> QED BY <1>1, <2>1, <2>4, <3>2, <3>3, <3>4, HappensTo
  <2>6. CASE x = Guild
    <3>1. Created(x, n + 1) = GuildAvailable(n + 1, FALSE)
      BY <2>6, HandlersAre
    <3>2. PICK no \in BOOLEAN : no = FALSE
      OBVIOUS
    <3>3. GuildAvailable(n + 1, no) \in Seq(Steps)
      BY <1>1, <1>3, GuildAvailableIs
    <3>4. todo' = [others EXCEPT ![w] = GuildAvailable(n + 1, no)]
      BY <2>1, <3>1, <3>2
    <3>5. todo' \in [Workers -> Seq(Steps)] /\ todo'[w] = GuildAvailable(n + 1, no) /\ \A o \in Workers \ {w} : Stays(todo[o], todo'[o], x)
      BY <1>5, <3>3, <3>4
    <3>6. \A r \in Roles : world'[r] = world[r]
      BY <2>4, <2>6, Kinds5 DEF Objects
    <3>7. TakesUp(w) /\ News1(w, x)
      <4>1. world'[Guild].v = n + 1 /\ \E listed \in BOOLEAN : todo'[w] = GuildAvailable(n + 1, listed)
        BY <2>3, <2>4, <2>6, <3>5
      <4>2. TakesUp(w) /\ News1(w, Guild)
        BY <1>1, <1>3, <3>6, <4>1, GuildIs
      <4> QED BY <2>6, <4>2
    <3>8. SilentInv'
      BY <1>1, <1>3, <1>6, <2>1, <2>6, <3>2, <3>5, GuildBegins
    <3> QED BY <1>1, <2>1, <2>4, <3>5, <3>7, <3>8, HappensTo
  <2> QED BY <2>5, <2>6
<1>8. CASE Alter(x, w, others)
  <2>1. /\ world[x].live /\ todo' = [others EXCEPT ![w] = Updated(x, n + 1)]
        /\ UNCHANGED <<owed, overlap>>
    BY <1>8 DEF Alter, n
  <2> DEFINE f == [v |-> n + 1, live |-> TRUE]
  <2>2. world' = [world EXCEPT ![x] = f]
    <3>1. [world[x] EXCEPT !.v = n + 1] = f
      BY <1>2, <1>10, <2>1
    <3>2. world' = [world EXCEPT ![x] = [world[x] EXCEPT !.v = n + 1]]
      BY <1>4, <1>8 DEF Alter, n
    <3> QED BY <3>1, <3>2
  <2>3. f \in [v : 1..(1 + events'), live : BOOLEAN] /\ f.live = TRUE /\ f.v = n + 1
    BY <1>3
  <2>4. /\ world' \in [Objects -> [v : 1..(1 + events'), live : BOOLEAN]] /\ world'[Me].live
        /\ world'[x] = f /\ \A y \in Objects \ {x} : world'[y] = world[y]
    BY <1>1, <2>2, <2>3, WorldTypes
  <2>5. CASE x # Guild
    <3>1. Updated(x, n + 1) \in Seq(Steps)
      <4>1. /\ x \in Channels => ChannelCreate(x, n + 1) \in Seq(Steps)
            /\ x \in Threads => ThreadEvent(x, n + 1) \in Seq(Steps)
            /\ x \in Roles => RoleCreate(x, n + 1) \in Seq(Steps)
            /\ x \in Users => MemberAdd(x, n + 1) \in Seq(Steps)
            /\ UserUpdate(n + 1) \in Seq(Steps)
        BY <1>3, ChannelEventIs, ThreadEventIs, RoleEventIs, MemberEventIs, UserUpdateIs
      <4> QED BY <2>5, <4>1, HandlersAre DEF Objects
    <3>2. todo' \in [Workers -> Seq(Steps)] /\ todo'[w] = Updated(x, n + 1) /\ \A o \in Workers \ {w} : Stays(todo[o], todo'[o], x)
      BY <1>5, <2>1, <3>1
    <3>3. TakesUp(w) /\ News1(w, x) /\ \A op \in GuildOps : ~Has(todo'[w], op)
      BY <1>1, <1>3, <2>1, <2>4, <2>5, <3>2, EventIs
    <3>4. SilentInv'
      BY <1>1, <1>6, <2>1, <2>4, <2>5, <3>2, <3>3, FreshCalm
    <3> QED BY <1>1, <2>1, <2>4, <3>2, <3>3, <3>4, HappensTo
  <2>6. CASE x = Guild
    <3>1. Updated(x, n + 1) = GuildUpdate(n + 1)
      BY <2>6, HandlersAre
    <3>2. GuildUpdate(n + 1) \in Seq(Steps) /\ Mild(GuildUpdate(n + 1))
      BY <1>1, <1>3, GuildUpdateIs
    <3>3. todo' \in [Workers -> Seq(Steps)] /\ todo'[w] = GuildUpdate(n + 1) /\ \A o \in Workers \ {w} : Stays(todo[o], todo'[o], x)
      BY <1>5, <2>1, <3>1, <3>2
    <3>4. \A r \in Roles : world'[r] = world[r]
      BY <2>4, <2>6, Kinds5 DEF Objects
    <3>5. TakesUp(w) /\ News1(w, x)
      BY <1>1, <1>3, <2>4, <2>6, <3>3, <3>4, GuildIs
    <3>6. \A op \in GuildOps : ~Has(todo'[w], op)
      BY <3>2, <3>3 DEF Mild
    <3>7. world'[Guild].live = world[Guild].live
      <4>1. world[Guild].live = TRUE
        BY <1>2, <2>1, <2>6
      <4>2. world'[Guild].live = TRUE
        BY <2>3, <2>4, <2>6
      <4> QED BY ONLY <4>1, <4>2
    <3>8. SilentInv'
      BY <1>1, <1>6, <2>1, <3>3, <3>6, <3>7, FreshCalm
    <3> QED BY <1>1, <2>1, <2>4, <3>3, <3>5, <3>8, HappensTo
  <2> QED BY <2>5, <2>6
<1>9. CASE Delete(x, w, others)
  <2>1. /\ world[x].live /\ x # Me /\ todo' = [others EXCEPT ![w] = Deleted(x, n)]
    BY <1>9 DEF Delete, n
  <2> DEFINE f == [v |-> n, live |-> FALSE]
  <2>2. world' = [world EXCEPT ![x] = f]
    <3>1. world' = [world EXCEPT ![x] = [world[x] EXCEPT !.live = FALSE]]
      BY <1>4, <1>9 DEF Delete
    <3> QED BY <1>10, <3>1
  <2>3. f \in [v : 1..(1 + events'), live : BOOLEAN] /\ f.live = FALSE /\ f.v = n
    BY <1>3
  <2>4. /\ world' \in [Objects -> [v : 1..(1 + events'), live : BOOLEAN]] /\ world'[Me].live
        /\ world'[x] = f /\ \A y \in Objects \ {x} : world'[y] = world[y]
    BY <1>1, <2>1, <2>2, <2>3, WorldTypes
  <2>5. CASE x # Guild
    <3>0. UNCHANGED <<owed, overlap>>
      BY <1>9, <2>5 DEF Delete
    <3>1. Deleted(x, n) \in Seq(Steps)
      <4>1. /\ x \in Channels => ChannelDelete(x) \in Seq(Steps)
            /\ x \in Threads => ThreadEvent(x, n) \in Seq(Steps)
            /\ x \in Roles => RoleDelete(x) \in Seq(Steps)
            /\ x \in Users => Ban(x, n) \in Seq(Steps)
        BY <1>2, ChannelEventIs, ThreadEventIs, RoleEventIs, MemberEventIs
      <4> QED BY <2>1, <2>5, <4>1, HandlersAre DEF Objects
    <3>2. todo' \in [Workers -> Seq(Steps)] /\ todo'[w] = Deleted(x, n) /\ \A o \in Workers \ {w} : Stays(todo[o], todo'[o], x)
      BY <1>5, <2>1, <3>1
    <3>3. /\ TakesUp(w) /\ \A op \in GuildOps : ~Has(todo'[w], op)
          /\ x \in Channels \union Roles => News1(w, x)
      BY <1>1, <1>2, <2>1, <2>3, <2>4, <2>5, <3>2, DeletedIs
    <3>4. SilentInv'
      BY <1>1, <1>6, <2>1, <2>4, <2>5, <3>0, <3>2, <3>3, FreshCalm
    <3>5. News1(w, x) \/ (x \in Kept \ {Me} /\ world'[x].v = world[x].v)
      BY <2>1, <2>3, <2>4, <3>3 DEF Objects, Kept, n
    <3> QED BY <1>1, <2>1, <2>4, <3>0, <3>2, <3>3, <3>4, <3>5, HappensTo
  <2>6. CASE x = Guild
    <3>0. owed' = "no" /\ overlap' = (overlap \/ GuildHandlerRuns)
      BY <1>9, <2>6 DEF Delete, GuildHandlersOverlap
    <3>1. Deleted(x, n) = GuildDelete
      BY <2>6, HandlersAre
    <3>2. /\ GuildDelete \in Seq(Steps) /\ Good(GuildDelete) /\ \A s, y : ~Brings(GuildDelete, s, y)
          /\ \A op : Has(GuildDelete, op) <=> op \in {"awaitReady", "deleted"}
      BY GuildDeleteIs
    <3>3. todo' \in [Workers -> Seq(Steps)] /\ todo'[w] = GuildDelete /\ \A o \in Workers \ {w} : Stays(todo[o], todo'[o], x)
      BY <1>5, <2>1, <3>1, <3>2
    <3>4. TakesUp(w)
      <4>1. \A op : Has(todo'[w], op) <=> op \in {"awaitReady", "deleted"}
        BY <3>2, <3>3
      <4>2. \A op \in RouteOps : ~Has(todo'[w], op)
        BY ONLY <4>1 DEF RouteOps
      <4>3. \A list \in Lists : ~Has(todo'[w], StoreOp(list))
        BY ONLY <4>1 DEF StoreOp
      <4>4. Honest(todo[w])'
        BY <3>2, <3>3, <4>3 DEF Honest
      <4> QED BY <3>2, <3>3, <4>2, <4>4 DEF TakesUp
    <3>5. x \in Kept \ {Me} /\ world'[x].v = world[x].v
      BY <2>1, <2>3, <2>4, <2>6 DEF Kept, n
    <3>6. todo \in [Workers -> Seq(Steps)] /\ overlap \in BOOLEAN
      BY <1>1 DEF TypeInv
    <3>7. SilentInv'
      BY <1>1, <1>6, <3>0, <3>3, <3>6, GuildEnds
    <3>8. {overlap}' \subseteq BOOLEAN /\ owed' \in Debts
      BY <3>0, <3>6 DEF GuildHandlerRuns, Debts
    <3> QED BY <1>1, <2>1, <2>4, <3>3, <3>4, <3>5, <3>7, <3>8, HappensTo
  <2> QED BY <2>5, <2>6
<1> QED BY <1>7, <1>8, <1>9

-----------------------------------------------------------------------------
(* The actions of the gateway and of the program                           *)

\* Numbers that grow by one.
LEMMA OneMore ==
  /\ \A a, b \in Nat : a < b => a + 1 \in Nat /\ a <= a + 1 /\ a + 1 <= b /\ a + 1 \in 0..b
  /\ \A a, b \in Nat : a <= b => \A m \in 1..(1 + a) : m \in 1..(1 + b)
  /\ \A b \in Nat : \A a \in 0..b : a \in Nat /\ a <= a /\ a <= b
OBVIOUS

\* The bounds.
LEMMA BoundsAre ==
  ASSUME TypeInv
  PROVE  /\ MaxEvents \in Nat /\ events \in Nat /\ events <= MaxEvents
         /\ MaxCalls \in Nat /\ calls \in Nat /\ calls <= MaxCalls
         /\ MaxSessions \in Nat /\ session \in Nat /\ session <= MaxSessions
<1>1. events \in 0..MaxEvents /\ calls \in 0..MaxCalls /\ session \in 0..MaxSessions
  BY DEF TypeInv
<1>2. MaxEvents \in Nat /\ MaxCalls \in Nat /\ MaxSessions \in Nat
  BY ONLY DispatchAssumption DEF DispatchAssumption
<1> QED BY ONLY <1>1, <1>2, OneMore

\* Something happens that leaves the objects as they are.
LEMMA StillKeeps ==
  ASSUME DispatchInv, SilentInv', todo' \in [Workers -> Seq(Steps)],
         \A o \in Workers : todo'[o] = todo[o] \/ (todo[o] = <<>> /\ TakesUp(o)),
         events' \in Nat, events <= events', events' <= MaxEvents,
         UNCHANGED <<world, cache, known, owner, crossed, fetched, unavailable, readers, reported>>,
         UNCHANGED interactionVars, {overlap, registered}' \subseteq BOOLEAN /\ owed' \in Debts,
         gateway' \in {"UNAUTHENTICATED", "AUTHENTICATION_SENT", "READY"},
         session' \in 0..MaxSessions, calls' \in 0..MaxCalls
  PROVE  DispatchInv'
<1>1. TypeInv
  BY DEF DispatchInv
<1>2. world' \in [Objects -> [v : 1..(1 + events'), live : BOOLEAN]] /\ world'[Me].live
  <2>1. world' = world /\ world \in [Objects -> [v : 1..(1 + events), live : BOOLEAN]] /\ world[Me].live /\ events \in Nat
    BY <1>1, BoundsAre DEF TypeInv
  <2>2. \A m \in 1..(1 + events) : m \in 1..(1 + events')
    BY <2>1, OneMore
  <2> QED BY ONLY <2>1, <2>2
<1>3. TypeInv'
  BY <1>1, <1>2, OutsideTypes
<1>4. UNCHANGED <<cache, crossed, fetched, owner, readers>> /\ world' = world
  OBVIOUS
<1>5. /\ \A s \in Slots \ {AtMe} : (\A v : Right(s, v)' <=> Right(s, v)) \/ Coming(s)'
      /\ (\A v : Right(AtMe, v)' <=> Right(AtMe, v)) \/ Coming(Current)'
  BY <1>4, SameSlots
<1> QED BY <1>3, <1>4, <1>5, OutsideKeeps

\* An idle worker takes up something that is not about guilds.
LEMMA TakeKeeps ==
  ASSUME DispatchInv, NEW w \in Workers, todo[w] = <<>>, NEW q, todo' = [todo EXCEPT ![w] = q],
         q \in Seq(Steps), Good(q), Mild(q), Listless(q), \A s, v : Brings(q, s, v) => Right(s, v),
         events' \in Nat, events <= events', events' <= MaxEvents, calls' \in 0..MaxCalls,
         UNCHANGED <<world, cache, known, owner, crossed, fetched,
                     gateway, unavailable, readers, registered, session, owed, overlap, reported>>,
         UNCHANGED interactionVars
  PROVE  DispatchInv'
<1>1. TypeInv /\ SilentInv
  BY DEF DispatchInv
<1>2. /\ todo' \in [Workers -> Seq(Steps)] /\ todo'[w] = q /\ \A o \in Workers \ {w} : todo'[o] = todo[o]
  BY <1>1 DEF TypeInv
<1>3. \A s, v : Brings(todo'[w], s, v) => Right(s, v)'
  BY <1>2 DEF Right
<1>4. TakesUp(w) /\ \A op \in GuildOps : ~Has(todo'[w], op)
  BY <1>2, <1>3, MildTakesUp
<1>5. SilentInv'
  BY <1>1, <1>2, <1>4, FreshCalm
<1>6. /\ {overlap, registered}' \subseteq BOOLEAN /\ owed' \in Debts /\ session' \in 0..MaxSessions
      /\ gateway' \in {"UNAUTHENTICATED", "AUTHENTICATION_SENT", "READY"}
  BY <1>1 DEF TypeInv
<1>7. UNCHANGED <<world, cache, known, owner, crossed, fetched, unavailable, readers, reported>>
  OBVIOUS
<1> QED BY <1>2, <1>4, <1>5, <1>6, <1>7, StillKeeps

\* Somebody changes an object.
LEMMA ChangeKeeps ==
  ASSUME DispatchInv, NEW x \in Objects, NEW w \in Workers, Change(x, w), UNCHANGED interactionVars
  PROVE  DispatchInv'
<1>1. TypeInv
  BY DEF DispatchInv
<1>2. todo[w] = <<>> /\ todo \in [Workers -> Seq(Steps)] /\ calls' \in 0..MaxCalls
  BY <1>1 DEF Change, Idle, TypeInv
<1>3. \A o \in Workers \ {w} : Stays(todo[o], todo[o], x)
  BY DEF Stays
<1>4. /\ events < MaxEvents /\ events' = events + 1
      /\ UNCHANGED <<cache, known, owner, crossed, fetched, gateway, unavailable, readers, registered, session, reported>>
      /\ Make(x, w, todo) \/ Alter(x, w, todo) \/ Delete(x, w, todo)
  BY DEF Change
<1> QED BY <1>2, <1>3, <1>4, DoesKeeps

\* A dispatch about a user who did not change.
LEMMA MentionKeeps ==
  ASSUME DispatchInv, NEW u \in Users, NEW w \in Workers, Mention(u, w), UNCHANGED interactionVars
  PROVE  DispatchInv'
<1>1. TypeInv
  BY DEF DispatchInv
<1>2. /\ todo[w] = <<>> /\ events < MaxEvents /\ events' = events + 1 /\ world[u].live
      /\ UNCHANGED <<world, cache, known, owner, crossed, fetched,
                     gateway, unavailable, readers, registered, session, owed, calls, overlap, reported>>
  BY DEF Mention, Idle
<1> DEFINE v == world[u].v
<1>3. v \in Versions
  BY <1>1, WorldIs DEF Objects
<1>4. \A s : s[2] = u /\ s[1] \in {"user", "member"} => Right(s, v)
  BY <1>2 DEF Right, Lists
<1>5. PICK q : q \in {Ban(u, v), TypingStart(u, v), GuildMemberChunk(u, v)} /\ todo' = [todo EXCEPT ![w] = q]
  BY DEF Mention
<1>6. GuildMemberChunk(u, v) = MemberAdd(u, v)
  BY DEF GuildMemberChunk, MemberAdd
<1> HIDE DEF v
<1>7. /\ q \in Seq(Steps) /\ Good(q) /\ Mild(q) /\ Listless(q)
      /\ \A s, y : Brings(q, s, y) => s[2] = u /\ s[1] \in {"user", "member"} /\ y = v
  <2>1. CASE q = Ban(u, v)
    <3>1. /\ q \in Seq(Steps) /\ Good(q) /\ Mild(q) /\ Listless(q)
          /\ \A s, y : Brings(q, s, y) <=> s = <<"user", u>> /\ y = v
      BY <1>3, <2>1, MemberEventIs
    <3> QED BY <3>1
  <2>2. CASE q = TypingStart(u, v)
    BY <1>3, <2>2, TypingIs
  <2>3. CASE q = MemberAdd(u, v)
    <3>1. /\ q \in Seq(Steps) /\ Good(q) /\ Mild(q) /\ Listless(q)
          /\ \A s, y : Brings(q, s, y) <=> (s = <<"user", u>> /\ y = v) \/ (s = <<"member", u>> /\ y = v)
      BY <1>3, <2>3, MemberEventIs
    <3> QED BY <3>1
  <2> QED BY <1>5, <1>6, <2>1, <2>2, <2>3
<1>8. \A s, y : Brings(q, s, y) => Right(s, y)
  BY <1>4, <1>7
<1>9. events' \in Nat /\ events <= events' /\ events' <= MaxEvents /\ calls' \in 0..MaxCalls
  BY <1>1, <1>2, BoundsAre, OneMore DEF TypeInv
<1> QED BY <1>2, <1>5, <1>7, <1>8, <1>9, TakeKeeps

\* A thread of the program calls the API.
LEMMA CallApiKeeps ==
  ASSUME DispatchInv, NEW w \in Workers, CallApi(w), UNCHANGED interactionVars
  PROVE  DispatchInv'
<1>1. TypeInv
  BY DEF DispatchInv
<1>2. /\ todo[w] = <<>> /\ calls < MaxCalls /\ calls' = calls + 1
      /\ UNCHANGED <<world, cache, known, owner, crossed, fetched,
                     gateway, unavailable, readers, registered, session, owed, events, overlap, reported>>
  BY DEF CallApi, Idle
<1>3. PICK x \in topic : \E c \in CallsAbout(x) : todo' = [todo EXCEPT ![w] = <<c>>]
  BY DEF CallApi
<1>4. PICK c \in CallsAbout(x) : todo' = [todo EXCEPT ![w] = <<c>>]
  BY <1>3
<1> DEFINE q == <<c>>
<1>5. q \in Seq(Steps) /\ Good(q) /\ Mild(q) /\ Listless(q) /\ \A s, y : ~Brings(q, s, y)
  BY CallRow
<1>6. events' \in Nat /\ events <= events' /\ events' <= MaxEvents /\ calls' \in 0..MaxCalls
  BY <1>1, <1>2, BoundsAre, OneMore
<1>7. todo' = [todo EXCEPT ![w] = q]
  BY <1>4
<1> HIDE DEF q
<1> QED BY <1>2, <1>5, <1>6, <1>7, TakeKeeps

\* The bot changes an object itself.
LEMMA ModifyKeeps ==
  ASSUME DispatchInv, NEW x \in Objects, NEW r \in Workers, NEW w \in Workers, Modify(x, r, w), UNCHANGED interactionVars
  PROVE  DispatchInv'
<1>1. TypeInv /\ SilentInv
  BY DEF DispatchInv
<1>2. /\ r # w /\ todo[r] = <<>> /\ todo[w] = <<>>
      /\ calls < MaxCalls /\ events < MaxEvents /\ calls' = calls + 1 /\ events' = events + 1
      /\ UNCHANGED <<cache, known, owner, crossed, fetched,
                     gateway, unavailable, readers, registered, session, reported>>
  BY DEF Modify, Idle
<1> DEFINE n == world[x].v + 1
<1>3. PICK route \in RoutesAbout(x, n) : \E steps \in {<<>>, route.stores} :
             LET others == [todo EXCEPT ![r] = steps]
             IN \/ route.does = "make" /\ Make(x, w, others)
                \/ route.does = "alter" /\ Alter(x, w, others)
                \/ route.does = "delete" /\ Delete(x, w, others)
                \/ route.does = "pardon" /\ Pardon(x, w, others)
  BY DEF Modify
<1>4. PICK steps \in {<<>>, route.stores} :
             LET others == [todo EXCEPT ![r] = steps]
             IN \/ route.does = "make" /\ Make(x, w, others)
                \/ route.does = "alter" /\ Alter(x, w, others)
                \/ route.does = "delete" /\ Delete(x, w, others)
                \/ route.does = "pardon" /\ Pardon(x, w, others)
  BY <1>3
<1> DEFINE others == [todo EXCEPT ![r] = steps]
<1>5. \/ route.does = "make" /\ Make(x, w, others)
      \/ route.does = "alter" /\ Alter(x, w, others)
      \/ route.does = "delete" /\ Delete(x, w, others)
      \/ route.does = "pardon" /\ Pardon(x, w, others)
  BY <1>4
<1>6. todo \in [Workers -> Seq(Steps)] /\ world \in [Objects -> [v : 1..(1 + events), live : BOOLEAN]]
  BY <1>1 DEF TypeInv
<1>7. n \in Versions /\ n # 0
  <2>1. \A a, b \in Nat : a < b => \A m \in 1..(1 + a) : m + 1 \in 0..(1 + b) /\ m + 1 # 0
    OBVIOUS
  <2>2. events \in Nat /\ MaxEvents \in Nat /\ world[x].v \in 1..(1 + events)
    BY <1>1, <1>6, BoundsAre
  <2> QED BY <1>2, <2>1, <2>2 DEF Versions
<1> HIDE DEF n
<1>8. /\ steps \in Seq(Steps) /\ Good(steps) /\ Mild(steps) /\ Listless(steps)
      /\ \A s, y : Brings(steps, s, y) => s[2] = x /\ s[1] \notin Lists /\ y = n /\ route.does \in {"make", "alter"}
      /\ route.does = "pardon" => x \in Users
  <2>1. route \in RoutesAbout(x, n)
    BY <1>3
  <2>2. steps \in {<<>>, route.stores}
    BY <1>4
  <2>3. /\ \A q \in {<<>>, route.stores} :
              /\ q \in Seq(Steps) /\ Good(q) /\ Mild(q) /\ Listless(q)
              /\ \A s, y : Brings(q, s, y) => s[2] = x /\ s[1] \notin Lists /\ y = n /\ route.does \in {"make", "alter"}
        /\ route.does = "pardon" => x \in Users
    BY ONLY <1>7, <2>1, x \in Objects, StoresAre, SMTT(30)
  <2> QED BY ONLY <2>2, <2>3
<1>9. others \in [Workers -> Seq(Steps)] /\ others[r] = steps /\ \A o \in Workers \ {r} : others[o] = todo[o]
  BY <1>6, <1>8
<1>10. events' \in Nat /\ events <= events' /\ events' <= MaxEvents /\ calls' \in 0..MaxCalls
  BY <1>1, <1>2, BoundsAre, OneMore
<1>11. CASE route.does # "pardon"
  <2>1. Make(x, w, others) \/ Alter(x, w, others) \/ Delete(x, w, others)
    BY <1>5, <1>11
  <2>2. route.does \in {"make", "alter"} => world'[x].v = n /\ world'[x].live
    <3>1. CASE route.does = "make"
      <4>1. world' = [world EXCEPT ![x] = [v |-> world[x].v + 1, live |-> TRUE]]
        BY <1>5, <3>1 DEF Make
      <4> QED BY <1>6, <4>1 DEF n
    <3>2. CASE route.does = "alter"
      <4>1. world[x].live /\ world' = [world EXCEPT ![x].v = world[x].v + 1]
        BY <1>5, <3>2 DEF Alter
      <4> QED BY <1>6, <4>1 DEF n
    <3> QED BY <3>1, <3>2
  <2>3. Stays(todo[r], others[r], x)
    BY <1>2, <1>8, <1>9, <2>2 DEF Stays
  <2>4. \A o \in Workers \ {w} : Stays(todo[o], others[o], x)
    <3>1. \A o \in Workers \ {r} : Stays(todo[o], others[o], x)
      BY <1>9 DEF Stays
    <3> QED BY <2>3, <3>1
  <2> HIDE DEF others
  <2> QED BY <1>2, <1>9, <1>10, <2>1, <2>4, DoesKeeps
<1>12. CASE route.does = "pardon"
  <2> DEFINE q == Ban(x, world[x].v)
  <2>1. /\ x \in Users /\ todo' = [others EXCEPT ![w] = q]
        /\ UNCHANGED <<world, owed, overlap>>
    BY <1>5, <1>8, <1>12 DEF Pardon
  <2>2. world[x].v \in Versions
    BY <1>1, WorldIs
  <2>3. /\ q \in Seq(Steps) /\ Good(q) /\ Mild(q) /\ Listless(q)
        /\ \A s, y : Brings(q, s, y) <=> s = <<"user", x>> /\ y = world[x].v
    BY <2>1, <2>2, MemberEventIs
  <2> HIDE DEF q
  <2>4. Right(<<"user", x>>, world[x].v)
    BY <2>1 DEF Right, Lists, Kept
  <2>5. \A s, y : Brings(q, s, y) => Right(s, y)
    BY <2>3, <2>4
  <2>6. \A s, y : ~Brings(steps, s, y)
    BY <1>8, <1>12
  <2>7. /\ todo' \in [Workers -> Seq(Steps)] /\ todo'[w] = q /\ todo'[r] = steps
        /\ \A o \in Workers \ {w, r} : todo'[o] = todo[o]
    BY <1>2, <1>9, <2>1, <2>3
  <2>8. TakesUp(w) /\ \A op \in GuildOps : ~Has(todo'[w], op)
    <3>1. \A s, y : Brings(todo'[w], s, y) => Right(s, y)'
      BY <2>1, <2>5, <2>7 DEF Right
    <3> QED BY <2>3, <2>7, <3>1, MildTakesUp
  <2>9. TakesUp(r) /\ \A op \in GuildOps : ~Has(todo'[r], op)
    BY <1>8, <2>6, <2>7, MildTakesUp
  <2>10. SilentInv'
    BY <1>1, <1>2, <2>1, <2>7, <2>8, <2>9, FreshCalm
  <2>11. \A o \in Workers : todo'[o] = todo[o] \/ (todo[o] = <<>> /\ TakesUp(o))
    BY <1>2, <2>7, <2>8, <2>9
  <2>12. /\ {overlap, registered}' \subseteq BOOLEAN /\ owed' \in Debts /\ session' \in 0..MaxSessions
         /\ gateway' \in {"UNAUTHENTICATED", "AUTHENTICATION_SENT", "READY"}
    BY <1>1, <1>2, <2>1 DEF TypeInv
  <2>13. UNCHANGED <<world, cache, known, owner, crossed, fetched, unavailable, readers, reported>>
    BY <1>2, <2>1
  <2> QED BY <1>10, <2>7, <2>10, <2>11, <2>12, <2>13, StillKeeps
<1> QED BY <1>11, <1>12

\* A session begins.
LEMMA IdentifyKeeps ==
  ASSUME DispatchInv, NEW w \in Workers, Identify(w), UNCHANGED interactionVars
  PROVE  DispatchInv'
<1>1. TypeInv /\ SilentInv
  BY DEF DispatchInv
<1>0. PICK n \in Versions : n = world[Me].v /\ n # 0
  BY <1>1, WorldIs DEF Objects
<1> DEFINE q == Ready(n)
<1>2. /\ todo[w] = <<>> /\ session' = session + 1 /\ gateway' = "AUTHENTICATION_SENT"
      /\ session < (IF Guild \in topic THEN MaxSessions ELSE 1)
      /\ todo' = [todo EXCEPT ![w] = q] /\ owed' = (IF world[Guild].live THEN "listed" ELSE "no")
      /\ overlap' = (overlap \/ GuildHandlerRuns)
      /\ UNCHANGED <<world, cache, known, owner, crossed, fetched,
                     unavailable, readers, registered, calls, events, reported>>
  BY <1>0 DEF Identify, Idle, GuildHandlersOverlap
<1>3. n \in Versions /\ n # 0 /\ world[Guild].live \in BOOLEAN /\ world[Me].live
  BY <1>0, <1>1 DEF Objects, TypeInv
<1>4. /\ q \in Seq(Steps) /\ Good(q) /\ Announces(q)
      /\ \A op : Has(q, op) <=> op \in {"insert", "announce", "becomeReady"}
      /\ world[Guild].live => Lists1(q)
      /\ \A s, y : Brings(q, s, y) <=> (s = <<"user", Me>> /\ y = n) \/ (s = Current /\ y = n)
  BY <1>3, ReadyIs
<1> HIDE DEF q
<1>5. /\ todo' \in [Workers -> Seq(Steps)] /\ todo'[w] = q /\ \A o \in Workers \ {w} : todo'[o] = todo[o]
  BY <1>1, <1>2, <1>4 DEF TypeInv
<1>6. TakesUp(w)
  <2>1. Right(<<"user", Me>>, n)' /\ Right(Current, n)'
    BY <1>0, <1>2, <1>3 DEF Right, Lists, Current, Kept
  <2>2. \A s, y : Brings(todo'[w], s, y) => Right(s, y)'
    BY <1>4, <1>5, <2>1, SMTT(30)
  <2>3. \A op : Has(todo'[w], op) <=> op \in {"insert", "announce", "becomeReady"}
    BY <1>4, <1>5
  <2>4. \A op \in RouteOps : ~Has(todo'[w], op)
    BY ONLY <2>3 DEF RouteOps
  <2>5. \A list \in Lists : ~Has(todo'[w], StoreOp(list))
    BY ONLY <2>3 DEF StoreOp
  <2> QED BY <1>4, <1>5, <2>2, <2>4, <2>5 DEF TakesUp, Honest
<1>7. SilentInv'
  <2>0. CASE overlap'
    BY <2>0 DEF SilentInv
  <2> SUFFICES ASSUME ~overlap' PROVE SilentInv'
    BY <2>0
  <2>1. ~overlap /\ ~GuildHandlerRuns /\ ~reported
    BY <1>1, <1>2 DEF SilentInv, TypeInv
  <2>2. \A o \in Workers : \A op \in GuildOps : ~Has(todo[o], op)
    BY <1>1, <2>1 DEF GuildHandlerRuns, Has, TypeInv
  <2>3. \A op : Has(todo'[w], op) <=> op \in {"insert", "announce", "becomeReady"}
    BY <1>4, <1>5
  <2>4. \A o \in Workers : /\ ~Has(todo'[o], "created") /\ ~Has(todo'[o], "deleted") /\ ~Has(todo'[o], "forget")
                           /\ Has(todo'[o], "announce") => o = w
                           /\ Has(todo'[o], "becomeReady") => o = w
    <3>1. /\ ~Has(todo'[w], "created") /\ ~Has(todo'[w], "deleted") /\ ~Has(todo'[w], "forget")
      BY ONLY <2>3
    <3>2. {"created", "deleted", "forget", "announce", "becomeReady"} \subseteq GuildOps
      BY DEF GuildOps
    <3> QED BY <1>5, <2>2, <3>1, <3>2
  <2>5. \A o \in Workers : ~Listed(todo'[o])
    BY <2>4 DEF Listed, Has
  <2>6. Pending' => world'[Guild].live /\ \E o \in Workers : Lists1(todo'[o])
    BY <1>2, <1>4, <1>5, <2>5 DEF Pending
  <2>7. ~reported' /\ gateway' = "AUTHENTICATION_SENT" /\ Announces(todo'[w])
    BY <1>2, <1>4, <1>5, <2>1
  <2> QED BY <2>4, <2>5, <2>6, <2>7 DEF SilentInv
<1>8. /\ events' \in Nat /\ events <= events' /\ events' <= MaxEvents /\ calls' \in 0..MaxCalls
  BY <1>1, <1>2, BoundsAre, OneMore DEF TypeInv
<1>9. session' \in 0..MaxSessions
  <2>1. MaxSessions # 0
    BY ONLY DispatchAssumption DEF DispatchAssumption
  <2>2. session \in Nat /\ MaxSessions \in Nat /\ session < (IF Guild \in topic THEN MaxSessions ELSE 1) /\ session' = session + 1
    BY <1>1, <1>2, BoundsAre
  <2> QED BY ONLY <2>1, <2>2
<1>10. /\ {overlap, registered}' \subseteq BOOLEAN /\ owed' \in Debts
       /\ gateway' \in {"UNAUTHENTICATED", "AUTHENTICATION_SENT", "READY"}
  BY <1>1, <1>2, <1>3 DEF TypeInv, GuildHandlerRuns, Debts
<1>11. UNCHANGED <<world, cache, known, owner, crossed, fetched, unavailable, readers, reported>>
  BY <1>2
<1> QED BY <1>2, <1>5, <1>6, <1>7, <1>8, <1>9, <1>10, <1>11, StillKeeps

\* GUILD_CREATE of a guild that READY listed, or whose outage is over.
LEMMA SendGuildKeeps ==
  ASSUME DispatchInv, NEW w \in Workers, SendGuild(w), UNCHANGED interactionVars
  PROVE  DispatchInv'
<1>1. TypeInv /\ SilentInv
  BY DEF DispatchInv
<1>0. PICK n \in Versions : n = world[Guild].v /\ n # 0
  BY <1>1, WorldIs DEF Objects
<1>2. PICK yes \in BOOLEAN : yes = (owed = "listed")
  OBVIOUS
<1> DEFINE q == GuildAvailable(n, yes)
<1>3. /\ owed # "no" /\ todo[w] = <<>> /\ owed' = "no"
      /\ todo' = [todo EXCEPT ![w] = q]
      /\ UNCHANGED <<world, cache, known, owner, crossed, fetched, gateway,
                     unavailable, readers, registered, session, calls, events, overlap, reported>>
  BY <1>0, <1>2 DEF SendGuild, GuildCreate, Idle
<1>4. /\ q \in Seq(Steps) /\ Before(q, "awaitReady", "created") /\ (Listed(q) => yes)
      /\ \A op : Has(q, op) <=> op \in {"awaitReady", "storeGuildRoles", "insert", "created"}
  BY <1>1, GuildAvailableIs
<1>5. /\ todo' \in [Workers -> Seq(Steps)] /\ todo'[w] = q /\ \A o \in Workers \ {w} : todo'[o] = todo[o]
  BY <1>1, <1>3, <1>4 DEF TypeInv
<1>6. TakesUp(w)
  <2>1. \E listed \in BOOLEAN : todo'[w] = GuildAvailable(n, listed)
    BY <1>5
  <2>2. world'[Guild].v = n /\ \A r \in Roles : world'[r] = world[r]
    BY <1>0, <1>3
  <2> QED BY <1>0, <1>1, <2>1, <2>2, GuildIs
<1> HIDE DEF q
<1>7. SilentInv'
  <2>0. CASE overlap
    BY <1>3, <2>0 DEF SilentInv
  <2> SUFFICES ASSUME ~overlap PROVE SilentInv'
    BY <2>0
  <2>1. /\ ~reported /\ \A o \in Workers : ~Listed(todo[o])
        /\ owed = "listed" =>
              /\ world[Guild].live /\ \A o \in Workers : ~Has(todo[o], "created")
              /\ \A o \in Workers : ~Has(todo[o], "deleted") /\ ~Has(todo[o], "forget")
              /\ unavailable \/ \E o \in Workers : Lists1(todo[o])
        /\ \A o \in Workers : Has(todo[o], "announce") =>
              /\ gateway = "AUTHENTICATION_SENT" /\ Announces(todo[o])
              /\ \A v \in Workers : Has(todo[v], "becomeReady") => v = o
    BY <1>1, <1>3 DEF SilentInv, Pending
  <2>2. /\ ~Has(todo'[w], "deleted") /\ ~Has(todo'[w], "forget")
        /\ ~Has(todo'[w], "announce") /\ ~Has(todo'[w], "becomeReady")
    <3>1. \A op : Has(todo'[w], op) <=> op \in {"awaitReady", "storeGuildRoles", "insert", "created"}
      BY <1>4, <1>5
    <3> QED BY ONLY <3>1
  <2>3. \A o \in Workers : Listed(todo'[o]) =>
           /\ o = w /\ owed = "listed"
           /\ \A v \in Workers : Has(todo'[v], "created") => v = w
    <3>1. \A o \in Workers : Listed(todo'[o]) => o = w /\ yes
      BY <1>4, <1>5, <2>1
    <3> QED BY <1>2, <1>5, <2>1, <3>1
  <2>4. owed = "listed" => \A o \in Workers : ~Has(todo'[o], "deleted") /\ ~Has(todo'[o], "forget")
    BY <1>5, <2>1, <2>2
  <2>5. owed = "listed" => unavailable' \/ \E o \in Workers : Lists1(todo'[o])
    <3>1. ~Lists1(todo[w])
      BY <1>3 DEF Lists1
    <3> QED BY <1>3, <1>5, <2>1, <3>1
  <2>6. ASSUME NEW o \in Workers, Has(todo'[o], "announce")
        PROVE  /\ gateway' = "AUTHENTICATION_SENT" /\ Announces(todo'[o])
               /\ \A v \in Workers : Has(todo'[v], "becomeReady") => v = o
               /\ \A v \in Workers : Listed(todo'[v]) => Before(todo'[v], "awaitReady", "created")
    BY <1>3, <1>4, <1>5, <2>1, <2>2, <2>3, <2>6
  <2>7. ~reported' /\ owed' = "no" /\ (owed = "listed" => world'[Guild].live)
    BY <1>3, <2>1
  <2>8. Pending' => owed = "listed"
    BY <2>3, <2>7 DEF Pending
  <2> QED BY <2>3, <2>4, <2>5, <2>6, <2>7, <2>8 DEF SilentInv
<1>8. events' \in Nat /\ events <= events' /\ events' <= MaxEvents
  BY <1>1, <1>3, BoundsAre, OneMore
<1>9. /\ {overlap, registered}' \subseteq BOOLEAN /\ owed' \in Debts
      /\ gateway' \in {"UNAUTHENTICATED", "AUTHENTICATION_SENT", "READY"}
      /\ session' \in 0..MaxSessions /\ calls' \in 0..MaxCalls
  BY <1>1, <1>3 DEF TypeInv, Debts
<1>10. UNCHANGED <<world, cache, known, owner, crossed, fetched, unavailable, readers, reported>>
  BY <1>3
<1>11. \A o \in Workers : todo'[o] = todo[o] \/ (todo[o] = <<>> /\ TakesUp(o))
  BY <1>3, <1>5, <1>6
<1> QED BY <1>5, <1>7, <1>8, <1>9, <1>10, <1>11, StillKeeps

\* A guild has an outage.
LEMMA OutageKeeps ==
  ASSUME DispatchInv, NEW w \in Workers, Outage(w), UNCHANGED interactionVars
  PROVE  DispatchInv'
<1>1. TypeInv /\ SilentInv
  BY DEF DispatchInv
<1>2. /\ todo[w] = <<>> /\ owed' = "returning" /\ overlap' = (overlap \/ GuildHandlerRuns)
      /\ todo' = [todo EXCEPT ![w] = GuildDelete]
      /\ events < MaxEvents /\ events' = events + 1
      /\ UNCHANGED <<world, cache, known, owner, crossed, fetched, gateway,
                     unavailable, readers, registered, session, calls, reported>>
  BY DEF Outage, Idle, GuildCreate, GuildHandlersOverlap
<1>3. /\ GuildDelete \in Seq(Steps) /\ Good(GuildDelete) /\ \A s, y : ~Brings(GuildDelete, s, y)
      /\ \A op : Has(GuildDelete, op) <=> op \in {"awaitReady", "deleted"}
  BY GuildDeleteIs
<1>4. /\ todo' \in [Workers -> Seq(Steps)] /\ todo'[w] = GuildDelete
      /\ \A o \in Workers \ {w} : todo'[o] = todo[o]
  BY <1>1, <1>2, <1>3 DEF TypeInv
<1>5. TakesUp(w)
  <2>1. \A op : Has(todo'[w], op) <=> op \in {"awaitReady", "deleted"}
    BY <1>3, <1>4
  <2>2. \A op \in RouteOps : ~Has(todo'[w], op)
    BY ONLY <2>1 DEF RouteOps
  <2>3. \A list \in Lists : ~Has(todo'[w], StoreOp(list))
    BY ONLY <2>1 DEF StoreOp
  <2>4. Honest(todo[w])'
    BY <1>3, <1>4, <2>3 DEF Honest
  <2> QED BY <1>3, <1>4, <2>2, <2>4 DEF TakesUp
<1>6. SilentInv'
  <2>1. todo \in [Workers -> Seq(Steps)] /\ overlap \in BOOLEAN
    BY <1>1 DEF TypeInv
  <2> QED BY <1>1, <1>2, <1>4, <2>1, GuildEnds
<1>7. events' \in Nat /\ events <= events' /\ events' <= MaxEvents
  BY <1>1, <1>2, BoundsAre, OneMore
<1>8. /\ {overlap, registered}' \subseteq BOOLEAN /\ owed' \in Debts
      /\ gateway' \in {"UNAUTHENTICATED", "AUTHENTICATION_SENT", "READY"}
      /\ session' \in 0..MaxSessions /\ calls' \in 0..MaxCalls
  BY <1>1, <1>2 DEF TypeInv, GuildHandlerRuns, Debts
<1>9. UNCHANGED <<world, cache, known, owner, crossed, fetched, unavailable, readers, reported>>
  BY <1>2
<1>10. \A o \in Workers : todo'[o] = todo[o] \/ (todo[o] = <<>> /\ TakesUp(o))
  BY <1>2, <1>4, <1>5
<1> QED BY <1>4, <1>6, <1>7, <1>8, <1>9, <1>10, StillKeeps

\* The connection comes and goes, and no READY is on its way then.
LEMMA ConnectionKeeps ==
  ASSUME DispatchInv, Disconnect \/ Resumed \/ Register, UNCHANGED interactionVars
  PROVE  DispatchInv'
<1>1. TypeInv /\ SilentInv
  BY DEF DispatchInv
<1>2. /\ UNCHANGED <<world, cache, known, owner, crossed, fetched, unavailable, readers, reported>>
      /\ UNCHANGED <<todo, owed, overlap, session, calls>>
      /\ registered' \in BOOLEAN /\ gateway' \in {"UNAUTHENTICATED", "AUTHENTICATION_SENT", "READY"}
      /\ events' = events \/ (events < MaxEvents /\ events' = events + 1)
      /\ gateway' = gateway \/ gateway # "AUTHENTICATION_SENT"
  BY <1>1 DEF Disconnect, Resumed, Register, cacheVars, TypeInv
<1>3. events' \in Nat /\ events <= events' /\ events' <= MaxEvents
  BY <1>1, <1>2, BoundsAre, OneMore
<1>4. SilentInv'
  <2>1. CASE gateway' = gateway
    BY <1>1, <1>2, <2>1 DEF SilentInv, Pending
  <2>2. CASE gateway # "AUTHENTICATION_SENT"
    BY <1>1, <1>2, <2>2 DEF SilentInv, Pending
  <2> QED BY <1>2, <2>1, <2>2
<1>5. /\ todo' \in [Workers -> Seq(Steps)] /\ \A o \in Workers : todo'[o] = todo[o]
      /\ {overlap, registered}' \subseteq BOOLEAN /\ owed' \in Debts /\ session' \in 0..MaxSessions /\ calls' \in 0..MaxCalls
  BY <1>1, <1>2 DEF TypeInv
<1> QED BY <1>2, <1>3, <1>4, <1>5, StillKeeps

\* The TTL of an entry ends.
LEMMA AgeKeeps ==
  ASSUME DispatchInv, NEW s \in Slots, Age(s), UNCHANGED interactionVars
  PROVE  DispatchInv'
<1>1. TypeInv /\ GoodInv /\ LockInv /\ CacheInv /\ SilentInv /\ ArriveInv
  BY DEF DispatchInv
<1>2. /\ events < MaxEvents /\ events' = events + 1
      /\ s[1] \notin Lists \union {"current"}
      /\ cache' = [cache EXCEPT ![s] = 0]
      /\ crossed' = IF Carried(s) = {} THEN crossed \ {s} ELSE crossed
      /\ UNCHANGED <<world, known, owner, todo, fetched, gateway, unavailable, readers, registered,
                     session, owed, calls, overlap, reported>>
  BY DEF Age, Expire
<1>3. events' \in Nat /\ events \in Nat /\ events <= events' /\ events' <= MaxEvents /\ events' \in 0..MaxEvents
      /\ MaxEvents \in Nat
  BY <1>1, <1>2, BoundsAre, OneMore
<1>4. TypeInv'
  <2>1. 0 \in Versions
    BY <1>3 DEF Versions
  <2>2. \A m \in 1..(1 + events) : m \in 1..(1 + events')
    BY <1>3, OneMore
  <2>3. world' \in [Objects -> [v : 1..(1 + events'), live : BOOLEAN]] /\ world'[Me].live /\ made' \in 1..(1 + events')
    BY <1>1, <1>2, <2>2 DEF TypeInv, interactionVars
  <2>4. cache' \in [Slots -> Versions] /\ crossed' \subseteq Slots
    BY <1>1, <1>2, <2>1 DEF TypeInv
  <2>5. /\ owner' \in [Mutexes -> Workers \union {NoOne}] /\ todo' \in [Workers -> Seq(Steps)]
        /\ {known, unavailable, registered, overlap, reported, crashed, astray}' \subseteq BOOLEAN /\ owed' \in Debts
        /\ table' \in [Kinds -> 0..made' \union {Null}]
        /\ routes' \in [Workers -> [kind : Kinds, meant : 0..made' \union {Null}, changed : BOOLEAN]]
        /\ fetched' \subseteq Lists /\ readers' \subseteq Workers
        /\ gateway' \in {"UNAUTHENTICATED", "AUTHENTICATION_SENT", "READY"}
        /\ session' \in 0..MaxSessions /\ calls' \in 0..MaxCalls
    BY <1>1, <1>2 DEF TypeInv, interactionVars
  <2> QED BY <1>3, <2>3, <2>4, <2>5 DEF TypeInv
<1>5. GoodInv' /\ LockInv'
  BY <1>1, <1>2 DEF GoodInv, LockInv
<1>6. SilentInv' /\ ArriveInv'
  BY <1>1, <1>2 DEF SilentInv, Pending, ArriveInv, Handles, interactionVars
<1>7. \A t : (Coming(t)' <=> Coming(t)) /\ (Mistaken(t)' <=> Mistaken(t)) /\ \A v : Right(t, v)' <=> Right(t, v)
  BY <1>2 DEF Coming, Mistaken, Right
<1>8. \A list : Told(list)' <=> Told(list)
  BY <1>2 DEF Told
<1>9. /\ cache'[s] = 0 /\ \A t \in Slots \ {s} : cache'[t] = cache[t]
      /\ \A t \in Slots \ {s} : t \in crossed' <=> t \in crossed
      /\ Right(s, 0) /\ s # Current
  BY <1>1, <1>2 DEF TypeInv, Right, Current
<1>10. s \notin crossed' => s \notin crossed \/ ~Mistaken(s)
  <2> SUFFICES ASSUME s \notin crossed', s \in crossed PROVE ~Mistaken(s)
    OBVIOUS
  <2>1. Carried(s) = {}
    BY <1>2
  <2> SUFFICES ASSUME NEW o \in Workers, NEW v \in Versions, Brings(todo[o], s, v) PROVE FALSE
    BY DEF Mistaken
  <2>2. <<s, v>> \in Carries(o)
    BY <1>1, CarriesIs DEF Brings
  <2>3. v \in Carried(s)
    BY <2>2 DEF Carried
  <2> QED BY <2>1, <2>3
<1>11. ASSUME NEW t \in Slots \ {AtMe} PROVE SlotInv(t)'
  <2>1. SlotInv(t)
    BY <1>1 DEF CacheInv
  <2>2. CASE t = s
    BY <1>7, <1>9, <1>10, <2>1, <2>2 DEF SlotInv
  <2>3. CASE t # s
    BY <1>7, <1>8, <1>9, <2>1, <2>3 DEF SlotInv, Needed
  <2> QED BY <2>2, <2>3
<1>12. MeInv'
  <2>1. MeInv /\ Current \in Slots /\ AtMe \in Slots
    BY <1>1, SlotsAre DEF CacheInv
  <2>2. cache'[Current] = cache[Current]
    BY <1>9, <2>1
  <2>3. Right(AtMe, cache[AtMe]) => Right(AtMe, cache'[AtMe])
    BY <1>9, <2>1
  <2> QED BY <1>7, <2>1, <2>2, <2>3 DEF MeInv
<1> QED BY <1>4, <1>5, <1>6, <1>11, <1>12 DEF DispatchInv, CacheInv

\* An interaction arrives.
LEMMA InteractKeeps ==
  ASSUME DispatchInv, NEW u \in Users, NEW w \in Workers, Interact(u, w)
  PROVE  DispatchInv'
<1>1. TypeInv /\ GoodInv /\ LockInv /\ CacheInv /\ SilentInv /\ ArriveInv
  BY DEF DispatchInv
<1>0. PICK v \in Versions : v = world[u].v /\ world[u].live
  BY <1>1, WorldIs DEF Objects, Interact
<1>2. /\ todo[w] = <<>> /\ events < MaxEvents /\ events' = events + 1
      /\ UNCHANGED <<world, cache, known, owner, crossed, fetched, table, made, crashed, astray,
                     gateway, unavailable, readers, registered, session, owed, calls, overlap, reported>>
  BY DEF Interact, Idle
<1>3. PICK member \in BOOLEAN : todo' = [todo EXCEPT ![w] = Interaction(u, v, member)]
  BY <1>0 DEF Interact
<1>4. PICK kind \in Kinds : routes' = [routes EXCEPT ![w] = [kind |-> kind, meant |-> table[kind], changed |-> FALSE]]
  BY DEF Interact, Arrives
<1> DEFINE q == Interaction(u, v, member)
<1>5. /\ q \in Seq(Steps) /\ Good(q) /\ RoutesOnce(q) /\ ~Has(q, "handler") /\ Listless(q)
      /\ \A op \in GuildOps : ~Has(q, op)
      /\ \A s, y : Brings(q, s, y) => s[2] = u /\ s[1] \in {"user", "member"} /\ y = v
  BY InteractionIs
<1>6. /\ todo' \in [Workers -> Seq(Steps)] /\ todo'[w] = q /\ \A o \in Workers \ {w} : todo'[o] = todo[o]
  BY <1>1, <1>3, <1>5 DEF TypeInv
<1> HIDE DEF q
<1>7. Fresh
  <2>1. \A s : s[2] = u /\ s[1] \in {"user", "member"} => Right(s, v)'
    BY <1>0, <1>2 DEF Right, Lists
  <2>2. Honest(todo[w])'
    BY <1>5, <1>6, <2>1 DEF Honest, Listless
  <2> QED BY <1>2, <1>5, <1>6, <2>2 DEF Fresh
<1>8. GoodInv' /\ LockInv'
  BY <1>1, <1>2, <1>7, FreshGood
<1>9. CacheInv'
  <2>1. \A x \in Objects : world'[x].live \in BOOLEAN
    BY <1>1, <1>2 DEF TypeInv
  <2>2. /\ \A s \in Slots \ {AtMe} : (\A y : Right(s, y)' <=> Right(s, y)) \/ Coming(s)'
        /\ (\A y : Right(AtMe, y)' <=> Right(AtMe, y)) \/ Coming(Current)'
    BY <1>2, SameSlots
  <2> QED BY <1>1, <1>2, <1>7, <2>1, <2>2, FreshCaches
<1>10. SilentInv'
  BY <1>1, <1>2, <1>5, <1>6, FreshCalm
<1>11. events' \in Nat /\ events \in Nat /\ events <= events' /\ events' <= MaxEvents /\ events' \in 0..MaxEvents
  BY <1>1, <1>2, BoundsAre, OneMore
<1>12. TypeInv'
  <2>1. \A m \in 1..(1 + events) : m \in 1..(1 + events')
    BY <1>11, OneMore
  <2>2. world' \in [Objects -> [v : 1..(1 + events'), live : BOOLEAN]] /\ world'[Me].live /\ made' \in 1..(1 + events')
    BY <1>1, <1>2, <2>1 DEF TypeInv
  <2>3. routes' \in [Workers -> [kind : Kinds, meant : 0..made' \union {Null}, changed : BOOLEAN]]
    <3>1. table[kind] \in 0..made \union {Null}
      BY <1>1 DEF TypeInv
    <3> QED BY <1>1, <1>2, <1>4, <3>1 DEF TypeInv
  <2>4. /\ cache' \in [Slots -> Versions] /\ crossed' \subseteq Slots
        /\ owner' \in [Mutexes -> Workers \union {NoOne}]
        /\ {known, unavailable, registered, overlap, reported, crashed, astray}' \subseteq BOOLEAN /\ owed' \in Debts
        /\ table' \in [Kinds -> 0..made' \union {Null}]
        /\ fetched' \subseteq Lists /\ readers' \subseteq Workers
        /\ gateway' \in {"UNAUTHENTICATED", "AUTHENTICATION_SENT", "READY"}
        /\ session' \in 0..MaxSessions /\ calls' \in 0..MaxCalls
    BY <1>1, <1>2 DEF TypeInv
  <2> QED BY <1>6, <1>11, <2>2, <2>3, <2>4 DEF TypeInv
<1>13. ArriveInv'
  <2>1. /\ routes'[w] = [kind |-> kind, meant |-> table[kind], changed |-> FALSE]
        /\ \A o \in Workers \ {w} : routes'[o] = routes[o]
    BY <1>1, <1>4 DEF TypeInv
  <2>2. ~astray' /\ \A o \in Workers : RoutesOnce(todo'[o])
    BY <1>1, <1>2, <1>5, <1>6 DEF ArriveInv
  <2>3. ASSUME ~crashed'
        PROVE  /\ \A k \in Kinds : table'[k] # Null
               /\ \A o \in Workers : Handles(o)' =>
                     LET r == routes'[o]
                     IN /\ r.kind = "command" /\ ~r.changed =>
                               r.meant = table'["command"] /\ (Has(todo'[o], "handler") => r.meant # None)
                        /\ r.kind = "component" /\ r.meant # None => r.meant = table'["component"]
    <3>1. \A k \in Kinds : table'[k] # Null
      BY <1>1, <1>2, <2>3 DEF ArriveInv
    <3>2. ASSUME NEW o \in Workers, Handles(o)'
          PROVE  LET r == routes'[o]
                 IN /\ r.kind = "command" /\ ~r.changed =>
                           r.meant = table'["command"] /\ (Has(todo'[o], "handler") => r.meant # None)
                    /\ r.kind = "component" /\ r.meant # None => r.meant = table'["component"]
      <4>1. CASE o = w
        BY <1>2, <1>5, <1>6, <2>1, <4>1
      <4>2. CASE o # w
        <5>1. routes'[o] = routes[o] /\ todo'[o] = todo[o] /\ Handles(o)
          BY <1>6, <2>1, <3>2, <4>2 DEF Handles
        <5> QED BY <1>1, <1>2, <2>3, <5>1 DEF ArriveInv
      <4> QED BY <4>1, <4>2
    <3> QED BY <3>1, <3>2
  <2> QED BY <2>2, <2>3 DEF ArriveInv
<1> QED BY <1>8, <1>9, <1>10, <1>12, <1>13 DEF DispatchInv

\* Entering a handler.
LEMMA EnterIs ==
  ASSUME TypeInv, NEW kind \in Kinds, NEW entry, Enter(kind, entry)
  PROVE  /\ table'[kind] = entry /\ \A k \in Kinds \ {kind} : table'[k] = table[k]
         /\ \A o \in Workers : /\ routes'[o].kind = routes[o].kind /\ routes'[o].meant = routes[o].meant
                               /\ routes'[o].changed <=> routes[o].changed \/ routes[o].kind = kind
         /\ entry \in Nat /\ entry <= made' /\ made' \in Nat /\ made <= made' =>
               /\ table' \in [Kinds -> 0..made' \union {Null}]
               /\ routes' \in [Workers -> [kind : Kinds, meant : 0..made' \union {Null}, changed : BOOLEAN]]
<1>1. /\ table \in [Kinds -> 0..made \union {Null}] /\ made \in 1..(1 + events) /\ events \in Nat
      /\ routes \in [Workers -> [kind : Kinds, meant : 0..made \union {Null}, changed : BOOLEAN]]
  BY BoundsAre DEF TypeInv
<1>2. /\ table' = [table EXCEPT ![kind] = entry]
      /\ routes' = [o \in Workers |-> [routes[o] EXCEPT !.changed = routes[o].changed \/ routes[o].kind = kind]]
  BY DEF Enter
<1>3. \A o \in Workers :
        [routes[o] EXCEPT !.changed = routes[o].changed \/ routes[o].kind = kind]
           = [kind |-> routes[o].kind, meant |-> routes[o].meant, changed |-> routes[o].changed \/ routes[o].kind = kind]
  <2>1. \A r \in [kind : Kinds, meant : 0..made \union {Null}, changed : BOOLEAN] :
           \A c : [r EXCEPT !.changed = c] = [kind |-> r.kind, meant |-> r.meant, changed |-> c]
    OBVIOUS
  <2> QED BY <1>1, <2>1
<1>4. \A o \in Workers :
        routes'[o] = [kind |-> routes[o].kind, meant |-> routes[o].meant, changed |-> routes[o].changed \/ routes[o].kind = kind]
  BY <1>2, <1>3
<1>5. ASSUME entry \in Nat, entry <= made', made' \in Nat, made <= made'
      PROVE  /\ table' \in [Kinds -> 0..made' \union {Null}]
             /\ routes' \in [Workers -> [kind : Kinds, meant : 0..made' \union {Null}, changed : BOOLEAN]]
  <2>1. \A m \in 0..made \union {Null} : m \in 0..made' \union {Null}
    BY <1>1, <1>5
  <2>2. entry \in 0..made' \union {Null}
    BY <1>5
  <2>3. \A o \in Workers : routes'[o] \in [kind : Kinds, meant : 0..made' \union {Null}, changed : BOOLEAN]
    <3> SUFFICES ASSUME NEW o \in Workers
                 PROVE  routes'[o] \in [kind : Kinds, meant : 0..made' \union {Null}, changed : BOOLEAN]
      OBVIOUS
    <3>1. routes[o].kind \in Kinds /\ routes[o].meant \in 0..made' \union {Null}
      BY <1>1, <2>1
    <3>2. PICK c \in BOOLEAN : c = (routes[o].changed \/ routes[o].kind = kind)
      OBVIOUS
    <3>3. routes'[o] = [kind |-> routes[o].kind, meant |-> routes[o].meant, changed |-> c]
      BY <1>4, <3>2
    <3> QED BY ONLY <3>1, <3>2, <3>3
  <2> QED BY <1>1, <1>2, <2>1, <2>2, <2>3
<1> QED BY <1>1, <1>2, <1>4, <1>5, ZenonT(60)

\* The program adds or removes a handler.
LEMMA HandlersChangeKeeps ==
  ASSUME DispatchInv, HandlersChange
  PROVE  DispatchInv'
<1>1. TypeInv /\ GoodInv /\ LockInv /\ CacheInv /\ SilentInv /\ ArriveInv
  BY DEF DispatchInv
<1>2. /\ events < MaxEvents /\ events' = events + 1 /\ UNCHANGED <<crashed, astray>>
      /\ UNCHANGED <<world, cache, known, owner, todo, crossed, fetched, gateway, unavailable, readers, registered,
                     session, owed, calls, overlap, reported>>
      /\ AddCommandHandler \/ RemoveCommandHandler \/ AddInteractionCallback
  BY DEF HandlersChange, cacheVars, AddCommandHandler, RemoveCommandHandler, AddInteractionCallback
<1>3. /\ events' \in Nat /\ events \in Nat /\ events <= events' /\ events' <= MaxEvents /\ events' \in 0..MaxEvents
      /\ made \in Nat /\ made \in 1..(1 + events)
  <2>1. made \in 1..(1 + events)
    BY <1>1 DEF TypeInv
  <2> QED BY <1>1, <1>2, <2>1, BoundsAre, OneMore
<1>4. /\ table \in [Kinds -> 0..made \union {Null}]
      /\ routes \in [Workers -> [kind : Kinds, meant : 0..made \union {Null}, changed : BOOLEAN]]
      /\ "command" \in Kinds /\ "component" \in Kinds
  BY <1>1 DEF TypeInv, Kinds
<1>5. /\ made' \in 1..(1 + events') /\ table' \in [Kinds -> 0..made' \union {Null}]
      /\ routes' \in [Workers -> [kind : Kinds, meant : 0..made' \union {Null}, changed : BOOLEAN]]
      /\ \/ table' = table /\ routes' = routes
         \/ \E kind \in Kinds : /\ kind = "component" => table[kind] = None
                                /\ table'[kind] # Null /\ \A k \in Kinds \ {kind} : table'[k] = table[k]
                                /\ \A o \in Workers : /\ routes'[o].kind = routes[o].kind
                                                      /\ routes'[o].meant = routes[o].meant
                                                      /\ routes'[o].changed <=> routes[o].changed \/ routes[o].kind = kind
  <2>1. /\ made + 1 \in Nat /\ made + 1 <= made + 1 /\ made <= made + 1 /\ made + 1 \in 1..(1 + events')
        /\ made \in 1..(1 + events') /\ 0 <= made /\ 0 \in Nat /\ made <= made
    BY <1>2, <1>3
  <2>2. CASE AddCommandHandler
    <3>1. made' = made + 1 /\ Enter("command", made')
      BY <2>2 DEF AddCommandHandler
    <3>2. made' # Null
      BY <2>1, <3>1, NullAssumption DEF NullAssumption
    <3> QED BY <1>1, <1>4, <2>1, <3>1, <3>2, EnterIs
  <2>3. CASE RemoveCommandHandler
    <3>1. made' = made
      BY <2>3 DEF RemoveCommandHandler
    <3>2. PICK no \in Nat : no = 0
      OBVIOUS
    <3>3. Enter("command", no)
      BY <2>3, <3>2 DEF RemoveCommandHandler, None
    <3>4. no # Null
      BY NullAssumption DEF NullAssumption
    <3>5. made' \in Nat /\ made <= made' /\ made' \in 1..(1 + events')
      BY <1>3, <2>1, <3>1
    <3>6. no <= made'
      BY <1>3, <3>1, <3>2
    <3>7. /\ table'["command"] = no /\ \A k \in Kinds \ {"command"} : table'[k] = table[k]
          /\ \A o \in Workers : /\ routes'[o].kind = routes[o].kind /\ routes'[o].meant = routes[o].meant
                                /\ routes'[o].changed <=> routes[o].changed \/ routes[o].kind = "command"
          /\ table' \in [Kinds -> 0..made' \union {Null}]
          /\ routes' \in [Workers -> [kind : Kinds, meant : 0..made' \union {Null}, changed : BOOLEAN]]
      BY <1>1, <1>4, <3>3, <3>2, <3>5, <3>6, EnterIs
    <3>8. "command" \in Kinds /\ "command" # "component" /\ table'["command"] # Null
      BY <1>4, <3>4, <3>7
    <3> QED BY ONLY <3>5, <3>7, <3>8
  <2>4. CASE AddInteractionCallback
    <3>1. made' = made + 1 /\ IF table["component"] = None THEN Enter("component", made') ELSE UNCHANGED <<table, routes>>
      BY <2>4 DEF AddInteractionCallback
    <3>2. made' # Null
      BY <2>1, <3>1, NullAssumption DEF NullAssumption
    <3>3. CASE table["component"] = None
      <4>1. Enter("component", made')
        BY <3>1, <3>3
      <4> QED BY <1>1, <1>4, <2>1, <3>1, <3>2, <3>3, <4>1, EnterIs
    <3>4. CASE table["component"] # None
      <4>1. UNCHANGED <<table, routes>>
        BY <3>1, <3>4
      <4>2. \A m \in 0..made \union {Null} : m \in 0..(made + 1) \union {Null}
        BY <1>3
      <4> QED BY <1>4, <2>1, <3>1, <4>1, <4>2
    <3> QED BY <3>3, <3>4
  <2> QED BY <1>2, <2>2, <2>3, <2>4
<1>6. TypeInv'
  <2>1. \A m \in 1..(1 + events) : m \in 1..(1 + events')
    BY <1>3, OneMore
  <2>2. world' \in [Objects -> [v : 1..(1 + events'), live : BOOLEAN]] /\ world'[Me].live
    BY <1>1, <1>2, <2>1 DEF TypeInv
  <2>3. /\ cache' \in [Slots -> Versions] /\ crossed' \subseteq Slots /\ todo' \in [Workers -> Seq(Steps)]
        /\ owner' \in [Mutexes -> Workers \union {NoOne}]
        /\ {known, unavailable, registered, overlap, reported, crashed, astray}' \subseteq BOOLEAN /\ owed' \in Debts
        /\ fetched' \subseteq Lists /\ readers' \subseteq Workers
        /\ gateway' \in {"UNAUTHENTICATED", "AUTHENTICATION_SENT", "READY"}
        /\ session' \in 0..MaxSessions /\ calls' \in 0..MaxCalls
    BY <1>1, <1>2 DEF TypeInv
  <2> QED BY <1>3, <1>5, <2>2, <2>3 DEF TypeInv
<1>7. GoodInv' /\ LockInv'
  BY <1>1, <1>2 DEF GoodInv, LockInv
<1>8. CacheInv'
  <2>1. \A t : (Coming(t)' <=> Coming(t)) /\ (Mistaken(t)' <=> Mistaken(t)) /\ \A v : Right(t, v)' <=> Right(t, v)
    BY <1>2 DEF Coming, Mistaken, Right
  <2>2. \A list : Told(list)' <=> Told(list)
    BY <1>2 DEF Told
  <2>3. \A t \in Slots \ {AtMe} : SlotInv(t)'
    BY <1>1, <1>2, <2>1, <2>2 DEF CacheInv, SlotInv, Needed
  <2>4. MeInv'
    BY <1>1, <1>2, <2>1 DEF CacheInv, MeInv
  <2> QED BY <2>3, <2>4 DEF CacheInv
<1>9. SilentInv'
  BY <1>1, <1>2 DEF SilentInv, Pending
<1>10. ArriveInv'
  <2>1. ~astray' /\ \A o \in Workers : RoutesOnce(todo'[o]) /\ (Handles(o)' <=> Handles(o)) /\ todo'[o] = todo[o]
    BY <1>1, <1>2 DEF ArriveInv, Handles
  <2>2. CASE table' = table /\ routes' = routes
    BY <1>1, <1>2, <2>1, <2>2 DEF ArriveInv
  <2>3. CASE ~(table' = table /\ routes' = routes)
    <3>1. PICK kind \in Kinds : /\ kind = "component" => table[kind] = None
                                /\ table'[kind] # Null /\ \A k \in Kinds \ {kind} : table'[k] = table[k]
                                /\ \A o \in Workers : /\ routes'[o].kind = routes[o].kind
                                                      /\ routes'[o].meant = routes[o].meant
                                                      /\ routes'[o].changed <=> routes[o].changed \/ routes[o].kind = kind
      BY <1>5, <2>3
    <3>2. ASSUME ~crashed'
          PROVE  \A k \in Kinds : table'[k] # Null
      BY <1>1, <1>2, <3>1, <3>2 DEF ArriveInv
    <3>3. ASSUME ~crashed', NEW o \in Workers, Handles(o)'
          PROVE  /\ routes'[o].kind = "command" /\ ~routes'[o].changed =>
                        routes'[o].meant = table'["command"] /\ (Has(todo'[o], "handler") => routes'[o].meant # None)
                 /\ routes'[o].kind = "component" /\ routes'[o].meant # None => routes'[o].meant = table'["component"]
      <4>1. /\ routes[o].kind = "command" /\ ~routes[o].changed =>
                   routes[o].meant = table["command"] /\ (Has(todo[o], "handler") => routes[o].meant # None)
            /\ routes[o].kind = "component" /\ routes[o].meant # None => routes[o].meant = table["component"]
        BY <1>1, <1>2, <2>1, <3>3 DEF ArriveInv
      <4>2. kind = "command" \/ kind = "component"
        BY DEF Kinds
      <4> QED BY <1>4, <2>1, <3>1, <4>1, <4>2
    <3> QED BY <2>1, <3>2, <3>3 DEF ArriveInv
  <2> QED BY <2>2, <2>3
<1> QED BY <1>6, <1>7, <1>8, <1>9, <1>10 DEF DispatchInv

-----------------------------------------------------------------------------
(* The theorems                                                            *)

\* Nothing has happened yet.
LEMMA InitGood ==
  ASSUME Init
  PROVE  DispatchInv
<1>1. /\ world = [x \in Objects |-> [v |-> 1, live |-> x \in Born]]
      /\ cache = [s \in Slots |-> 0] /\ known = FALSE /\ owner = [m \in Mutexes |-> NoOne]
      /\ todo = [w \in Workers |-> <<>>] /\ crossed = {} /\ fetched = {}
      /\ gateway = "UNAUTHENTICATED" /\ unavailable = FALSE /\ readers = {} /\ registered = FALSE
      /\ session = 0 /\ owed = "no" /\ calls = 0 /\ events = 0 /\ overlap = FALSE /\ reported = FALSE
      /\ made = 1 /\ crashed = FALSE /\ astray = FALSE
      /\ routes = [w \in Workers |-> [kind |-> "command", meant |-> 0, changed |-> FALSE]]
      /\ \A kind \in Kinds : table[kind] = 0 \/ table[kind] = 1
      /\ table = [kind \in Kinds |-> table[kind]]
  BY DEF Init, CacheInit, NoRoute, None
<1>2. /\ Me \in Born /\ Me \in Objects /\ {MaxCalls, MaxEvents, MaxSessions} \subseteq Nat
      /\ Null \notin Nat /\ 0 \in Nat /\ 1 \in Nat
  BY DispatchAssumption, NullAssumption DEF DispatchAssumption, NullAssumption, Objects
<1>3. \A w \in Workers : todo[w] = <<>> /\ todo[w] \in Seq(Steps) /\ Len(todo[w]) = 0 /\ 1..Len(todo[w]) = {}
  <2>1. <<>> \in Seq(Steps) /\ Len(<<>>) = 0 /\ 1..0 = {}
    OBVIOUS
  <2>2. \A w \in Workers : todo[w] = <<>>
    BY ONLY <1>1
  <2> QED BY ONLY <2>1, <2>2
<1>4. \A w \in Workers : /\ \A op : ~Has(todo[w], op)
                         /\ \A s, v : ~Brings(todo[w], s, v)
                         /\ ~Listed(todo[w])
  BY <1>3 DEF Has, Brings, Listed
<1>5. TypeInv
  <2>1. 1 \in 1..(1 + events) /\ 0 \in 0..MaxEvents /\ 0 \in 0..MaxCalls /\ 0 \in 0..MaxSessions /\ 0 \in Versions
    BY <1>1, <1>2 DEF Versions
  <2>2. 0 \in 0..made /\ 1 \in 0..made /\ made \in 1..(1 + events)
    BY <1>1, <2>1
  <2>3. world \in [Objects -> [v : 1..(1 + events), live : BOOLEAN]] /\ world[Me].live
    <3>1. ASSUME NEW x \in Objects PROVE [v |-> 1, live |-> x \in Born] \in [v : 1..(1 + events), live : BOOLEAN]
      <4>1. PICK c \in BOOLEAN : c = (x \in Born)
        <5>1. (x \in Born) \in BOOLEAN
          OBVIOUS
        <5> QED BY <5>1
      <4>2. [v |-> 1, live |-> c] \in [v : 1..(1 + events), live : BOOLEAN]
        BY <2>1
      <4> QED BY ONLY <4>1, <4>2
    <3>2. world[Me] = [v |-> 1, live |-> Me \in Born]
      BY <1>1, <1>2
    <3> QED BY <1>1, <1>2, <3>1, <3>2
  <2>4. "command" \in Kinds
    BY DEF Kinds
  <2>5. /\ table \in [Kinds -> 0..made \union {Null}]
        /\ routes \in [Workers -> [kind : Kinds, meant : 0..made \union {Null}, changed : BOOLEAN]]
    BY <1>1, <2>2, <2>4
  <2>6. todo \in [Workers -> Seq(Steps)] /\ cache \in [Slots -> Versions] /\ owner \in [Mutexes -> Workers \union {NoOne}]
    BY <1>1, <2>1
  <2>7. /\ events \in 0..MaxEvents /\ session \in 0..MaxSessions /\ calls \in 0..MaxCalls
        /\ {known, unavailable, registered, overlap, reported, crashed, astray} \subseteq BOOLEAN /\ owed \in Debts
        /\ crossed \subseteq Slots /\ fetched \subseteq Lists /\ readers \subseteq Workers
        /\ gateway \in {"UNAUTHENTICATED", "AUTHENTICATION_SENT", "READY"}
    BY <1>1, <2>1 DEF Debts
  <2> QED BY <2>2, <2>3, <2>5, <2>6, <2>7 DEF TypeInv
<1>6. GoodInv
  BY <1>3 DEF GoodInv, Good, Apart, AsksLast, LooksFirst, TellsLast, Short
<1>7. LockInv
  BY <1>1 DEF LockInv
<1>8. CacheInv
  <2>1. \A s : ~Mistaken(s)
    BY <1>4 DEF Mistaken
  <2>2. ASSUME NEW s \in Slots \ {AtMe} PROVE SlotInv(s)
    <3>1. cache[s] = 0
      BY <1>1
    <3>2. CASE s[1] \in Lists
      <4>1. ~Told(s[1])
        BY <1>1, <1>4 DEF Told
      <4> QED BY <2>1, <3>1, <3>2, <4>1 DEF SlotInv, Needed
    <3>3. CASE s[1] \notin Lists
      BY <2>1, <3>1, <3>3 DEF SlotInv, Right
    <3> QED BY <3>2, <3>3
  <2>3. AtMe \in Slots /\ AtMe[1] \notin Lists
    BY DEF AtMe, Slots, Lists
  <2>4. MeInv
    BY <1>1, <2>1, <2>3 DEF MeInv, Right
  <2> QED BY <2>2, <2>4 DEF CacheInv
<1>9. SilentInv
  BY <1>1, <1>4 DEF SilentInv, Pending
<1>10. ArriveInv
  <2>1. \A w \in Workers : RoutesOnce(todo[w]) /\ ~Handles(w)
    BY <1>3, <1>4 DEF RoutesOnce, Handles
  <2>2. \A kind \in Kinds : table[kind] # Null
    BY <1>1, <1>2
  <2> QED BY <1>1, <2>1, <2>2 DEF ArriveInv
<1> QED BY <1>5, <1>6, <1>7, <1>8, <1>9, <1>10 DEF DispatchInv

\* Nothing changes.
LEMMA StutterKeeps ==
  ASSUME DispatchInv, UNCHANGED vars
  PROVE  DispatchInv'
<1>1. /\ UNCHANGED <<world, cache, known, owner, todo, crossed, fetched>>
      /\ UNCHANGED <<gateway, unavailable, readers, registered, session, owed, calls, events, overlap, reported>>
      /\ UNCHANGED <<table, made, routes, crashed, astray>>
  BY DEF vars, cacheVars, botVars, dispatchVars, interactionVars
<1>2. TypeInv /\ GoodInv /\ LockInv /\ CacheInv /\ SilentInv /\ ArriveInv
  BY DEF DispatchInv
<1>3. TypeInv' /\ GoodInv' /\ LockInv'
  <2>1. TypeInv'
    BY <1>1, <1>2 DEF TypeInv
  <2>2. GoodInv' /\ LockInv'
    BY <1>1, <1>2 DEF GoodInv, LockInv, Has
  <2> QED BY <2>1, <2>2
<1>4. CacheInv'
  BY <1>1, <1>2 DEF CacheInv, SlotInv, MeInv, Coming, Mistaken, Right, Needed, Told
<1>5. SilentInv' /\ ArriveInv'
  BY <1>1, <1>2 DEF SilentInv, Pending, ArriveInv, Handles
<1> QED BY <1>3, <1>4, <1>5 DEF DispatchInv

\* Every step keeps the invariant.
LEMMA NextKeeps ==
  ASSUME DispatchInv, [Next]_vars
  PROVE  DispatchInv'
<1>1. CASE \E w \in Workers : WorkerStep(w)
  BY <1>1, WorkerStepKeeps
<1>2. CASE Outside /\ UNCHANGED interactionVars
  <2>1. CASE \E w \in Workers : CallApi(w) \/ Identify(w) \/ SendGuild(w) \/ Outage(w)
    BY <1>2, <2>1, CallApiKeeps, IdentifyKeeps, SendGuildKeeps, OutageKeeps
  <2>2. CASE \E w \in Workers, x \in Objects : Change(x, w)
    BY <1>2, <2>2, ChangeKeeps
  <2>3. CASE \E w \in Workers, u \in Users : Mention(u, w)
    BY <1>2, <2>3, MentionKeeps
  <2>4. CASE \E r, w \in Workers, x \in Objects : Modify(x, r, w)
    BY <1>2, <2>4, ModifyKeeps
  <2>5. CASE \E s \in Slots : Age(s)
    BY <1>2, <2>5, AgeKeeps
  <2>6. CASE Disconnect \/ Resumed \/ Register
    BY <1>2, <2>6, ConnectionKeeps
  <2> QED BY <1>2, <2>1, <2>2, <2>3, <2>4, <2>5, <2>6 DEF Outside
<1>3. CASE \E w \in Workers, u \in Users : Interact(u, w)
  BY <1>3, InteractKeeps
<1>4. CASE HandlersChange
  BY <1>4, HandlersChangeKeeps
<1>5. CASE UNCHANGED vars
  BY <1>5, StutterKeeps
<1> QED BY <1>1, <1>2, <1>3, <1>4, <1>5 DEF Next

\* Every step keeps what the five properties below rest on.
THEOREM DispatchInvariant == Spec => []DispatchInv
<1>1. Init => DispatchInv
  BY InitGood
<1>2. DispatchInv /\ [Next]_vars => DispatchInv'
  BY NextKeeps
<1> QED BY <1>1, <1>2, PTL DEF Spec

\* The types; whoever keeps a mutex over a call has the step that gives it back
\* still to do, so that no path through the caches or the handlers forgets one;
\* and no worker has more than four steps to go.
THEOREM DispatchTypeOK == Spec => []TypeOK
<1>1. DispatchInv => TypeOK
  <2> SUFFICES ASSUME DispatchInv PROVE TypeOK
    OBVIOUS
  <2>1. TypeInv /\ GoodInv /\ LockInv
    BY DEF DispatchInv
  <2>2. /\ MaxEvents \in Nat /\ events \in Nat /\ events <= MaxEvents
        /\ \A m \in 1..(1 + events) : m \in 1..(1 + MaxEvents)
    BY <2>1, BoundsAre, OneMore
  <2>3. world \in [Objects -> [v : 1..(1 + MaxEvents), live : BOOLEAN]] /\ made \in 1..(1 + MaxEvents)
    <3>1. world \in [Objects -> [v : 1..(1 + events), live : BOOLEAN]] /\ made \in 1..(1 + events)
      BY <2>1 DEF TypeInv
    <3> QED BY <2>2, <3>1
  <2>4. ASSUME NEW w \in Workers PROVE Len(todo[w]) <= 4
    <3>1. todo[w] \in Seq(Steps) /\ Len(todo[w]) \in Nat /\ Short(todo[w])
      BY <2>1 DEF GoodInv, Good
    <3>2. CASE Len(todo[w]) > 0
      <4>1. PICK n \in Nat : n = Weight(todo[w][1].op) /\ 1 <= n
        BY DEF Weight
      <4>2. n + Len(todo[w]) - 1 <= 4
        BY <3>1, <3>2, <4>1 DEF Short
      <4> QED BY <3>1, <4>1, <4>2
    <3> QED BY <3>1, <3>2
  <2>5. cache \in [Slots -> 0..(1 + MaxEvents)]
    BY <2>1 DEF TypeInv, Versions
  <2> QED BY <2>1, <2>3, <2>4, <2>5 DEF TypeInv, TypeOK
<1> QED BY <1>1, DispatchInvariant, PTL

\* What is coming is on its way.
LEMMA ComingIsCarried ==
  ASSUME TypeInv, NEW s, Coming(s)
  PROVE  OnItsWay(s)
<1>1. PICK w \in Workers : \E v \in Versions : Brings(todo[w], s, v) /\ Right(s, v)
  BY DEF Coming
<1>2. PICK v \in Versions : Brings(todo[w], s, v) /\ Right(s, v)
  BY <1>1
<1>3. <<s, v>> \in Carries(w)
  BY <1>2, CarriesIs DEF Brings
<1>4. v \in Carried(s)
  BY <1>3 DEF Carried
<1> QED BY <1>2, <1>4 DEF OnItsWay

\* What a cache answers with is what the API would, or news of it is on its
\* way, or it was crossed - or it is the last of a member who left, of a deleted
\* thread or of a guild the bot left, which stay cached (Kept in GuildCache).
THEOREM DispatchCacheIsCurrent == Spec => []CacheIsCurrent
<1>1. DispatchInv => CacheIsCurrent
  <2> SUFFICES ASSUME DispatchInv, NEW s \in Slots, s[1] \notin Lists \union {"@me"}
               PROVE  Right(s, cache[s]) \/ OnItsWay(s) \/ s \in crossed
    BY DEF CacheIsCurrent
  <2>1. TypeInv /\ CacheInv
    BY DEF DispatchInv
  <2>2. s # AtMe
    BY DEF AtMe
  <2>3. SlotInv(s)
    BY <2>1, <2>2 DEF CacheInv
  <2> QED BY <2>1, <2>3, ComingIsCarried DEF SlotInv, Needed
<1> QED BY <1>1, DispatchInvariant, PTL

\* A list that was stored as a whole misses nothing and names nothing that
\* is gone, with the same exceptions.
THEOREM DispatchIndexIsComplete == Spec => []IndexIsComplete
<1>1. DispatchInv => IndexIsComplete
  <2> SUFFICES ASSUME DispatchInv, NEW s \in Slots, s[1] \in Lists, s[1] \in fetched \/ cache[s] = 1
               PROVE  Right(s, cache[s]) \/ OnItsWay(s) \/ s \in crossed
    BY DEF IndexIsComplete
  <2>1. TypeInv /\ CacheInv
    BY DEF DispatchInv
  <2>2. s # AtMe
    BY DEF AtMe, Lists
  <2>3. SlotInv(s)
    BY <2>1, <2>2 DEF CacheInv
  <2>4. Needed(s)
    BY DEF Needed, Told
  <2> QED BY <2>1, <2>3, <2>4, ComingIsCarried DEF SlotInv
<1> QED BY <1>1, DispatchInvariant, PTL

\* onGuildCreate is not called for a guild that READY listed and that had no
\* outage since, unless handlers of guilds overlapped.
THEOREM DispatchStartupIsSilent == Spec => []StartupIsSilent
<1>1. DispatchInv => StartupIsSilent
  BY DEF DispatchInv, SilentInv, StartupIsSilent
<1> QED BY <1>1, DispatchInvariant, PTL

\* No interaction misses the handler it was meant for, unless the command was
\* changed meanwhile.
THEOREM DispatchInteractionsArrive == Spec => []InteractionsArrive
<1>1. DispatchInv => InteractionsArrive
  BY DEF DispatchInv, ArriveInv, InteractionsArrive
<1> QED BY <1>1, DispatchInvariant, PTL

=============================================================================
