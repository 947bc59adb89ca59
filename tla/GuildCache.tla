----------------------------- MODULE GuildCache -----------------------------
(***************************************************************************)
(* The caches of one guild and the calls that read through them: the       *)
(* GenericDiscordCaches of users, channels and guilds, and the related     *)
(* objects of a guild (members, channel ids, roles) with their mutexes.    *)
(*                                                                         *)
(* A worker is a thread of the program, a handler's or the user's.         *)
(* todo[w] is what it still has to do, innermost call first: a step that   *)
(* calls something is replaced by the steps of what it calls, and a mutex  *)
(* that is held over a call is released by a step of its own after it.     *)
(* Mutexes held over nothing that can block are taken and released within  *)
(* a step.  Objects are versions; 0 is no entry.  An entry older than the  *)
(* TTL is never used and counts as no entry.                               *)
(***************************************************************************)
EXTENDS Naturals, Sequences

CONSTANTS
    Workers, NoOne,
    Guild, Me,
    Channels,     \* channels of the guild
    Threads,      \* threads of its channels: cached, but not in channelIds
    Roles, Users  \* Me is the bot's own user, Users are the others

\* Every object is of one kind.
ASSUME GuildAssumption ==
    /\ NoOne \notin Workers
    /\ Guild # Me
    /\ LET kinds == <<{Guild, Me}, Channels, Threads, Roles, Users>>
       IN \A i, j \in 1..5 : i # j => kinds[i] \cap kinds[j] = {}

VARIABLES
    world,    \* what the API knows: the version of an object, and whether it is there
    cache,    \* the version in each cache, 0 for none; 1 for an id in an index
    known,    \* relatedObjects.contains(guild)
    owner,    \* who holds usersmtx, channelmtx and rolesmtx over a call
    todo,
    crossed,  \* history: slots written while somebody else was about to write them
    fetched   \* history: the lists that were stored as a whole

cacheVars == <<world, cache, known, owner, todo, crossed, fetched>>

Objects == {Guild, Me} \union Channels \union Threads \union Roles \union Users

(* Where something is kept: an entry of an LRU cache, the current user,    *)
(* the entry of the user cache that get("@me") makes, and the ids in       *)
(* RelatedGuildCache::channelIds and ::roles.                              *)
Lists == {"channels", "roles"}
Slots ==
    ({"guild"} \X {Guild}) \union ({"channel"} \X (Channels \union Threads))
    \union ({"user", "member"} \X Users) \union ({"role"} \X Roles)
    \union ({"user", "current", "@me"} \X {Me})
    \union ({"channels"} \X Channels) \union ({"roles"} \X Roles)
Mutexes == {"users", "channels", "roles"}

(***************************************************************************)
(* The steps of a worker.                                                  *)
(***************************************************************************)
Write(op, news) == [op |-> op, news |-> news]
Call(op, x, force) == [op |-> op, x |-> x, force |-> force]
Get(slot, force) == Call("get", slot, force)
Unlock(m) == Call("unlock", m, FALSE)
Fetch(op, x) == Call(op, x, FALSE)

Insert(kind, x, v) == Write("insert", {<<<<kind, x>>, v>>})
Erase(kind, x) == Write("insert", {<<<<kind, x>>, 0>>})
InsertGuildUser(u, v) == Write("insertGuildUser", {<<<<"member", u>>, v>>})
InsertGuildChannel(c) == Write("insertGuildChannel", {<<<<"channels", c>>, 1>>})
RemoveGuildChannel(c) == Write("removeGuildChannel", {<<<<"channels", c>>, 0>>})
RoleNews(r, v) == {<<<<"roles", r>>, 1>>, <<<<"role", r>>, v>>}
InsertGuildRole(r, v) == Write("insertGuildRole", RoleNews(r, v))
RemoveGuildRole(r) == Write("removeGuildRole", {<<<<"roles", r>>, 0>>, <<<<"role", r>>, 0>>})

At(w, op) == todo[w] # <<>> /\ Head(todo[w]).op = op
Arg(w) == Head(todo[w]).x
Forced(w) == Head(todo[w]).force
News(w) == Head(todo[w]).news
(* The step is over, and these come before the rest.                       *)
Then(w, steps) == todo' = [todo EXCEPT ![w] = steps \o Tail(@)]

(* What the worker is still going to write.                                *)
Carries(w) ==
    UNION {todo[w][i].news : i \in {j \in DOMAIN todo[w] : "news" \in DOMAIN todo[w][j]}}
Carried(s) == {n[2] : n \in {m \in UNION {Carries(w) : w \in Workers} : m[1] = s}}

Present(kind, x) == cache[<<kind, x>>] # 0
Index(list) == {s[2] : s \in {t \in Slots : t[1] = list /\ cache[t] # 0}}

(* What stays cached after it is gone, because no handler ever erases it.  *)
Kept == {Guild, Me} \union Threads \union Users
(* A slot that says v says what is true now; an entry may say nothing, and *)
(* one that is kept may say the last of what is gone.                      *)
Right(s, v) ==
    LET x == s[2]
    IN IF s[1] \in Lists THEN (v = 1) = world[x].live
       ELSE v = 0 \/ (v = world[x].v /\ (world[x].live \/ x \in Kept))

Store(w, news) ==
    LET written == {n[1] : n \in news}
        value(s) == (CHOOSE n \in news : n[1] = s)[2]
        contested == {s \in written : \E o \in Workers \ {w} : \E n \in Carries(o) : n[1] = s}
        settled == {s \in written \ contested : Right(s, value(s))}
    IN /\ cache' = [s \in Slots |-> IF s \in written THEN value(s) ELSE cache[s]]
       /\ crossed' = (crossed \ settled) \union contested

(***************************************************************************)
(* GenericDiscordCache                                                     *)
(***************************************************************************)
(* get: what the cache has, unless it is told to fetch.                    *)
GetItem(w) ==
    /\ At(w, "get")
    /\ Then(w, IF cache[Arg(w)] # 0 /\ ~Forced(w) THEN <<>> ELSE <<Fetch("fetchItem", Arg(w))>>)
    /\ UNCHANGED <<world, cache, known, owner, crossed, fetched>>

(* The request of a fetch fails, or its answer is an error.                *)
FetchFails(w) ==
    /\ \E op \in {"fetchItem", "fetchGuildUser", "fetchGuildChannels", "fetchGuildRoles", "fetchGuildRole"} :
          At(w, op)
    /\ Then(w, <<>>)
    /\ UNCHANGED <<world, cache, known, owner, crossed, fetched>>

(* The answer is there, and is inserted later: get inserts it, and         *)
(* getCurrentUser then keeps what get("@me") returned.                     *)
FetchItem(w) ==
    /\ At(w, "fetchItem")
    /\ LET kind == Arg(w)[1]
           x == Arg(w)[2]
       IN /\ world[x].live \/ kind = "user"
          /\ Then(w, <<Insert(kind, x, world[x].v)>>
                     \o (IF kind = "@me" THEN <<Insert("current", Me, world[x].v)>> ELSE <<>>))
    /\ UNCHANGED <<world, cache, known, owner, crossed, fetched>>

(* insert and erase, under the mutex of the cache; setCurrentUser.         *)
InsertItem(w) ==
    /\ At(w, "insert")
    /\ Store(w, News(w))
    /\ Then(w, <<>>)
    /\ UNCHANGED <<world, known, owner, fetched>>

(* Ten minutes pass, or the cache is full: the entry is not found again.   *)
Expire(s) ==
    /\ s[1] \notin Lists \union {"current"} /\ cache[s] # 0
    /\ cache' = [cache EXCEPT ![s] = 0]
    /\ crossed' = IF Carried(s) = {} THEN crossed \ {s} ELSE crossed
    /\ UNCHANGED <<world, known, owner, todo, fetched>>

(* UserCache::getCurrentUser                                               *)
GetCurrentUser(w) ==
    /\ At(w, "getCurrentUser")
    /\ Then(w, IF Present("current", Me) THEN <<>>
               ELSE IF Present("@me", Me) THEN <<Insert("current", Me, cache[<<"@me", Me>>])>>
               ELSE <<Fetch("fetchItem", <<"@me", Me>>)>>)
    /\ UNCHANGED <<world, cache, known, owner, crossed, fetched>>

(***************************************************************************)
(* Members                                                                 *)
(***************************************************************************)
StoreGuildUser(w) ==
    /\ At(w, "insertGuildUser")
    /\ owner["users"] = NoOne
    /\ known' = TRUE
    /\ Store(w, News(w))
    /\ Then(w, <<>>)
    /\ UNCHANGED <<world, owner, fetched>>

GetGuildUser(w) ==
    /\ At(w, "getGuildUser")
    /\ Then(w, IF Present("user", Arg(w)) /\ ~Forced(w)
               THEN <<Call("readGuildUser", Arg(w), FALSE)>>
               ELSE <<Fetch("fetchGuildUser", Arg(w))>>)
    /\ UNCHANGED <<world, cache, known, owner, crossed, fetched>>

(* The rest of getGuildUser, under usersmtx, which is still held when the  *)
(* member has to be fetched.                                               *)
ReadGuildUser(w) ==
    /\ At(w, "readGuildUser")
    /\ owner["users"] = NoOne
    /\ known' = TRUE
    /\ \/ /\ Present("member", Arg(w))
          /\ Then(w, <<>>)
          /\ UNCHANGED owner
       \/ /\ ~Present("member", Arg(w))
          /\ owner' = [owner EXCEPT !["users"] = w]
          /\ Then(w, <<Fetch("fetchGuildUser", Arg(w)), Unlock("users")>>)
    /\ UNCHANGED <<world, cache, crossed, fetched>>

FetchGuildUser(w) ==
    /\ At(w, "fetchGuildUser")
    /\ world[Arg(w)].live
    /\ LET v == world[Arg(w)].v
       IN Then(w, <<Insert("user", Arg(w), v), InsertGuildUser(Arg(w), v)>>)
    /\ UNCHANGED <<world, cache, known, owner, crossed, fetched>>

(* A lock goes out of scope.                                               *)
ReleaseLock(w) ==
    /\ At(w, "unlock")
    /\ owner' = [owner EXCEPT ![Arg(w)] = NoOne]
    /\ Then(w, <<>>)
    /\ UNCHANGED <<world, cache, known, crossed, fetched>>

(***************************************************************************)
(* Channels                                                                *)
(***************************************************************************)
(* The ids are copied without the mutex.                                   *)
GetGuildChannels(w) ==
    /\ At(w, "getGuildChannels")
    /\ known' = (known \/ ~Forced(w))
    /\ Then(w, IF Forced(w) \/ Index("channels") = {}
               THEN <<Fetch("fetchGuildChannels", Guild)>>
               ELSE <<Call("readGuildChannels", Index("channels"), FALSE)>>)
    /\ UNCHANGED <<world, cache, owner, crossed, fetched>>

(* The loop over the copied ids: one that is not cached ends it.           *)
ReadGuildChannels(w) ==
    /\ At(w, "readGuildChannels")
    /\ owner["channels"] = NoOne
    /\ Then(w, IF \A c \in Arg(w) : Present("channel", c)
               THEN <<>> ELSE <<Fetch("fetchGuildChannels", Guild)>>)
    /\ UNCHANGED <<world, cache, known, owner, crossed, fetched>>

FetchGuildChannels(w) ==
    /\ At(w, "fetchGuildChannels")
    /\ Then(w, <<Write("storeGuildChannels",
                      UNION {{<<<<"channels", c>>, 1>>, <<<<"channel", c>>, world[c].v>>} :
                             c \in {d \in Channels : world[d].live}})>>)
    /\ UNCHANGED <<world, cache, known, owner, crossed, fetched>>

(* One turn of the loop over the answer, or its end.  The loop holds       *)
(* channelmtx while it asks for the mutex of the channel cache.            *)
StoreGuildChannels(w) ==
    /\ At(w, "storeGuildChannels")
    /\ owner["channels"] \in {NoOne, w}
    /\ known' = TRUE
    /\ \/ /\ News(w) = {}
          /\ fetched' = fetched \union {"channels"}
          /\ owner' = [owner EXCEPT !["channels"] = NoOne]
          /\ Then(w, <<>>)
          /\ UNCHANGED <<cache, crossed>>
       \/ \E c \in Channels :
             LET turn == {n \in News(w) : n[1][2] = c}
             IN /\ turn # {}
                /\ Store(w, turn)
                /\ owner' = [owner EXCEPT !["channels"] = w]
                /\ Then(w, <<Write("storeGuildChannels", News(w) \ turn)>>)
          /\ UNCHANGED fetched
    /\ UNCHANGED world

StoreGuildChannel(w) ==
    /\ At(w, "insertGuildChannel")
    /\ owner["channels"] = NoOne
    /\ known' = TRUE
    /\ Store(w, News(w))
    /\ Then(w, <<>>)
    /\ UNCHANGED <<world, owner, fetched>>

(* Nothing to remove is seen without the mutex, and then not waited for.   *)
DropGuildChannel(w) ==
    /\ At(w, "removeGuildChannel")
    /\ \/ \A n \in News(w) : cache[n[1]] = 0
       \/ owner["channels"] = NoOne
    /\ Store(w, News(w))
    /\ Then(w, <<>>)
    /\ UNCHANGED <<world, known, owner, fetched>>

(***************************************************************************)
(* Roles                                                                   *)
(***************************************************************************)
(* insertGuildRole of one role or of a list, and the end of both fetches.  *)
StoreGuildRoles(w) ==
    /\ At(w, "insertGuildRole") \/ At(w, "storeGuildRoles")
    /\ owner["roles"] = NoOne
    /\ known' = TRUE
    /\ Store(w, News(w))
    /\ fetched' = IF At(w, "storeGuildRoles") THEN fetched \union {"roles"} ELSE fetched
    /\ Then(w, <<>>)
    /\ UNCHANGED <<world, owner>>

DropGuildRole(w) ==
    /\ At(w, "removeGuildRole")
    /\ ~known \/ owner["roles"] = NoOne
    /\ Store(w, News(w))
    /\ Then(w, <<>>)
    /\ UNCHANGED <<world, known, owner, fetched>>

GetGuildRoles(w) ==
    /\ At(w, "getGuildRoles")
    /\ Then(w, IF Forced(w) \/ ~known THEN <<Fetch("fetchGuildRoles", Guild)>>
               ELSE <<Call("readGuildRoles", Guild, FALSE)>>)
    /\ UNCHANGED <<world, cache, known, owner, crossed, fetched>>

(* Mutant: the lock is never released when there were no roles.            *)
ReadGuildRolesLocked(w) ==
    /\ At(w, "readGuildRoles")
    /\ owner["roles"] = NoOne
    /\ owner' = IF Index("roles") = {} THEN [owner EXCEPT !["roles"] = w] ELSE owner
    /\ Then(w, IF Index("roles") # {} /\ \A r \in Index("roles") : Present("role", r)
               THEN <<>> ELSE <<Fetch("fetchGuildRoles", Guild)>>)
    /\ UNCHANGED <<world, cache, known, crossed, fetched>>

(* The rest of getGuildRoles, under rolesmtx, which is still held when     *)
(* there are no roles to go through, but not when one is not cached.       *)
ReadGuildRoles(w) ==
    /\ At(w, "readGuildRoles")
    /\ owner["roles"] = NoOne
    /\ \/ /\ Index("roles") = {}
          /\ owner' = [owner EXCEPT !["roles"] = w]
          /\ Then(w, <<Fetch("fetchGuildRoles", Guild), Unlock("roles")>>)
       \/ /\ Index("roles") # {}
          /\ Then(w, IF \A r \in Index("roles") : Present("role", r)
                     THEN <<>> ELSE <<Fetch("fetchGuildRoles", Guild)>>)
          /\ UNCHANGED owner
    /\ UNCHANGED <<world, cache, known, crossed, fetched>>

GetGuildRole(w) ==
    /\ At(w, "getGuildRole")
    /\ Then(w, IF Forced(w) \/ ~known \/ Arg(w) \notin Index("roles")
               THEN <<Fetch("fetchGuildRole", Arg(w))>>
               ELSE <<Call("readGuildRole", Arg(w), FALSE)>>)
    /\ UNCHANGED <<world, cache, known, owner, crossed, fetched>>

ReadGuildRole(w) ==
    /\ At(w, "readGuildRole")
    /\ owner["roles"] = NoOne
    /\ Then(w, IF Present("role", Arg(w)) THEN <<>> ELSE <<Fetch("fetchGuildRole", Arg(w))>>)
    /\ UNCHANGED <<world, cache, known, owner, crossed, fetched>>

LiveRoles == {r \in Roles : world[r].live}
RoleList == Write("storeGuildRoles", UNION {RoleNews(r, world[r].v) : r \in LiveRoles})

FetchGuildRoles(w) ==
    /\ At(w, "fetchGuildRoles")
    /\ Then(w, <<RoleList>>)
    /\ UNCHANGED <<world, cache, known, owner, crossed, fetched>>

FetchGuildRole(w) ==
    /\ At(w, "fetchGuildRole")
    /\ Arg(w) \in LiveRoles
    /\ Then(w, <<InsertGuildRole(Arg(w), world[Arg(w)].v)>>)
    /\ UNCHANGED <<world, cache, known, owner, crossed, fetched>>

(***************************************************************************)
(* A step of a worker inside the caches, and the calls they offer.         *)
(***************************************************************************)
CacheInit ==
    /\ cache = [s \in Slots |-> 0]
    /\ known = FALSE
    /\ owner = [m \in Mutexes |-> NoOne]
    /\ todo = [w \in Workers |-> <<>>]
    /\ crossed = {}
    /\ fetched = {}

CacheStep(w) ==
    \/ GetItem(w) \/ FetchFails(w) \/ FetchItem(w) \/ InsertItem(w) \/ GetCurrentUser(w)
    \/ StoreGuildUser(w) \/ GetGuildUser(w) \/ ReadGuildUser(w) \/ FetchGuildUser(w)
    \/ ReleaseLock(w)
    \/ GetGuildChannels(w) \/ ReadGuildChannels(w) \/ FetchGuildChannels(w)
    \/ StoreGuildChannels(w) \/ StoreGuildChannel(w) \/ DropGuildChannel(w)
    \/ StoreGuildRoles(w) \/ DropGuildRole(w) \/ GetGuildRoles(w) \/ ReadGuildRoles(w)
    \/ GetGuildRole(w) \/ ReadGuildRole(w) \/ FetchGuildRoles(w) \/ FetchGuildRole(w)

(* user.get, guild.get, channel.get, user.getCurrent, guild.getMember,     *)
(* getChannels, getRoles and getRole, forced or not.                       *)
CallsAbout(x) == UNION {
    {Get(s, force) : s \in {t \in Slots : t[1] \in {"guild", "channel", "user"} /\ t[2] = x}}
    \union (IF x \in Users THEN {Call("getGuildUser", x, force)} ELSE {})
    \union (IF x \in Channels THEN {Call("getGuildChannels", Guild, force)} ELSE {})
    \union (IF x \in Roles THEN {Call("getGuildRoles", Guild, force), Call("getGuildRole", x, force)} ELSE {})
    \union (IF x = Me THEN {Call("getCurrentUser", Me, FALSE)} ELSE {})
    : force \in BOOLEAN}

(* A worker that wants a mutex it holds itself.                            *)
SelfLocked(w) ==
    \/ At(w, "insertGuildUser") /\ owner["users"] = w
    \/ At(w, "insertGuildRole") /\ owner["roles"] = w
    \/ At(w, "storeGuildRoles") /\ owner["roles"] = w

=============================================================================
