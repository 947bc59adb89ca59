------------------------------ MODULE Dispatch ------------------------------
(***************************************************************************)
(* The handlers of the dispatches that keep the caches up to date, against *)
(* a gateway that sends them and threads that call the API.                *)
(*                                                                         *)
(* Every dispatch is handled in a detached thread of its own, so that      *)
(* handlers of consecutive dispatches run in any order.  A dispatch that   *)
(* is sent takes an idle worker at once; until the worker moves it is on   *)
(* its way.  A handler is the sequence of its steps.                       *)
(***************************************************************************)
EXTENDS ApiRoutes, Interactions

CONSTANTS
    Born,        \* what exists before the bot starts
    Handlers,    \* the topic of a behaviour that is about commands and components
    Topics,      \* bound: sets of objects, one of which a behaviour is about
    MaxCalls, MaxEvents, MaxSessions

ASSUME DispatchAssumption ==
    /\ {Me, Guild} \subseteq Born /\ Born \subseteq Objects
    /\ Topics \subseteq SUBSET (Objects \union {Handlers})
    /\ {MaxCalls, MaxEvents} \subseteq Nat /\ MaxSessions \in Nat \ {0}

VARIABLES
    topic,       \* the objects that change and that are asked for
    gateway,     \* Shard::api.state: READY, or on the way there
    unavailable, \* guild \in api.unavailableGuildIds
    readers,     \* who holds unavailableGuildIdsmtx shared
    registered,  \* whether the program has set the callbacks
    session,     \* sessions identified so far
    owed,        \* the GUILD_CREATE that the gateway has yet to send by itself
    calls, events,
    overlap,     \* history: a session, GUILD_DELETE or outage began before the handlers before it ended
    reported     \* history: onGuildCreate was called for a guild READY listed that had no outage since

dispatchVars == <<topic, gateway, unavailable, readers, registered, session, owed, calls, events, overlap, reported>>
botVars == <<dispatchVars, interactionVars>>
vars == <<cacheVars, botVars>>

(* None, that of a guild READY listed, or of one that had an outage.       *)
Debts == {"no", "listed", "returning"}

Idle(w) == todo[w] = <<>>
Do(op) == [op |-> op]
(* The handlers that look for a callback before they do anything.          *)
IfRegistered(slots) == [op |-> "ifRegistered", misses |-> slots]

(***************************************************************************)
(* The handlers.  A callback at the end of one is not a step of it: what   *)
(* the callback calls, the worker may call once it is idle.                *)
(***************************************************************************)
(* Mutant: the state is stored before the guilds that READY lists.         *)
ReadyFirst(v) ==
    <<Insert("user", Me, v), Insert("current", Me, v), Do("becomeReady"),
      [op |-> "announce", listed |-> world[Guild].live]>>

Ready(v) ==
    <<Insert("user", Me, v), Insert("current", Me, v), [op |-> "announce", listed |-> world[Guild].live],
      Do("becomeReady")>>

GuildDelete == <<Do("awaitReady"), Do("deleted")>>
GuildAvailable(v, listed) ==
    <<Do("awaitReady"), RoleList, Insert("guild", Guild, v), [op |-> "created", listed |-> listed]>>
(* A GUILD_CREATE that says the guild has an outage is handled like        *)
(* GUILD_DELETE.                                                           *)
GuildCreate(v, outage, listed) == IF outage THEN GuildDelete ELSE GuildAvailable(v, listed)
GuildUpdate(v) == <<Insert("guild", Guild, v), RoleList>>

ChannelCreate(c, v) == <<Insert("channel", c, v), InsertGuildChannel(c)>>
ChannelUpdate(c, v) == <<Insert("channel", c, v), InsertGuildChannel(c)>>
(* Mutant: only the channel itself is forgotten.                           *)
ChannelDeleteOfCache(c) == <<Erase("channel", c)>>
(* Between the two a voice connection to the channel is closed, which      *)
(* delays the second; how it ends is VoiceConnection's matter.             *)
ChannelDelete(c) == <<Erase("channel", c), RemoveGuildChannel(c)>>

(* Created, updated and deleted threads are all inserted.                  *)
ThreadEvent(c, v) == <<Insert("channel", c, v)>>

RoleSlots(r) == {<<"role", r>>, <<"roles", r>>}
RoleCreate(r, v) == <<IfRegistered(RoleSlots(r)), InsertGuildRole(r, v)>>
RoleUpdate(r, v) == <<IfRegistered(RoleSlots(r)), InsertGuildRole(r, v)>>
RoleDelete(r) == <<IfRegistered(RoleSlots(r)), RemoveGuildRole(r)>>

MemberAdd(u, v) == <<Insert("user", u, v), InsertGuildUser(u, v)>>
MemberUpdate(u, v) == <<Insert("user", u, v), InsertGuildUser(u, v)>>
MemberRemove(u, v) == <<IfRegistered({}), Insert("user", u, v)>>
(* Mutant: the copy of the current user is forgotten.                      *)
UserUpdateOfCache(v) == <<Insert("user", Me, v)>>
UserUpdate(v) == <<Insert("current", Me, v), Insert("user", Me, v)>>

(* Dispatches about a user that change nothing: a ban added or removed,    *)
(* somebody typing.                                                        *)
Ban(u, v) == <<IfRegistered({}), Insert("user", u, v)>>
TypingStart(u, v) == <<IfRegistered({}), Insert("user", u, v), InsertGuildUser(u, v)>>
(* A member in the answer to a request of all of them.                     *)
GuildMemberChunk(u, v) == <<Insert("user", u, v), InsertGuildUser(u, v)>>

(***************************************************************************)
(* What changes outside, and the dispatch that says so.                    *)
(***************************************************************************)
Created(x, v) ==
    CASE x \in Channels -> ChannelCreate(x, v)
      [] x \in Threads -> ThreadEvent(x, v)
      [] x \in Roles -> RoleCreate(x, v)
      [] x \in Users -> MemberAdd(x, v)
      [] x = Guild -> GuildCreate(v, FALSE, FALSE)

Updated(x, v) ==
    CASE x \in Channels -> ChannelUpdate(x, v)
      [] x \in Threads -> ThreadEvent(x, v)
      [] x \in Roles -> RoleUpdate(x, v)
      [] x \in Users -> MemberUpdate(x, v)
      [] x = Guild -> GuildUpdate(v)
      [] x = Me -> UserUpdate(v)

Deleted(x, v) ==
    CASE x \in Channels -> ChannelDelete(x)
      [] x \in Threads -> ThreadEvent(x, v)
      [] x \in Roles -> RoleDelete(x)
      [] x \in Users -> MemberRemove(x, v)
      [] x = Guild -> GuildDelete

(* Handlers that deal with READY and with whole guilds.                    *)
GuildOps == {"announce", "becomeReady", "awaitReady", "created", "deleted", "forget"}
GuildHandlerRuns == \E w \in Workers : \E i \in DOMAIN todo[w] : todo[w][i].op \in GuildOps

GuildHandlersOverlap == overlap' = (overlap \/ GuildHandlerRuns)

(* The worker w takes the dispatch; others is what the others do then.     *)
Make(x, w, others) ==
    /\ ~world[x].live
    /\ world' = [world EXCEPT ![x] = [v |-> @.v + 1, live |-> TRUE]]
    /\ todo' = [others EXCEPT ![w] = Created(x, world[x].v + 1)]
    /\ UNCHANGED <<owed, overlap>>

Alter(x, w, others) ==
    /\ world[x].live
    /\ world' = [world EXCEPT ![x].v = @ + 1]
    /\ todo' = [others EXCEPT ![w] = Updated(x, world[x].v + 1)]
    /\ UNCHANGED <<owed, overlap>>

Delete(x, w, others) ==
    /\ world[x].live /\ x # Me
    /\ world' = [world EXCEPT ![x].live = FALSE]
    /\ todo' = [others EXCEPT ![w] = Deleted(x, world[x].v)]
    /\ IF x = Guild THEN owed' = "no" /\ GuildHandlersOverlap ELSE UNCHANGED <<owed, overlap>>

Pardon(x, w, others) ==
    /\ ~world[x].live
    /\ todo' = [others EXCEPT ![w] = Ban(x, world[x].v)]
    /\ UNCHANGED <<world, owed, overlap>>

(* The TTL of an entry ends.                                               *)
Age(s) ==
    /\ s[2] \in topic
    /\ events < MaxEvents
    /\ events' = events + 1
    /\ Expire(s)
    /\ UNCHANGED <<topic, gateway, unavailable, readers, registered, session, owed, calls, overlap, reported>>

(* Somebody changes x, and the gateway says so.                            *)
Change(x, w) ==
    /\ x \in topic
    /\ session > 0 /\ Idle(w) /\ events < MaxEvents
    /\ events' = events + 1
    /\ Make(x, w, todo) \/ Alter(x, w, todo) \/ Delete(x, w, todo)
    /\ UNCHANGED <<cache, known, owner, crossed, fetched,
                   topic, gateway, unavailable, readers, registered, session, calls, reported>>

(* A dispatch about a user who did not change.                             *)
Mention(u, w) ==
    /\ u \in topic
    /\ session > 0 /\ Idle(w) /\ events < MaxEvents
    /\ events' = events + 1
    /\ world[u].live
    /\ \E handler \in {Ban(u, world[u].v), TypingStart(u, world[u].v), GuildMemberChunk(u, world[u].v)} :
          todo' = [todo EXCEPT ![w] = handler]
    /\ UNCHANGED <<world, cache, known, owner, crossed, fetched,
                   topic, gateway, unavailable, readers, registered, session, owed, calls, overlap, reported>>

Interact(u, w) ==
    /\ {u, Handlers} \cap topic # {}
    /\ session > 0 /\ Idle(w) /\ events < MaxEvents
    /\ events' = events + 1
    /\ world[u].live
    /\ \E member \in BOOLEAN : todo' = [todo EXCEPT ![w] = Interaction(u, world[u].v, member)]
    /\ \E kind \in Kinds : Arrives(w, kind)
    /\ UNCHANGED <<world, cache, known, owner, crossed, fetched, table, made, crashed, astray,
                   topic, gateway, unavailable, readers, registered, session, owed, calls, overlap, reported>>

(* The program changes what interactions are handled by.                   *)
HandlersChange ==
    /\ Handlers \in topic
    /\ events < MaxEvents
    /\ events' = events + 1
    /\ AddCommandHandler \/ RemoveCommandHandler \/ AddInteractionCallback
    /\ UNCHANGED <<cacheVars, topic, gateway, unavailable, readers, registered, session, owed, calls, overlap, reported>>

(* The bot itself changes x: one thread has the answer of the route, if it *)
(* is not lost, and another the dispatch.                                  *)
Modify(x, r, w) ==
    /\ x \in topic
    /\ session > 0 /\ r # w /\ Idle(r) /\ Idle(w)
    /\ calls < MaxCalls /\ events < MaxEvents
    /\ calls' = calls + 1 /\ events' = events + 1
    /\ \E route \in RoutesAbout(x, world[x].v + 1) :
          \E steps \in {<<>>, route.stores} :
             LET others == [todo EXCEPT ![r] = steps]
             IN \/ route.does = "make" /\ Make(x, w, others)
                \/ route.does = "alter" /\ Alter(x, w, others)
                \/ route.does = "delete" /\ Delete(x, w, others)
                \/ route.does = "pardon" /\ Pardon(x, w, others)
    /\ UNCHANGED <<cache, known, owner, crossed, fetched,
                   topic, gateway, unavailable, readers, registered, session, reported>>

(***************************************************************************)
(* Sessions.                                                               *)
(***************************************************************************)
(* The gateway accepts an Identify: READY lists the guild, and GUILD_CREATE *)
(* will follow.                                                            *)
Identify(w) ==
    /\ session < (IF Guild \in topic THEN MaxSessions ELSE 1) /\ Idle(w)
    /\ session' = session + 1
    /\ gateway' = "AUTHENTICATION_SENT"
    /\ todo' = [todo EXCEPT ![w] = Ready(world[Me].v)]
    /\ owed' = IF world[Guild].live THEN "listed" ELSE "no"
    /\ GuildHandlersOverlap
    /\ UNCHANGED <<world, cache, known, owner, crossed, fetched,
                   topic, unavailable, readers, registered, calls, events, reported>>

(* GUILD_CREATE of a guild that READY listed, or whose outage is over.     *)
SendGuild(w) ==
    /\ owed # "no" /\ Idle(w)
    /\ owed' = "no"
    /\ todo' = [todo EXCEPT ![w] = GuildCreate(world[Guild].v, FALSE, owed = "listed")]
    /\ UNCHANGED <<world, cache, known, owner, crossed, fetched,
                   topic, gateway, unavailable, readers, registered, session, calls, events, overlap, reported>>

(* The guild has an outage: instead of a GUILD_CREATE still to come the     *)
(* gateway sends one that says so, otherwise GUILD_DELETE.                  *)
Outage(w) ==
    /\ Guild \in topic
    /\ session > 0 /\ Idle(w) /\ events < MaxEvents
    /\ events' = events + 1
    /\ world[Guild].live /\ owed # "returning"
    /\ owed' = "returning"
    /\ todo' = [todo EXCEPT ![w] = IF owed = "listed" THEN GuildCreate(world[Guild].v, TRUE, TRUE)
                                   ELSE GuildDelete]
    /\ GuildHandlersOverlap
    /\ UNCHANGED <<world, cache, known, owner, crossed, fetched,
                   topic, gateway, unavailable, readers, registered, session, calls, reported>>

(* The connection is lost; a resume brings READY back without the dispatch. *)
Disconnect ==
    /\ gateway = "READY" /\ events < MaxEvents
    /\ events' = events + 1
    /\ gateway' = "UNAUTHENTICATED"
    /\ UNCHANGED <<cacheVars, topic, unavailable, readers, registered, session, owed, calls, overlap, reported>>

Resumed ==
    /\ gateway = "UNAUTHENTICATED"
    /\ gateway' = "READY"
    /\ UNCHANGED <<cacheVars, topic, unavailable, readers, registered, session, owed, calls, events, overlap, reported>>

(* ready: the guilds listed, under the mutex; then the state.              *)
Announce(w) ==
    /\ At(w, "announce")
    /\ readers = {}
    /\ unavailable' = (unavailable \/ Head(todo[w]).listed)
    /\ Then(w, <<>>)
    /\ UNCHANGED <<world, cache, known, owner, crossed, fetched,
                   topic, gateway, readers, registered, session, owed, calls, events, overlap, reported>>

BecomeReady(w) ==
    /\ At(w, "becomeReady")
    /\ gateway' = "READY"
    /\ Then(w, <<>>)
    /\ UNCHANGED <<world, cache, known, owner, crossed, fetched,
                   topic, unavailable, readers, registered, session, owed, calls, events, overlap, reported>>

(* The loop in guildCreate and guildDelete ends.                           *)
AwaitReady(w) ==
    /\ At(w, "awaitReady")
    /\ gateway = "READY"
    /\ Then(w, <<>>)
    /\ UNCHANGED <<world, cache, known, owner, crossed, fetched, dispatchVars>>

(* Mutant: the shared lock is not given back before the exclusive one is   *)
(* asked for.                                                              *)
TellGuildShared(w) ==
    /\ At(w, "created") \/ At(w, "deleted")
    /\ LET tells == ~unavailable /\ registered
       IN /\ Then(w, IF unavailable THEN <<Do("forget"), Do("unshare")>>
                     ELSE IF registered THEN <<Do("callback"), Do("unshare")>> ELSE <<>>)
          /\ readers' = IF unavailable \/ tells THEN readers \union {w} ELSE readers
          /\ reported' = (reported \/ (tells /\ At(w, "created") /\ Head(todo[w]).listed))
    /\ UNCHANGED <<world, cache, known, owner, crossed, fetched,
                   topic, gateway, unavailable, registered, session, owed, calls, events, overlap>>

(* The end of guildCreate and guildDelete: a guild that READY listed is    *)
(* only forgotten; the callback runs with the mutex held shared.           *)
TellGuild(w) ==
    /\ At(w, "created") \/ At(w, "deleted")
    /\ LET tells == ~unavailable /\ registered
       IN /\ Then(w, IF unavailable THEN <<Do("forget")>>
                     ELSE IF registered THEN <<Do("callback"), Do("unshare")>> ELSE <<>>)
          /\ readers' = IF tells THEN readers \union {w} ELSE readers
          /\ reported' = (reported \/ (tells /\ At(w, "created") /\ Head(todo[w]).listed))
    /\ UNCHANGED <<world, cache, known, owner, crossed, fetched,
                   topic, gateway, unavailable, registered, session, owed, calls, events, overlap>>

ForgetGuild(w) ==
    /\ At(w, "forget")
    /\ readers = {}
    /\ unavailable' = FALSE
    /\ Then(w, <<>>)
    /\ UNCHANGED <<world, cache, known, owner, crossed, fetched,
                   topic, gateway, readers, registered, session, owed, calls, events, overlap, reported>>

Unshare(w) ==
    /\ At(w, "unshare")
    /\ readers' = readers \ {w}
    /\ Then(w, <<>>)
    /\ UNCHANGED <<world, cache, known, owner, crossed, fetched,
                   topic, gateway, unavailable, registered, session, owed, calls, events, overlap, reported>>

(***************************************************************************)
(* Callbacks, and the threads of the program.                              *)
(***************************************************************************)
LookForCallback(w) ==
    /\ At(w, "ifRegistered")
    /\ \/ registered /\ Then(w, <<>>) /\ UNCHANGED crossed
       \/ /\ ~registered
          /\ todo' = [todo EXCEPT ![w] = <<>>]
          /\ crossed' = crossed \union Head(todo[w]).misses
    /\ UNCHANGED <<world, cache, known, owner, fetched, dispatchVars>>

(* onGuildCreate or onGuildDelete, which may call the API.                 *)
RunCallback(w) ==
    /\ At(w, "callback")
    /\ \/ Then(w, <<>>) /\ UNCHANGED calls
       \/ /\ calls < MaxCalls
          /\ calls' = calls + 1
          /\ \E c \in UNION {CallsAbout(x) : x \in topic} : Then(w, <<c>>)
    /\ UNCHANGED <<world, cache, known, owner, crossed, fetched,
                   topic, gateway, unavailable, readers, registered, session, owed, events, overlap, reported>>

CallApi(w) ==
    /\ session > 0 /\ Idle(w) /\ calls < MaxCalls
    /\ calls' = calls + 1
    /\ \E c \in UNION {CallsAbout(x) : x \in topic} : todo' = [todo EXCEPT ![w] = <<c>>]
    /\ UNCHANGED <<world, cache, known, owner, crossed, fetched,
                   topic, gateway, unavailable, readers, registered, session, owed, events, overlap, reported>>

Register ==
    /\ ~registered
    /\ registered' = TRUE
    /\ UNCHANGED <<cacheVars, topic, gateway, unavailable, readers, session, owed, calls, events, overlap, reported>>

Init ==
    /\ CacheInit
    /\ world = [x \in Objects |-> [v |-> 1, live |-> x \in Born]]
    /\ topic \in Topics
    /\ gateway = "UNAUTHENTICATED"
    /\ unavailable = FALSE /\ readers = {} /\ registered = FALSE
    /\ session = 0 /\ owed = "no"
    /\ calls = 0 /\ events = 0
    /\ overlap = FALSE /\ reported = FALSE
    /\ table \in [Kinds -> IF Handlers \in topic THEN {None, 1} ELSE {None}]
    /\ made = 1
    /\ routes = [w \in Workers |-> NoRoute]
    /\ crashed = FALSE /\ astray = FALSE

WorkerStep(w) ==
    /\ ~crashed
    /\ \/ CacheStep(w) /\ UNCHANGED botVars
       \/ /\ RouteInteraction(w) \/ RunHandler(w)
          /\ UNCHANGED <<world, cache, known, owner, crossed, fetched, dispatchVars>>
       \/ /\ \/ Announce(w) \/ BecomeReady(w) \/ AwaitReady(w)
             \/ TellGuild(w) \/ ForgetGuild(w) \/ Unshare(w)
             \/ LookForCallback(w) \/ RunCallback(w)
          /\ UNCHANGED interactionVars

Outside ==
    \/ \E w \in Workers : CallApi(w) \/ Identify(w) \/ SendGuild(w) \/ Outage(w)
    \/ \E w \in Workers, x \in Objects : Change(x, w)
    \/ \E w \in Workers, u \in Users : Mention(u, w)
    \/ \E r, w \in Workers, x \in Objects : Modify(x, r, w)
    \/ \E s \in Slots : Age(s)
    \/ Disconnect \/ Resumed \/ Register

Next ==
    \/ \E w \in Workers : WorkerStep(w)
    \/ /\ ~crashed
       /\ \/ Outside /\ UNCHANGED interactionVars
          \/ \E w \in Workers, u \in Users : Interact(u, w)
          \/ HandlersChange

Fairness == \A w \in Workers : WF_vars(WorkerStep(w))

Spec == Init /\ [][Next]_vars /\ Fairness

-----------------------------------------------------------------------------
Has(q, op) == \E i \in 1..Len(q) : q[i].op = op

(* A lock that is held over a call is given back by a step still to come   *)
(* of whoever holds it.                                                    *)
LockInv ==
    /\ \A m \in Mutexes : owner[m] # NoOne =>
          \E i \in 1..Len(todo[owner[m]]) :
             LET t == todo[owner[m]][i]
             IN \/ t.op = "unlock" /\ t.x = m
                \/ t.op = "storeGuildChannels" /\ m = "channels"
    /\ \A w \in readers : Has(todo[w], "unshare")

(* The types of the caches, of the mutexes and of what handlers remember;  *)
(* no step that takes a mutex forgets to give it back.                     *)
TypeOK ==
    /\ world \in [Objects -> [v : 1..(1 + MaxEvents), live : BOOLEAN]]
    /\ cache \in [Slots -> 0..(1 + MaxEvents)]
    /\ owner \in [Mutexes -> Workers \union {NoOne}]
    /\ \A w \in Workers : Len(todo[w]) <= 4
    /\ LockInv
    /\ {known, unavailable, registered, overlap, reported, crashed, astray} \subseteq BOOLEAN
    /\ owed \in Debts
    /\ table \in [Kinds -> 0..made \union {Null}] /\ made \in 1..(1 + MaxEvents)
    /\ routes \in [Workers -> [kind : Kinds, meant : 0..made \union {Null}, changed : BOOLEAN]]
    /\ crossed \subseteq Slots /\ fetched \subseteq Lists /\ readers \subseteq Workers
    /\ gateway \in {"UNAUTHENTICATED", "AUTHENTICATION_SENT", "READY"}
    /\ session \in 0..MaxSessions /\ calls \in 0..MaxCalls /\ events \in 0..MaxEvents

OnItsWay(s) == \E v \in Carried(s) : Right(s, v)

(* What a cache answers with is what the API would, or a handler that is   *)
(* still running brings the news.  The TTL has to make up for three        *)
(* exceptions: two threads were about to write the entry at once; nobody   *)
(* registered for the event that changed it; or what was deleted is a      *)
(* member who left, a thread or the guild itself, which no handler erases. *)
CacheIsCurrent ==
    \A s \in Slots :
        s[1] \notin Lists \union {"@me"} =>
            Right(s, cache[s]) \/ OnItsWay(s) \/ s \in crossed

(* The ids of channels and of roles, once a list was stored as a whole,    *)
(* miss nothing and name nothing deleted, with the same exceptions.        *)
(* Before that getGuildChannels and getGuildRoles answer with what         *)
(* happened to be inserted one by one.                                     *)
IndexIsComplete ==
    \A s \in Slots :
        s[1] \in Lists /\ (s[1] \in fetched \/ cache[s] = 1) =>
            Right(s, cache[s]) \/ OnItsWay(s) \/ s \in crossed

(* onGuildCreate is not called for the guilds the bot already was in when  *)
(* it started: guildCreate waits until ready has listed them - unless a    *)
(* session, a GUILD_DELETE or an outage began while the handlers before it *)
(* ran.  An outage takes a guild off the list, silently: it is reported    *)
(* like a new one when it comes back, and is not meant here.               *)
StartupIsSilent == reported => overlap

(* Every call and every handler ends, when the shard stays READY, unless a *)
(* thread locks a mutex it already holds: getGuildUser and getGuildRoles   *)
(* fetch, and store what they fetched, under the lock they read with.  No  *)
(* other order of the locks of the caches, of a callback under the mutex   *)
(* of unavailable guilds and of REST calls under locks blocks anybody.     *)
Returns ==
    (<>[](gateway = "READY" /\ ~crashed /\ \A w \in Workers : ~SelfLocked(w)))
        => \A w \in Workers : []<>Idle(w)

=============================================================================
