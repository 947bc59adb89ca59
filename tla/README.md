# MeowLib in TLA+

TLA+ specifications of the concurrent core of MeowLib, a C++23 library for
Discord bots, with the TLC configurations that check them on small instances and
the TLAPS proofs that hold for all. Paths are relative to the repository, which
has no tests: the reference is the code and its doc-comments.

## The system

A `NyaBot` starts one `Shard` per gateway connection. Each shard has a listen
thread that owns its websocket; every dispatch it receives is handled in a
detached thread of its own. User code calls the library from any thread.

| Part | State | Operations | What makes it hard |
|---|---|---|---|
| Gateway shard (`shard.cpp`, `recv.cpp`, `dispatchHandlers/state.cpp`) | gateway state, sequence number, session id, resume URL, connection | connect, hello, identify, resume, listen, reconnect; READY and RESUMED | the READY thread writes what the listen thread resumes from; broken, silent and closed connections at any point of the handshake |
| Bot lifecycle (`initConnection.cpp`) | `stop`, the shards, `runMtx`/`runCv` | `run`, `close`, SIGINT, the destructors | stop from any thread, a condition variable notified without its mutex, joins |
| REST client (`restclient.cpp`) | global limit (two atomics), table of user limits | `sendRawData` under six wrappers | many threads, retries, rate limits shared between requests, stop |
| LRU cache (`lrucache.h`) | map and doubly linked list on the heap | insert, get, erase, clear, setMaxSize | a `tl` pointer left dangling, four relinkings |
| Member requests (`guild.cpp`, `dispatchHandlers/guild.cpp`, `guild.h`) | table from nonce to task, send queue | the coroutine `requestGuildMembers`, chunks, RATE_LIMITED | one thread per chunk, resuming a coroutine from another thread |
| `MeowAsync` (`async.h`) | promise with mutex and condition variable | `join`, `done`, return, final suspension | notification against final suspend point |
| Object caches (`cache.h`, `user.cpp`) | LRU caches of users, channels and guilds with a 10 minute TTL, the current user | get (read through), insert, erase | a fetch racing a dispatch: nothing orders what is stored |
| Guild cache (`guild.cpp`, `guild.h`) | members, channel ids and roles of every guild, three mutexes each | get, fetch, insert and remove of each | locks held over REST calls, an index taken for complete |
| Dispatch handlers (`dispatchHandlers/`) | unavailable guilds, caches | one per event | handlers of consecutive events run in any order; callbacks under a lock |
| REST routes (`channel.cpp`, `guild.cpp`, `user.cpp`, ...) | none | what the API is told, and what of the answer is cached | the answer races the dispatch about the same change, or is lost |
| Replies and messages (`interaction.cpp`, `componentInteraction.cpp`, `message.cpp`, `emoji.cpp`, `automod.cpp`) | none of their own: the interaction, the message at the API | respond, edit, follow up, delete; make, change, remove, react | a request whose answer was lost is sent again; one interaction, one reply |
| Interactions (`dispatchHandlers/interactions.cpp`, `nyaBot.h`) | tables of handlers, without a lock | register, remove, look up and call | looked up twice |
| Voice connection (`voice/`, `dispatchHandlers/voice.cpp`) | voice info, states, two threads | connect coroutine, server update, listen, reconnect, close | two events complete the information, a task erased under a handler |
| Voice sender (`voice/speaking.cpp`, `opus.cpp`) | two packet queues | send, udpLoop, flush, silence | three condition variables, none notified under the mutex of its wait |
| DAVE (`voice/dave/`) | MLS states, pending transition, encryptor | epochs, proposals, commits, welcomes, transitions | the order of the messages; the encryptor replaced while another thread uses it |
| Event registration (`events.cpp`) | the user's functions | one assignment each | set while handlers look for them |
| Commands, objects, component builders, presence, helpers | none that outlives a call | conversion between JSON and structs | none: not modelled |

How they interact: the listen thread routes dispatches to handlers, handlers
write the shard's session, the caches, the table of member requests and the voice
tasks; coroutines and `globalSend` push payloads into the shard's queue, which the
listen thread drains; everything reads `NyaBot::stop`, which any shard may set.

`PROJECT.json` lists every component with its sources, the hazards at their
lines, and which definition models which lines.

## The modules

**Shard** models a shard against the gateway and the network.
`state`, `sequence`, `sesId` and `resumeUrl` are the members of `Shard::api`, `stop`
is the bot's; `pc` is where the thread running the shard is. `connect()` is
`ConnectOk`/`ConnectFails`/`ConnectGivesUp`, `getHeartbeatInterval` is
`HelloOk`/`HelloFails`, sending Identify or Resume `AuthSent`/`AuthDropped`/`AuthThrows`,
the loop of `listen` is `LoopTurn`, `AckTimeout`, `LoopExit` and one `Recv...` action per
kind of frame, and `Reconnect` is the part of `reconnect` before `connect()`. The
detached READY thread is three steps in the order of its stores: `StoreSession`,
`StoreUrl`, `BecomeReady`. The gateway opens sessions, numbers events, replays them on
a resume, forgets sessions, closes with any code; the network breaks the
connection with any prefix of what is in flight delivered, or goes silent. A
failure costs one of `MaxFaults`. An exception of `wsSend` outside the try block -
from the handshake in the constructor or in the catch block - is the position
`crashed`.

Abstracted: heartbeats and the ping; backoff durations; the text of URLs (whether
there is one remains); malformed JSON; the torn writes of two `std::string`s,
which are undefined.

**BotLifecycle** models the thread that calls `run()` and then destroys the bot, the
listen threads seen from outside (turning their loop, ending it by its condition
or by the early return on a CLOSE frame, setting `stop` fatally), and whoever sets
`stop`. The wait in `run` is two steps, looking at `stop` and blocking, because neither
the store nor the notification takes `runMtx`.

**RestClient** models `sendRawData` by several threads. Every access of the shared
tables is a step: the two atomics of the global limit one after the other, the
user table found, read with `operator[]` (which makes an entry), written and
erased. Durations are kept only as far as they can be zero. `retryCount` and
`timeToWait` are those of the code. A `retry-after` header is assumed present and
positive with every 429, as the API documents.

**LruCache** models `lrucache.h` down to its pointers: `list` holds `hd`, `tl` and
the fields of every heap node, a new node may take any free address. An operation is
one step, since its users hold a mutex. **Lru** is what it promises: a sequence of
pairs, most recently used first. `LruCache!Promise` maps the one to the other by
following the list from its head. Sizes below 2 are excluded by `LruAssumption`: with one
element the eviction follows a null pointer, and the library makes caches of 1000.

**MemberRequests** models `requestGuildMembers` with its task, its `MeowAsync` and the
shard's queue, the thread of every chunk and the rate limit. `guildMemberChunk` is `Contains`,
`Lock`, `Collect`, `Resume`, `FinalSuspend`, `EraseTask`; `Suspend` is `co_await`; `join` looks, then
blocks on the promise's condition variable.

**GuildCache** models the caches and the calls that read through them. `todo[w]` is the
stack of what a thread still has to do: a step that calls something is replaced by the
steps of what it calls, so that a mutex held over a call is held in between, and what
was read before a call is used after it. An object is a version, 0 is no entry;
`world` is what the API would answer. Where the code copies or tests a table without its
mutex, so does the step. `Expire` is the end of an entry's TTL, and eviction.

**ApiRoutes** lists the routes with which the bot changes an object: what the API does and
what of its answer the caller stores - the caller that is not told stores nothing.
**Interactions** has the two ways handlers are kept: a command owns its handler, which is
replaced and removed, components have functions of which the first stays.

**Replies** models the routes with which an application answers an interaction and keeps messages, emojis and rules.
A route is what it asks for and the status it takes for success; `Call`, `Perform`, `IOError` and `Answered` are `sendRawData` around one
request. Unlike RestClient, which counts what one request does to the limits, it has the other end: an I/O error may come
before the API met the request, after it (`answer`), or while it is under way (`strays`), and the API meets that one later or never.
`done` counts how often the API did what a call asked for. An exception in the caller is the position `threw`.

**Dispatch** composes the three before that. Every handler is a sequence of steps with the name of its
function (`Ready`, `GuildCreate`, `ChannelDelete`, ...); a dispatch takes an idle worker when the
gateway sends it, and runs whenever that worker moves. So handlers run in every order, and
answers of fetches and of routes come at every point between. `ready` announces the
guilds and becomes READY in two steps, `guildCreate` waits for it and then `TellGuild` and
`ForgetGuild` do the end of it under the shared and the exclusive lock. An outage of the guild
(`Outage`) comes as GUILD_DELETE, or in place of a GUILD_CREATE still owed as one that `guildCreate` hands to
`guildDelete`; when it is over `SendGuild` sends the guild. A callback that is the last
thing in a handler is a call of an idle worker. Sessions are identified again
(`MaxSessions`) or resumed. A null handler that is called ends the process (`crashed`).

**VoiceSender** models the application's thread that queues frames, the UDP thread that makes
a packet of one ahead of the one it sends, and the silence at the end.
A thread between a false predicate and its sleep is `blocking`, and misses a notification,
unless the notifier needs the mutex it holds. **VoiceConnection** adds the
rest: `connect` with `AwaitReady`, `AwaitSuspend` and `ConnectBody`; the handlers of the two updates as
`SetInfo`, `CheckReady`, `TakeInfo`, `Resume`, `Resumed`, between which another thread may take or erase
the task; the listen thread by message and by close code; `close` by the points where it blocks. A
voice server is a number, and so are its endpoint, ssrc and key. `died` says why the
process ended: a hello that did not come (`getHello` terminates, or parses nothing), a task used
after it was erased, a coroutine resumed twice, a bot or a Dave that is not there, the assertion on the ssrc.

**Dave** models the session as the messages of the voice gateway drive it, `pendingState`,
`currentState`, `cachedState` and `commitState` as the epochs they stand for, and the encryptor the UDP
thread uses meanwhile: `createEncryptor` is a step per field, a frame is `Turn`, `Seal` and `Number`. MLS and the
gateway are external: the gateway takes the bot's commit or another's, welcomes,
prepares and executes transitions, goes down to version 0 and up again, and takes out a bot that
said it could not follow. Exceptions of the MLS library that nobody catches are `died`.

`MCShard`, `MCRestClient`, `MCLruCache` and `MCDave` give constants their values where a cfg
cannot. A definition whose comment begins with "Mutant:" is not part of the model:
it is the definition below it with a plausible bug, and a property named in
`PROJECT.json` is violated when it takes that definition's place.

## What is checked

| Run | Shows |
|---|---|
| `MCShard.cfg` | `ExactlyOnce`: over all resumes and replays no dispatch is skipped or routed twice. `ResumeMatchesSequence`, `ReadyMeansAccepted`: the session id and READY, written by another thread, fit the connection - unless a reconnect overtook that thread. `ResumeNamesSession`: no resume before there is a session. `Settles`, `StopEndsListen` |
| `MCShardStale.cfg` | violated: without that exception, READY may be stale (`getCurrentState`) |
| `MCBotLifecycle.cfg` | `NoThreadOutlivesShard`, `StartWindow` (at most `MaxConc` shards between two pauses, one more before the first and only there), `DestructorEnds`, `StopWakesRun` (the wakeups that do work) |
| `MCBotLifecycleClose.cfg` | violated: `close()` does not always make `run()` return |
| `MCRestClient.cfg` | `LimitsHaveOwners`: no limit outlives the request that set it. `LimitIsWaitedOut`: whoever knows of a limit waits. `IOErrAfterRetries`, `StopCutsRetries`, `RequestsReturn` |
| `MCLruCache.cfg` | `IsLru` (refinement of `Lru`), which bounds the size, `NoBadPointer`, `NothingLeaks` |
| `MCMemberRequests.cfg` | `JoinedIsComplete`, `ResumedOnce`, `TableIsClean`, `Completes` - each with its exceptions named in the formula: an overtaken chunk, a lost payload |
| `MCMemberRequestsJoin.cfg` | violated: `join` may miss its only notification |
| `MCDispatch.cfg` | `CacheIsCurrent`: what a cache answers is what the API would, or a running handler brings the news, or it is one of the exceptions below. `IndexIsComplete`: the same of channel ids and roles, once a list was stored as a whole. `StartupIsSilent`: `onGuildCreate` is not called by the GUILD_CREATEs READY announced; a guild that comes back from an outage is reported, since the outage takes it off the list. `InteractionsArrive`. `Returns`: every call and handler ends - no deadlock but of a thread with itself |
| `MCReplies.cfg` | `AnswersAreTrue`: a call that returned success did what it was called for, whatever was lost; one that returned an error did not, and none did it twice - unless a request was given up that the API may have met |
| `MCVoice.cfg` | `ConnectsOnce`: the coroutine goes on once, with both halves of the information. `PacketsInOrder`: frames go out in order, sequence numbers count packets without gap, no nonce is used twice, through silence and where the numbers wrap. `OneStalePacket`: after a session description at most one packet has the old key. `NobodyForgotten`: no thread is left asleep by `close`, or in `flush` |
| `MCDave.cfg` | `NonceOnce`: no key encrypts two frames with a nonce. `FramesAreReadable`: receivers can tell the key from the nonce they are told. `SpeaksAsExecuted`: once all messages are handled the bot speaks with the key executed last |

The three violated runs are the findings of `PROJECT.json`; each states a
doc-comment. The exceptions in the other properties (`overtaken`, `crossed`, `torn`,
`crowded`, `remade`, `overtook`, `lost`, `overlap`, `raced`, `early`, `changed`, `gaveUp`) are history variables that no guard
reads: they record that two threads met in the one way the code does not handle,
and everything else must still go right. Such a meeting is thus not covered, and
`PROJECT.json` names it in the note of the hazard, never as what a property covers. What they stand for is worth knowing:

- `crossed`: two threads were about to write the same entry, as a fetch and a dispatch, the answer
  of a route and its dispatch, or two dispatches: the older may be stored last, and stays for the TTL
  (an id in an index: for ever). Or nobody registered for the role events, whose
  handlers return before they store anything.
- not a history variable but of the same kind is `Kept` in GuildCache: members who left, deleted threads
  and a guild the bot left are erased by no handler, and a cache that still has them counts as right.
- `gaveUp` in Replies: an I/O error came when the API had met the request or still could.
- `overlap` in Dispatch: another session, a GUILD_DELETE or an outage began while handlers of the one before still ran.
- `changed`: the handler of the command was replaced or removed under the interaction: it may be
  called as a null pointer.
- `torn` in RestClient: two requests were in the window of the global limit at once, or one read the first atomic
  before and the second after a change: the one may be told a length of zero and send at once. `crowded`: two were limited
  at one endpoint, and the first erases what the second stored. `remade`: an entry erased between
  `find` and `operator[]` is made again and stays, empty.
- `raced`: both handlers of a voice update found the task ready, so that the second takes a
  blank one or resumes again; `early`: the update came between `await_ready` and `await_suspend`, and the
  coroutine is never resumed.
- `lost` in VoiceSender: a notification sent while the thread was about to block.
- `torn` in Dave: the encryptor was replaced under a frame, whose increment of the nonce survives.
- `overlap` in Dave: only one transition is remembered, so of two the first is executed unheard.

`Returns` has its exception in the formula (`SelfLocked`): `getGuildUser` for a user who is cached and
whose membership is not, and `getGuildRoles` when there are no roles, fetch and
store under the lock they read with, and never return.

Not a property, but seen while modelling: `channelDelete` closes a voice connection by a
channel id that `voiceServerUpdate` has moved out of the task, so it finds one only
between the two updates; `getConnectInfo` is never called; `addSlash` of an rvalue registers no handler;
`modifyCurrentUser` stores the user and not the copy `getCurrent` answers with.
`IOErrAfterRetries` counts one retry more than `setRetryAmount` was given ("the amount of times to retry",
`nyaBot.h:238`), since `restclient.cpp:125` tests before it increments. A `create` whose first answer was lost makes two messages.
And `createFollowUpMessage` of a Message without attachments always throws: `interaction.cpp:105` passes `a.generate()` where every
other route passes its `dump()`, and a JSON object does not convert to a string; the model takes such a call to `threw`.

### Bounds

- Shard: two faults, because the interesting cases are a reconnect that meets a
  second failure, and one that overtakes a READY thread that is then resumed from;
  sessions number one more than faults, so that the gateway never runs out of
  them; two events per session before resumes, enough to lose one and replay it;
  close codes one per branch of the switch. `RetryAmount` 2: one failed attempt and
  the limit.
- BotLifecycle: six shards with a pause after every second give a first stretch of three, a full
  one of two and a partial one, and would give a second of three if the code did. The finding needs one shard.
- RestClient: two threads at one endpoint, since every window is between a writer
  and a reader or two writers; two limits let both be writers; seven retries make
  the doubled wait reach its cap.
- LruCache: five keys and lists of up to four nodes have a head, two middles and a
  tail, and eviction before and after the size changes; five addresses leave one to
  be reused. Keys and addresses are symmetric.
- MemberRequests: two requests share the queue, two chunks can overtake; one rate
  limit and one loss.
- Dispatch: two workers, since every race of the code is between two accesses; two events and one
  call reach a fetch that is crossed by a change and by the end of an entry. A behaviour is about one
  of `Topics`, a small set of objects that share an entry, an index or a mutex: the two channels (for the list of
  ids), a role, a user, the bot, a thread, the guild, the handlers of interactions.
  Two sessions, of which the second begins in the first. `Born` has what exists at the start.
- Replies: two calls, of two threads or one after the other, for nothing is shared but the interaction and what is
  removed once; one retry, so that a request is sent up to twice and IOERR is reached. The system really stops when
  all calls are done.
- Voice: three frames, silence of two packets, two voice servers and one failure of the connection;
  sequence numbers wrap at 3 and nonces at 7, of which 5 is the first: a behaviour makes six packets at most. A behaviour begins before `connect` and only connects and closes, or after it
  and has all the rest: the two parts share no variable but `task`, and together exceed what TLC can reach.
- Dave: two other users, symmetric; generations of two nonces and a nonce of two generations, so that five frames turn
  the generation and wrap the nonce; three commits and two moves reach a commit while a transition is
  pending, a welcome after an expulsion, and a new group after a downgrade. Four messages in flight.

### Fairness

Weak fairness on every thread of the program: threads are scheduled, sleeps and
blocking calls end. Not on faults, on user calls, on `Stop` or on spurious wakeups. In
Shard also: the gateway answers what it is asked and closes a connection that
does not authenticate (assumptions on the environment), and strong fairness of
`AckTimeout` on a silent connection: the step is disabled whenever the thread is in
`wsRecv`, but the 60 second clock it compares with only grows. In Dispatch only the workers are fair, and `Returns`
asks for a shard that stays READY. VoiceConnection and Dave state no fairness: that close
and flush come back is `NobodyForgotten`, which says of every state that nobody sleeps whom no
one will wake, and needs none; the graph is too large for TLC's liveness check. In RestClient the server
limits finitely often (`MaxLimits`). I/O errors need no bound: the code counts them.

## What is proved

`ShardProofs` proves, for every `RetryAmount`, `MaxSeq`, `MaxFaults` and set of `CloseCodes`
(`ShardAssumption`), that the specification of the shard keeps `TypeOK` (`ShardTypeOK`) and
implies `ExactlyOnce`, `ResumeMatchesSequence`, `ReadyMeansAccepted` and `ResumeNamesSession`.

None of these is inductive: what is routed next is in flight, and was put there
because of an earlier Resume. The inductive invariant `Inv` (`ShardInv`) has five parts:

- `ConnInv`: what may be in flight depends on the server's position - the frames of one
  connection belong to its session, an acceptance comes first and once;
- `OwnerInv`: which session the connection, the Resume and the numbers belong to;
- `NumberInv`: the numbers in flight continue the sequence number the shard has, or
  the one it asked to resume from, without gap;
- `ThreadInv`: a READY thread that still runs was started on this connection, or it was
  overtaken;
- `NameInv`: the session id is stored before the URL, and names the session whose number
  is stored, unless a thread was overtaken.

The proof has one lemma per action or group of actions, and one step per part of
`Inv` that the action can disturb.

`BotLifecycleProofs` proves, for every number of shards and every concurrency from 1 up:
types, `NoThreadOutlivesShard` and `StartWindow`. The first follows from `JoinInv`: only
the destructor counts `joined` up, a shard not started has no thread, and a listen thread
that still moves belongs to a started shard that is not joined yet. The second needs
`PaceInv`, because `burst` alone forgets how many shards there are: while run goes on
starting, either it is in the first stretch and `burst` is the number of shards, or
`started = k * MaxConc + 1 + burst` for the k pauses so far with `burst < MaxConc`. The
shard that fills a stretch is thus the one with `started % MaxConc = 0`, and the pause
follows. Only a stretch that no pause precedes (`burst = started`) may have one more, which is what `StartWindow`
says. A stop in between, or a single shard, leaves the invariant without more starts.

`RestClientProofs` proves, for every set of requests and endpoints, every `RetryAmount` and every
number of limits, all the safety of the client. `OwnerInv` says which request a limit
belongs to by where that request is: an atomic is set only between the two steps in which someone
stores and clears it, an entry is `set` only between the store and the erasure. `WaitInv` adds that
the window of the global limit has one request at most while nothing was torn, and one
per endpoint where nobody met: only then is the length still there when the request that
knows of it comes to sleep. `RetryInv` ties the retries counted to the errors seen, `StopInv` keeps
whoever has sent after `stop` on the way to its next test of `stop`, or done.

`MemberRequestsProofs` proves, for every number of requests, chunks, limits and losses, that no
coroutine is resumed twice and, where the last chunk overtook nothing, that what is joined is complete
and the table is clean. `MemberInv` has four parts: `AskInv`, a request is in one place at a time (at its caller,
in the queue, with the server, in the sleep of a limit, or answered), without which a second
answer could resume it again; `LastInv`, only the last chunk fills, resumes and erases; `TaskInv`, until
it erases, the task holds what the threads have collected; `ResumedInv`, what it found
when it came in order. `TypeOK` says of the mutex of a task's users that one thread is between its lock and its release (`OneLock`).

`DaveProofs` proves all three properties of Dave for every number of users, commits, moves and frames.
`NonceOnce` and `FramesAreReadable` hold for every `GenSize` that divides a larger `NonceSize`: with a single generation the nonce would
wrap under the same key, and `TurningsAreTwo` and `NextNonce` are where the proof needs it.
`DaveInv` has four parts. `OrderInv`: commits and welcomes arrive in the order of their epochs, all later
than what the session has, and only the first comes with transition 0. `RestInv`: what is left of
`createEncryptor` agrees with the key ratchet, which a transition that is announced will move forward.
`SpentInv`: a key that was used, is sealed with or is in the encryptor is of no later epoch than the ratchet,
so a new epoch finds no frame of its own. `WholeInv`: until a frame was torn, no
frame is being encrypted while the fields are reset one by one, and at all other times the
encryptor is `Numbered` - its key is the ratchet's at its generation, and the nonce is either of that generation
or opens the next, so every frame of this key had a smaller nonce.

`SpeaksAsExecuted` rests on `SpeaksInv`, which follows a transition from its announcement to the encryptor:

- `CountInv`: transitions are numbered apart, and two are outstanding only where they overlap;
- `TargetInv`: on the way to version 0 nobody commits, so what is announced or executed last is that way;
- `FirstInv`: nothing is announced before the group is created, so `createEncryptor` makes the first encryptor and leaves no
  old one that passes through;
- `PendingInv`: when the bot comes to the end of its inbox it will know the transition announced last (`Pending`) - it remembers it
  now, or its announcement is still to come, and no message behind forgets it;
- `ExecutedInv`: either the execution is still in the inbox, behind an announcement that is pending there and before nothing that takes it back
  (`After`), or the encryptor and what is left of `createEncryptor` end with what was executed (`Will`).

A frame that is torn changes a generation or a nonce, not the epoch in the end: the key is written last, from a ratchet that already
has the epoch. So nothing is excepted here for the UDP thread. The proof needs that `None`, the nullopt of the
code, is no number, record or word (`NoneAssumption`).

`LruCacheProofs` proves, for every set of keys, values and addresses and all sizes from 2 up, that the cache
follows no pointer to a deleted node, leaks none, grows only to its size, and implements `Lru`. The
invariant `IInv` says that there is a list: some n and some function from 1..n to the nodes (`ListInv`) which the pointers
follow to and fro (`Linked`), with no node twice (`Distinct`), whose nodes are those allocated and those the map holds, each under
its key (`Mapped`). No variable holds that function, so every operation is shown to map it to another: to `Pushed`,
`Removed` or the list with one node moved to the front. The refinement needs two things more. `Follow` walks from the
head by a recursive function, and that it comes through the list is an induction on the place, by the well-founded order of
the naturals. And `Size` is the length of the list, for the map is a bijection between its keys and the nodes.

`VoiceProofs` proves the four properties of VoiceConnection for every number of servers, frames, packets of
silence and failures, every `SeqSize` and `NonceSize`. Types need `HandInv` (the UDP thread has a packet when it
sends one), so `VoiceInvariant` proves types and `SendInv` together; the others rest on it.

- `ConnectsOnce` from `ConnectInv`: what is still to be told has been taken by nobody (`ToldInv`), so only one handler takes it, and takes it
  whole, unless two raced (`TakenInv`); and the handle is there from the suspension until who resumed the coroutine is back (`HandleInv`).
- `NobodyForgotten` from `ForgetInv`, which adds that who closes has stopped the connection before, and that the UDP
  thread on its way from one sleep to the next over an empty queue has woken flush.
- `OneStalePacket` from `SendInv`: the key in use is that of the last description (`KeyInv`), a server is never described again after a
  later one (`Settled`), and once an old packet went out after a description, the one in hand has the new key (`Speaks`).
- `PacketsInOrder` from `CountInv`: until the silence, the packets on the wire, the one in hand and the frames in
  the queue are numbered 1, 2, 3, ... without gap, and the counters are that number modulo their size. It holds wherever the sequence
  number wraps, but a nonce is not used twice only as long as there is one for every packet: the theorem assumes
  `MaxFrames + Silence <= NonceSize`, as the run does. In the code these are 2^32 packets of 20 ms on one connection.

`DispatchProofs` proves the safety of Dispatch for every set of workers, of channels, threads, roles and users, for every
set of topics, and all bounds (at least one session): `TypeOK`, `CacheIsCurrent`, `IndexIsComplete`, `StartupIsSilent` and
`InteractionsArrive`. None is inductive, because what a cache will say is in the stacks of the workers. `DispatchInv` has six parts:

- `TypeInv`: types, where a stack is a sequence of `Steps`, each operation with the arguments it takes;
- `GoodInv`: the shape of every stack - no slot is written by two of its steps (`Apart`), nothing is written after something is
  still asked for (`AsksLast`), the look for a callback comes first (`LooksFirst`), the end of a guild's
  handler last (`TellsLast`), and at most four steps are left (`Short`, by the length each step may grow to). A step may be
  replaced only by what `Fits` it, and that keeps the shape;
- `LockInv`: whoever holds a mutex has the step still to do that gives it back;
- `CacheInv`: a slot was crossed; or what is true of it is coming, from a worker that will not turn away without crossing it out
  (`Sure`); or nobody brings anything that is wrong and the cache is right (`SlotInv`). The middle case is why a stale answer that is stored
  over a new one is always a crossing. An id in a list only has to be right once somebody has stored, or is about to store, the whole list (`Needed`);
- `SilentInv`: while READY's handler has the guilds to announce, it is the only one that can make the shard ready, and every
  handler of a listed guild still waits for that; once it is done, the guild is listed until its one handler has asked;
- `ArriveInv`: an interaction on its way, whose command nobody touched, is meant for what the table holds.

`CacheInv` does not say of the entry that `get("@me")` makes that it is right: no dispatch replaces it. What is true is weaker and enough for the copy
of the current user (`MeInv`): it is right, or the copy is there, and then nobody reads the entry any more.

The proof says first what one step of any worker may do (`Turn`: replace its first step by what `Fits`, and store what that step
carried, or only what is true), that each operation of GuildCache is such a turn, and that a turn keeps the parts. Then that every handler, call
and route is `Good` from the start and brings news of the object that changed, so that what an idle worker takes up (`TakesUp`) keeps them too.

Only model-checked: all liveness, for it needs fairness and ENABLED. Every safety property that a passing run checks is also proved, but for that
of Replies, whose graph TLC covers whole, and whose calls do not interact beyond the API.

## Not modelled

- Data races as such: an access of an unordered map or a string without its mutex is one step, and what
  two of them do to its insides is undefined. Deserialization, and what an exception in it does to a
  detached thread.
- Members are not forgotten when they leave, nor a guild the bot leaves, nor deleted threads,
  which `threadDelete` inserts: `CacheIsCurrent` allows what no handler ever erases (`Kept`). What changes between
  two sessions is not told by dispatches and not modelled: the TTL is all there is against it.
- The other routes that cache nothing (scheduled events, invites, threads, typing, and all that only ask), what a message
  says, so also which of two edits is met last, `createDM` (no dispatch
  tells of its channel), and handlers
  that only deserialize an event and call the user's function.
- An outage that begins while the bot is disconnected. That the voice connection is closed between the two steps of
  `channelDelete`, which only delays the second.
- Voice: two threads that close at once, the heartbeat (whose time-out says it reconnects and does not), the
  waits without a time-out of IP discovery, and a second `connect`. A move of the bot to another
  server is one step of the handlers, since nobody waits for a handle then. The test of READY and stop in `sendOpusData` (`opus.cpp:50`) is one
  step with the queue it is followed by, and clearing the handle (`voiceconnection.cpp:227`) where none was found is left out: a handle stored
  in between, which it would wipe, is never resumed anyway (`early`).
- DAVE: more than one voice session. `reconnect(false)` (`voiceconnection.cpp:131`) identifies again on the same `Dave`, which keeps its
  encryptor and its `passthrough` from the session before. The gateway of the model announces no transition before the group
  is created, which `session.cpp:325` allows for; and `encryptor->passthrough` written through an encryptor that
  `createEncryptor` did not make (`session.cpp:329`) is nothing, although it is undefined.
- DAVE: signatures, credentials, the layout of frames, and what receivers do.
- What only converts data: serialization, component and modal builders, presence,
  permissions, encryption, Opus. The HTTP, websocket, MLS and Opus libraries are outside the repository
  and are the environment.

## Plan

1. A composition of Shard and BotLifecycle with the detached handlers that outlive
   both, and with READY handled before the shard is in its vector.
2. `globalSend` and the voice payloads in the send queue; two closers of a voice connection.
