--------------------------- MODULE MemberRequests ---------------------------
(***************************************************************************)
(* Requesting guild members through the gateway: the coroutine             *)
(* NyaBot::requestGuildMembers (src/src/guild.cpp) with its awaitable      *)
(* GuildMemberRequestTask (src/include/guild.h) and its MeowAsync          *)
(* (src/include/async.h), the shard's send queue (src/include/queue.h)     *)
(* drained by the listen thread, and the detached threads that handle      *)
(* GUILD_MEMBERS_CHUNK and RATE_LIMITED (src/src/dispatchHandlers/guild.cpp).*)
(*                                                                         *)
(* A request is its nonce, the members of a chunk are the chunk's index.   *)
(* The coroutine's frame, the task table and the mutex and condition       *)
(* variable of the promise are those of the code; an access of the table   *)
(* is one step.  The shard keeps its session: see Shard for when not.      *)
(***************************************************************************)
EXTENDS Integers, Sequences, FiniteSets

CONSTANTS
  Requests,    \* the calls of requestGuildMembers, each in its own thread
  MaxChunks,   \* bound: chunks of an answer
  MaxLimits,   \* bound: RATE_LIMITED answers
  MaxLosses    \* bound: payloads and chunks lost with a connection

ASSUME MemberAssumption ==
  MaxChunks \in Nat \ {0} /\ MaxLimits \in Nat /\ MaxLosses \in Nat

Chunk == 0..(MaxChunks - 1)

VARIABLES
  pc,       \* per request, its caller: the coroutine up to co_await, then join
  task,     \* guildMembersChunkTable: nonces in the table
  hp,       \* nonces whose task holds a handle
  users,    \* per request, the chunks its task collected
  value,    \* per request, the chunks in the promise, once returned
  done,     \* requests whose coroutine is at its final suspend point
  queue,    \* Shard::queue
  asked,    \* per request, what the server has been asked and not answered
  chunks,   \* per request, the chunks of the answer
  thread,   \* per request and chunk, the thread handling it
  limited,  \* requests with a RATE_LIMITED thread asleep
  faults,   \* rate limits and losses so far
  crashed,  \* undefined behaviour took the process down
  \* history, read by no guard
  resumes,  \* per request, how often its coroutine was resumed
  lost,     \* requests whose payload or answer was lost
  overtook  \* requests whose last chunk overtook another, or the coroutine

table   == <<task, hp, users>>
promise == <<value, done>>
gateway == <<asked, chunks, thread, limited, faults>>
history == <<resumes, lost, overtook>>
vars    == <<pc, table, promise, queue, gateway, crashed, history>>

Query == {"given", "all"}   \* query and limit as given, or "" and 0

Init ==
  /\ pc = [q \in Requests |-> "idle"]
  /\ task = {} /\ hp = {} /\ users = [q \in Requests |-> {}]
  /\ value = [q \in Requests |-> {}] /\ done = {}
  /\ queue = <<>>
  /\ asked = [q \in Requests |-> "nothing"]
  /\ chunks = [q \in Requests |-> 0]
  /\ thread = [q \in Requests |-> [c \in Chunk |-> "none"]]
  /\ limited = {} /\ faults = [limits |-> 0, losses |-> 0]
  /\ crashed = FALSE
  /\ resumes = [q \in Requests |-> 0] /\ lost = {} /\ overtook = {}

-----------------------------------------------------------------------------
(* The caller: requestGuildMembers until it suspends, then join *)

Insert(q) ==
  /\ pc[q] = "idle" /\ pc' = [pc EXCEPT ![q] = "inserted"]
  /\ task' = task \cup {q}
  /\ UNCHANGED <<hp, users, promise, queue, gateway, crashed, history>>

Enqueue(q) ==
  /\ pc[q] = "inserted" /\ pc' = [pc EXCEPT ![q] = "queued"]
  /\ queue' = Append(queue, [nonce |-> q, query |-> "given"])
  /\ UNCHANGED <<table, promise, gateway, crashed, history>>

\* co_await looks the task up again - and makes a new one if it is gone - and
\* leaves the coroutine's handle in it.
Suspend(q) ==
  /\ pc[q] = "queued" /\ pc' = [pc EXCEPT ![q] = "join"]
  /\ task' = task \cup {q} /\ hp' = hp \cup {q}
  /\ UNCHANGED <<users, promise, queue, gateway, crashed, history>>

\* join under the promise's mutex: return, or block until notified.
Join(q) ==
  /\ pc[q] = "join"
  /\ pc' = [pc EXCEPT ![q] = IF q \in done THEN "returned" ELSE "blocked"]
  /\ UNCHANGED <<table, promise, queue, gateway, crashed, history>>

SpuriousWakeup(q) ==
  /\ pc[q] = "blocked" /\ pc' = [pc EXCEPT ![q] = "join"]
  /\ UNCHANGED <<table, promise, queue, gateway, crashed, history>>

-----------------------------------------------------------------------------
(* The listen thread's queue, and the server *)

Pop == queue # <<>> /\ queue' = Tail(queue)

SendPayload ==
  /\ Pop
  /\ asked' = [asked EXCEPT ![Head(queue).nonce] = Head(queue).query]
  /\ UNCHANGED <<pc, table, promise, chunks, thread, limited, faults, crashed,
                 history>>

\* The payload was popped and wsSend failed or threw.
LosePayload ==
  /\ Pop /\ faults.losses < MaxLosses
  /\ faults' = [faults EXCEPT !.losses = @ + 1]
  /\ lost' = lost \cup {Head(queue).nonce}
  /\ UNCHANGED <<pc, table, promise, asked, chunks, thread, limited, crashed,
                 resumes, overtook>>

\* The server answers with n chunks, of which the first k arrive; each is given
\* a thread of its own.
Answer(q) ==
  /\ asked[q] # "nothing" /\ asked' = [asked EXCEPT ![q] = "nothing"]
  /\ \E n \in 1..MaxChunks, k \in 0..MaxChunks :
       /\ k <= n
       /\ chunks' = [chunks EXCEPT ![q] = n]
       /\ thread' = [thread EXCEPT ![q] = [c \in Chunk |->
                                             IF c < k THEN "new" ELSE "none"]]
       /\ IF k = n THEN UNCHANGED <<faults, lost>>
          ELSE /\ faults.losses < MaxLosses
               /\ faults' = [faults EXCEPT !.losses = @ + 1]
               /\ lost' = lost \cup {q}
  /\ UNCHANGED <<pc, table, promise, queue, limited, crashed, resumes, overtook>>

RateLimit(q) ==
  /\ asked[q] # "nothing" /\ asked' = [asked EXCEPT ![q] = "nothing"]
  /\ faults.limits < MaxLimits
  /\ faults' = [faults EXCEPT !.limits = @ + 1]
  /\ limited' = limited \cup {q}
  /\ UNCHANGED <<pc, table, promise, queue, chunks, thread, crashed, history>>

\* Mutant: the rate limited payload is not sent again.
ResendNothing(q) ==
  /\ q \in limited /\ limited' = limited \ {q}
  /\ UNCHANGED <<pc, table, promise, queue, asked, chunks, thread, faults,
                 crashed, history>>

\* rateLimited, after its sleep: all members are asked for, whatever the query.
Resend(q) ==
  /\ q \in limited /\ limited' = limited \ {q}
  /\ queue' = Append(queue, [nonce |-> q, query |-> "all"])
  /\ UNCHANGED <<pc, table, promise, asked, chunks, thread, faults, crashed,
                 history>>

-----------------------------------------------------------------------------
(* guildMemberChunk in the thread of chunk c *)

Moves(q, c, here, there) ==
  /\ thread[q][c] = here
  /\ thread' = [thread EXCEPT ![q][c] = there]
  /\ UNCHANGED <<asked, chunks, limited, faults>>

\* Unknown chunks are dropped.
Contains(q, c) ==
  /\ Moves(q, c, "new", IF q \in task THEN "known" ELSE "ended")
  /\ UNCHANGED <<pc, table, promise, queue, crashed, history>>

\* Mutant: the list is filled without its lock.
LockNothing(q, c) ==
  /\ Moves(q, c, "known", "locked")
  /\ task' = task \cup {q}
  /\ UNCHANGED <<pc, hp, users, promise, queue, crashed, history>>

\* The lock of the task, which operator[] makes again if it was erased.
Lock(q, c) ==
  /\ Moves(q, c, "known", "locked")
  /\ \A d \in Chunk : thread[q][d] # "locked"
  /\ task' = task \cup {q}
  /\ UNCHANGED <<pc, hp, users, promise, queue, crashed, history>>

\* Mutant: the last two chunks count as the last.
LastTwo(q, c) == c >= chunks[q] - 2

Last(q, c) == c = chunks[q] - 1

\* Mutant: a chunk replaces those before it.
CollectAlone(q, c) ==
  /\ Moves(q, c, "locked", IF Last(q, c) THEN "filled" ELSE "ended")
  /\ task' = task \cup {q}
  /\ users' = [users EXCEPT ![q] = {c}]
  /\ UNCHANGED <<pc, hp, promise, queue, crashed, history>>

\* The users are added and the lock released.  A task erased meanwhile is
\* another one now, and its mutex was destroyed while locked.
Collect(q, c) ==
  /\ Moves(q, c, "locked", IF Last(q, c) THEN "filled" ELSE "ended")
  /\ task' = task \cup {q}
  /\ users' = [users EXCEPT ![q] = @ \cup {c}]
  /\ crashed' \in {FALSE, q \notin task}
  /\ UNCHANGED <<pc, hp, promise, queue, history>>

\* The last chunk resumes the coroutine: its value is set under the promise's
\* mutex and one waiter notified.  A task without a handle is resumed as well.
Resume(q, c) ==
  /\ Moves(q, c, "filled", "resumed")
  /\ IF q \in hp
     THEN /\ value' = [value EXCEPT ![q] = users[q]]
          /\ pc' = IF pc[q] = "blocked" THEN [pc EXCEPT ![q] = "join"] ELSE pc
          /\ resumes' = [resumes EXCEPT ![q] = @ + 1]
          /\ UNCHANGED crashed
     ELSE crashed' = TRUE /\ UNCHANGED <<value, pc, resumes>>
  /\ overtook' = IF q \in hp /\ \A d \in 0..(chunks[q] - 2) : thread[q][d] = "ended"
                 THEN overtook ELSE overtook \cup {q}
  /\ UNCHANGED <<table, done, queue, lost>>

\* The coroutine reaches its final suspend point.
FinalSuspend(q, c) ==
  /\ Moves(q, c, "resumed", "final")
  /\ done' = done \cup {q}
  /\ UNCHANGED <<pc, table, value, queue, crashed, history>>

\* Mutant: the task stays in the table.
KeepTask(q, c) ==
  /\ Moves(q, c, "final", "ended")
  /\ UNCHANGED <<pc, table, promise, queue, crashed, history>>

EraseTask(q, c) ==
  /\ Moves(q, c, "final", "ended")
  /\ task' = task \ {q} /\ hp' = hp \ {q}
  /\ users' = [users EXCEPT ![q] = {}]
  /\ UNCHANGED <<pc, promise, queue, crashed, history>>

-----------------------------------------------------------------------------
Caller(q) == Insert(q) \/ Enqueue(q) \/ Suspend(q) \/ Join(q)

ChunkThread(q, c) ==
  Contains(q, c) \/ Lock(q, c) \/ Collect(q, c) \/ Resume(q, c)
    \/ FinalSuspend(q, c) \/ EraseTask(q, c)

Next ==
  /\ ~crashed
  /\ \/ SendPayload \/ LosePayload
     \/ \E q \in Requests :
          \/ Caller(q) \/ SpuriousWakeup(q)
          \/ Answer(q) \/ RateLimit(q) \/ Resend(q)
          \/ \E c \in Chunk : ChunkThread(q, c)

Spec == Init /\ [][Next]_vars

\* Every thread is scheduled, and the server answers.  Faults and spurious
\* wakeups need not happen.
FairSpec ==
  /\ Spec
  /\ WF_vars(~crashed /\ SendPayload)
  /\ \A q \in Requests :
       /\ WF_vars(~crashed /\ Caller(q))
       /\ WF_vars(~crashed /\ Answer(q))
       /\ WF_vars(~crashed /\ Resend(q))
       /\ \A c \in Chunk : WF_vars(~crashed /\ ChunkThread(q, c))

-----------------------------------------------------------------------------
Place == {"idle", "inserted", "queued", "join", "blocked", "returned"}
Stage == {"none", "new", "known", "locked", "filled", "resumed", "final", "ended"}

\* The lock of the task's list has one owner.
OneLock ==
  \A q \in Requests : \A c, d \in Chunk :
    thread[q][c] = "locked" /\ thread[q][d] = "locked" => c = d

\* Every variable has its type, only a task of the table has a handle, and of
\* the threads of a request's chunks one at a time holds the lock of its list.
TypeOK ==
  /\ pc \in [Requests -> Place]
  /\ task \subseteq Requests /\ hp \subseteq task
  /\ users \in [Requests -> SUBSET Chunk] /\ value \in [Requests -> SUBSET Chunk]
  /\ done \subseteq Requests
  /\ queue \in Seq([nonce : Requests, query : Query])
  /\ asked \in [Requests -> Query \cup {"nothing"}]
  /\ chunks \in [Requests -> 0..MaxChunks]
  /\ thread \in [Requests -> [Chunk -> Stage]]
  /\ limited \subseteq Requests
  /\ faults \in [limits : 0..MaxLimits, losses : 0..MaxLosses]
  /\ crashed \in BOOLEAN
  /\ resumes \in [Requests -> Nat]
  /\ lost \subseteq Requests /\ overtook \subseteq Requests
  /\ OneLock

\* What join returns are all the members the server sent, although every chunk
\* has a thread of its own - unless the last chunk's overtook another one.
JoinedIsComplete ==
  \A q \in Requests \ overtook :
    pc[q] = "returned" => value[q] = 0..(chunks[q] - 1)

\* The coroutine is resumed once at most: a second resume at its final suspend
\* point would be undefined.
ResumedOnce == \A q \in Requests : resumes[q] <= 1

\* An answered request leaves nothing in the table, unless chunks were
\* overtaken.
TableIsClean ==
  \A q \in Requests \ overtook :
    q \in done /\ (\A c \in Chunk : thread[q][c] \in {"none", "ended"}) => q \notin task

\* A request that reached the queue is completed, through any rate limit, unless
\* its payload or answer was lost with a connection.
Completes ==
  \A q \in Requests :
    pc[q] = "queued" ~> q \in done \/ q \in lost \cup overtook \/ crashed

\* MeowAsync::join "waits till the value is available and returns it"
\* (src/include/async.h).  It does not hold: the only notification is sent
\* before the final suspend point that the predicate waits for.
JoinReturns ==
  \A q \in Requests : pc[q] \in {"join", "blocked"} /\ q \in done ~> pc[q] = "returned"
=============================================================================
