------------------------ MODULE MemberRequestsProofs ------------------------
(* What TLAPS proves of MemberRequests, for every value of its constants. *)
EXTENDS MemberRequests, SequenceTheorems, TLAPS

Payload == [nonce : Requests, query : Query]

-----------------------------------------------------------------------------
(* The queue *)

InQueue(q) == \E i \in 1..Len(queue) : queue[i].nonce = q

Distinct == \A i, j \in 1..Len(queue) : queue[i].nonce = queue[j].nonce => i = j

\* What is popped was queued, and is not any more.
LEMMA PopQueue ==
  ASSUME queue \in Seq(Payload), Pop
  PROVE  /\ queue' \in Seq(Payload)
         /\ Head(queue) \in Payload
         /\ InQueue(Head(queue).nonce)
         /\ \A q : InQueue(q)' => InQueue(q)
         /\ Distinct => \A q : q = Head(queue).nonce => Distinct' /\ ~InQueue(q)'
<1>1. /\ queue # <<>> /\ queue' = Tail(queue)
      /\ Len(queue) \in Nat /\ Len(queue) > 0
  BY EmptySeq DEF Pop
<1>2. /\ queue' \in Seq(Payload) /\ Len(queue') = Len(queue) - 1
      /\ \A i \in 1..Len(queue') : queue'[i] = queue[i + 1]
      /\ Head(queue) = queue[1] /\ Head(queue) \in Payload
  BY <1>1, HeadTailProperties
<1>3. InQueue(Head(queue).nonce)
  BY <1>1, <1>2 DEF InQueue
<1>4. \A i \in 1..Len(queue') : i + 1 \in 1..Len(queue) /\ i + 1 # 1
  BY <1>1, <1>2
<1>5. \A q : InQueue(q)' => InQueue(q)
  BY <1>2, <1>4 DEF InQueue
<1>6. ASSUME Distinct
      PROVE  \A q : q = Head(queue).nonce => Distinct' /\ ~InQueue(q)'
  <2>1. \A i, j \in 1..Len(queue') : queue'[i].nonce = queue'[j].nonce => i + 1 = j + 1
    BY <1>2, <1>4, <1>6 DEF Distinct
  <2>2. Distinct'
    BY <1>1, <1>2, <2>1 DEF Distinct
  <2>3. 1 \in 1..Len(queue)
    BY <1>1
  <2>4. \A i \in 1..Len(queue') : queue'[i].nonce # Head(queue).nonce
    BY <1>2, <1>4, <1>6, <2>3 DEF Distinct
  <2> QED BY <2>2, <2>4 DEF InQueue
<1> QED BY <1>2, <1>3, <1>5, <1>6

\* What is pushed is queued.
LEMMA PushQueue ==
  ASSUME queue \in Seq(Payload), NEW q \in Requests, NEW query \in Query,
         queue' = Append(queue, [nonce |-> q, query |-> query])
  PROVE  /\ queue' \in Seq(Payload)
         /\ \A p : InQueue(p)' => InQueue(p) \/ p = q
         /\ Distinct /\ ~InQueue(q) => Distinct'
<1> DEFINE m == [nonce |-> q, query |-> query]
<1>1. m \in Payload /\ m.nonce = q
  BY DEF Payload
<1> HIDE DEF m
<1>2. queue' = Append(queue, m)
  BY DEF m
<1>3. /\ queue' \in Seq(Payload) /\ Len(queue') = Len(queue) + 1 /\ Len(queue) \in Nat
      /\ \A i \in 1..Len(queue) : queue'[i] = queue[i]
      /\ queue'[Len(queue) + 1] = m
  BY <1>1, <1>2, AppendProperties
<1>4. \A i \in 1..Len(queue') : i \in 1..Len(queue) \/ i = Len(queue) + 1
  BY <1>3
<1> QED BY <1>1, <1>3, <1>4 DEF InQueue, Distinct

-----------------------------------------------------------------------------
(* Types *)

\* The lock has one owner as long as the threads stay where they are.
LEMMA OneLockStays ==
  ASSUME OneLock, UNCHANGED thread
  PROVE  OneLock'
BY DEF OneLock

\* A caller keeps the types.
LEMMA CallerType ==
  ASSUME TypeOK, NEW q \in Requests, Caller(q) \/ SpuriousWakeup(q)
  PROVE  TypeOK'
<1> USE DEF TypeOK, table, promise, gateway, history
<1>0. OneLock'
  BY OneLockStays DEF Caller, Insert, Enqueue, Suspend, Join, SpuriousWakeup
<1> USE <1>0
<1>1. CASE Insert(q)
  BY <1>1 DEF Insert, Place
<1>2. CASE Enqueue(q)
  <2>1. queue' \in Seq(Payload)
    BY <1>2, PushQueue DEF Enqueue, Query, Payload
  <2> QED BY <1>2, <2>1 DEF Enqueue, Place, Payload
<1>3. CASE Suspend(q)
  BY <1>3 DEF Suspend, Place
<1>4. CASE Join(q) \/ SpuriousWakeup(q)
  BY <1>4 DEF Join, SpuriousWakeup, Place
<1> QED BY <1>1, <1>2, <1>3, <1>4 DEF Caller

\* So do the queue and the server.
LEMMA ServerType ==
  ASSUME TypeOK,
         \/ SendPayload \/ LosePayload
         \/ \E q \in Requests : Answer(q) \/ RateLimit(q) \/ Resend(q)
  PROVE  TypeOK'
<1>0. OneLock'
  <2>0. OneLock
    BY DEF TypeOK
  <2>1. UNCHANGED thread => OneLock'
    BY <2>0, OneLockStays
  <2>2. ASSUME NEW q \in Requests, Answer(q)
        PROVE  OneLock'
    <3>1. PICK k \in 0..MaxChunks :
            thread' = [thread EXCEPT ![q] = [c \in Chunk |-> IF c < k THEN "new" ELSE "none"]]
      BY <2>2 DEF Answer
    <3>2. \A c \in Chunk : thread'[q][c] # "locked"
      BY <3>1 DEF TypeOK
    <3>3. \A p \in Requests \ {q} : thread'[p] = thread[p]
      BY <3>1 DEF TypeOK
    <3> QED BY <2>0, <3>2, <3>3 DEF OneLock
  <2>3. CASE SendPayload \/ LosePayload
    BY <2>1, <2>3 DEF SendPayload, LosePayload, Pop
  <2>4. ASSUME NEW q \in Requests, RateLimit(q) \/ Resend(q)
        PROVE  OneLock'
    BY <2>1, <2>4 DEF RateLimit, Resend
  <2> QED BY <2>2, <2>3, <2>4
<1> USE DEF TypeOK, table, promise, gateway, history
<1>1. CASE SendPayload \/ LosePayload
  <2>1. queue' \in Seq(Payload) /\ Head(queue).nonce \in Requests /\ Head(queue).query \in Query
    BY <1>1, PopQueue DEF SendPayload, LosePayload, Payload
  <2>2. asked' \in [Requests -> Query \cup {"nothing"}]
    BY <1>1, <2>1 DEF SendPayload, LosePayload
  <2>3. /\ faults' \in [limits : 0..MaxLimits, losses : 0..MaxLosses]
        /\ lost' \subseteq Requests
    <3>1. CASE SendPayload
      BY <3>1 DEF SendPayload
    <3>2. CASE LosePayload
      <4>1. faults.losses + 1 \in 0..MaxLosses
        BY <3>2, MemberAssumption DEF LosePayload
      <4>2. faults' = [faults EXCEPT !.losses = @ + 1]
            /\ lost' = lost \cup {Head(queue).nonce}
        BY <3>2 DEF LosePayload
      <4> QED BY <2>1, <4>1, <4>2
    <3> QED BY <1>1, <3>1, <3>2
  <2> QED BY <1>0, <1>1, <2>1, <2>2, <2>3 DEF SendPayload, LosePayload, Payload
<1>2. ASSUME NEW q \in Requests, Answer(q)
      PROVE  TypeOK'
  <2>1. chunks' \in [Requests -> 0..MaxChunks]
    BY <1>2 DEF Answer
  <2>2. thread' \in [Requests -> [Chunk -> Stage]]
    BY <1>2 DEF Answer, Stage
  <2>3. /\ faults' \in [limits : 0..MaxLimits, losses : 0..MaxLosses]
        /\ lost' \subseteq Requests
    BY <1>2, MemberAssumption DEF Answer
  <2> QED BY <1>0, <1>2, <2>1, <2>2, <2>3 DEF Answer
<1>3. ASSUME NEW q \in Requests, RateLimit(q)
      PROVE  TypeOK'
  <2>1. faults.limits \in 0..MaxLimits /\ faults.limits < MaxLimits
    BY <1>3 DEF RateLimit
  <2>2. faults.limits + 1 \in 0..MaxLimits
    BY <2>1, MemberAssumption
  <2>3. faults' \in [limits : 0..MaxLimits, losses : 0..MaxLosses]
    BY <1>3, <2>2 DEF RateLimit
  <2>4. asked' \in [Requests -> Query \cup {"nothing"}] /\ limited' \subseteq Requests
    BY <1>3 DEF RateLimit
  <2> QED BY <1>0, <1>3, <2>3, <2>4 DEF RateLimit
<1>4. ASSUME NEW q \in Requests, Resend(q)
      PROVE  TypeOK'
  <2>1. queue' \in Seq(Payload)
    BY <1>4, PushQueue DEF Resend, Query, Payload
  <2> QED BY <1>0, <1>4, <2>1 DEF Resend, Payload
<1> QED BY <1>1, <1>2, <1>3, <1>4

\* So does the thread of a chunk.
LEMMA ChunkType ==
  ASSUME TypeOK, NEW q \in Requests, NEW c \in Chunk, ChunkThread(q, c)
  PROVE  TypeOK'
<1> USE DEF TypeOK, table, promise, history, Moves
<1>0. OneLock'
  <2>1. CASE Lock(q, c)
    BY <2>1 DEF Lock, OneLock
  <2>2. ASSUME NEW here \in Stage, NEW there \in Stage \ {"locked"}, Moves(q, c, here, there)
        PROVE  OneLock'
    BY <2>2 DEF OneLock
  <2> QED BY <2>1, <2>2 DEF ChunkThread, Contains, Collect, Resume, FinalSuspend, EraseTask, Stage
<1> USE <1>0
<1>1. thread' \in [Requests -> [Chunk -> Stage]] /\ UNCHANGED <<asked, chunks, limited, faults>>
  <2>1. \E here, there \in Stage : Moves(q, c, here, there)
    BY DEF ChunkThread, Contains, Lock, Collect, Resume, FinalSuspend, EraseTask, Stage
  <2> QED BY <2>1
<1>2. CASE Contains(q, c) \/ Lock(q, c) \/ FinalSuspend(q, c) \/ EraseTask(q, c)
  BY <1>1, <1>2 DEF Contains, Lock, FinalSuspend, EraseTask
<1>3. CASE Collect(q, c)
  BY ZenonT(60), <1>1, <1>3 DEF Collect
<1>4. CASE Resume(q, c)
  <2>1. /\ pc' \in [Requests -> Place] /\ value' \in [Requests -> SUBSET Chunk]
        /\ resumes' \in [Requests -> Nat] /\ crashed' \in BOOLEAN
        /\ overtook' \subseteq Requests
    <3>1. CASE q \in hp
      <4>1. /\ value' = [value EXCEPT ![q] = users[q]]
            /\ pc' = [pc EXCEPT ![q] = "join"] \/ pc' = pc
            /\ resumes' = [resumes EXCEPT ![q] = @ + 1]
            /\ crashed' = crashed
            /\ overtook' = overtook \/ overtook' = overtook \cup {q}
        BY <1>4, <3>1 DEF Resume
      <4>2. "join" \in Place
        BY DEF Place
      <4>3. pc' \in [Requests -> Place]
        BY ZenonT(60), <4>1, <4>2
      <4>4. value' \in [Requests -> SUBSET Chunk]
        BY <4>1
      <4>5. resumes' \in [Requests -> Nat]
        BY <4>1
      <4> QED BY <4>1, <4>3, <4>4, <4>5
    <3>2. CASE q \notin hp
      BY <1>4, <3>2 DEF Resume
    <3> QED BY <3>1, <3>2
  <2> QED BY <1>1, <1>4, <2>1 DEF Resume
<1> QED BY <1>2, <1>3, <1>4 DEF ChunkThread

\* Every variable keeps its type.
THEOREM MemberTypeOK == Spec => []TypeOK
<1>1. Init => TypeOK
  <2> SUFFICES ASSUME Init PROVE TypeOK
    OBVIOUS
  <2>1. queue \in Seq([nonce : Requests, query : Query])
    BY EmptySeq DEF Init
  <2>2. /\ faults \in [limits : 0..MaxLimits, losses : 0..MaxLosses]
        /\ chunks \in [Requests -> 0..MaxChunks]
    BY MemberAssumption DEF Init
  <2>3. thread \in [Requests -> [Chunk -> Stage]] /\ pc \in [Requests -> Place]
    BY DEF Init, Stage, Place
  <2>4. /\ users \in [Requests -> SUBSET Chunk] /\ value \in [Requests -> SUBSET Chunk]
        /\ asked \in [Requests -> Query \cup {"nothing"}] /\ resumes \in [Requests -> Nat]
    BY DEF Init
  <2> QED BY <2>1, <2>2, <2>3, <2>4 DEF Init, TypeOK, OneLock
<1>2. TypeOK /\ [Next]_vars => TypeOK'
  <2> SUFFICES ASSUME TypeOK, [Next]_vars PROVE TypeOK'
    OBVIOUS
  <2>1. CASE UNCHANGED vars
    BY <2>1, OneLockStays DEF vars, TypeOK, table, promise, gateway, history
  <2>2. CASE Next
    BY <2>2, CallerType, ServerType, ChunkType DEF Next
  <2> QED BY <2>1, <2>2
<1> QED BY <1>1, <1>2, PTL DEF Spec

-----------------------------------------------------------------------------
(* The inductive invariant *)

NoThreads(q) == \A c \in Chunk : thread[q][c] = "none"

\* The last chunk arrived and is past some point of its handling.
LastAt(q, stages) == chunks[q] > 0 /\ thread[q][chunks[q] - 1] \in stages

Handed == {"resumed", "final", "ended"}
Collected == {"filled", "resumed", "final", "ended"}

\* A request is asked once at a time: it is at its caller, in the queue, with
\* the server, in the sleep of a rate limit, or answered.
AskInv ==
  /\ Distinct
  /\ \A q \in Requests :
       /\ pc[q] \in {"idle", "inserted"} =>
            ~InQueue(q) /\ asked[q] = "nothing" /\ q \notin limited /\ NoThreads(q)
       /\ InQueue(q) => asked[q] = "nothing" /\ q \notin limited /\ NoThreads(q)
       /\ asked[q] # "nothing" => q \notin limited /\ NoThreads(q)
       /\ q \in limited => NoThreads(q)

\* Only the last chunk resumes the coroutine, and does it once.
LastInv ==
  \A q \in Requests :
    /\ \A c \in Chunk : thread[q][c] # "none" => c < chunks[q]
    /\ \A c \in Chunk : thread[q][c] \in {"filled", "resumed", "final"} => c = chunks[q] - 1
    /\ resumes[q] = 0 \/ (resumes[q] = 1 /\ LastAt(q, Handed))
    /\ q \in done => LastAt(q, {"final", "ended"})

\* Until the last chunk erases the task, it holds what the threads collected.
HasTask(q) ==
  ~LastAt(q, {"ended"}) =>
    /\ pc[q] # "idle" => q \in task
    /\ users[q] = {c \in Chunk : thread[q][c] \in Collected}

TaskInv == \A q \in Requests : HasTask(q)

\* Where nothing was overtaken, the last chunk found the coroutine suspended
\* and the others done, and its task is the last.
Suspended(q) == pc[q] \in {"join", "blocked", "returned"}

InOrder(q) ==
  /\ q \in hp => Suspended(q)
  /\ pc[q] = "returned" => q \in done
  /\ LastAt(q, Handed) /\ q \notin overtook =>
       /\ value[q] = 0..(chunks[q] - 1)
       /\ Suspended(q)
       /\ \A c \in Chunk : c < chunks[q] - 1 => thread[q][c] = "ended"
  /\ LastAt(q, {"ended"}) /\ q \notin overtook => q \notin task

ResumedInv == \A q \in Requests : InOrder(q)

MemberInv == AskInv /\ LastInv /\ TaskInv /\ ResumedInv

\* What TypeOK says of the variables that are functions, and of chunks.
LEMMA Functions ==
  ASSUME TypeOK
  PROVE  /\ pc \in [Requests -> Place] /\ asked \in [Requests -> Query \cup {"nothing"}]
         /\ chunks \in [Requests -> 0..MaxChunks] /\ thread \in [Requests -> [Chunk -> Stage]]
         /\ users \in [Requests -> SUBSET Chunk] /\ value \in [Requests -> SUBSET Chunk]
         /\ resumes \in [Requests -> Nat] /\ queue \in Seq(Payload)
BY DEF TypeOK, Payload

\* The last chunk is one.
LEMMA LastIsChunk ==
  ASSUME TypeOK, NEW q \in Requests, chunks[q] > 0
  PROVE  chunks[q] - 1 \in Chunk
BY MemberAssumption DEF TypeOK, Chunk

\* How a step of the thread of chunk c of request q leaves the threads.
LEMMA Moved ==
  ASSUME TypeOK, NEW q \in Requests, NEW c \in Chunk, NEW here, NEW there, Moves(q, c, here, there)
  PROVE  /\ thread[q][c] = here /\ thread'[q][c] = there
         /\ \A d \in Chunk \ {c} : thread'[q][d] = thread[q][d]
         /\ \A p \in Requests \ {q} : thread'[p] = thread[p]
         /\ UNCHANGED <<asked, chunks, limited, faults>>
BY Functions DEF Moves

-----------------------------------------------------------------------------
(* Asking *)

\* A caller asks once.
LEMMA CallerAsks ==
  ASSUME TypeOK, AskInv, NEW q \in Requests, Caller(q) \/ SpuriousWakeup(q)
  PROVE  AskInv'
<1> USE DEF gateway
<1>1. CASE Enqueue(q)
  <2>1. /\ pc[q] = "inserted" /\ pc' = [pc EXCEPT ![q] = "queued"]
        /\ UNCHANGED <<asked, limited, thread>>
    BY <1>1 DEF Enqueue
  <2>2. ~InQueue(q) /\ Distinct
    BY <2>1 DEF AskInv
  <2>3. Distinct' /\ \A p \in Requests : InQueue(p)' => InQueue(p) \/ p = q
    BY <1>1, <2>2, PushQueue, Functions DEF Enqueue, Query
  <2> QED BY <2>1, <2>3, Functions DEF AskInv, NoThreads
<1>2. CASE Insert(q) \/ Suspend(q) \/ Join(q) \/ SpuriousWakeup(q)
  <2>1. /\ UNCHANGED <<queue, asked, limited, thread>>
        /\ \A p \in Requests : pc'[p] \in {"idle", "inserted"} => pc[p] \in {"idle", "inserted"}
    BY <1>2, Functions DEF Insert, Suspend, Join, SpuriousWakeup
  <2> QED BY <2>1 DEF AskInv, InQueue, Distinct, NoThreads
<1> QED BY <1>1, <1>2 DEF Caller

\* What the listen thread and the server hand on is in one place.
LEMMA ServerAsks ==
  ASSUME TypeOK, AskInv,
         \/ SendPayload \/ LosePayload
         \/ \E q \in Requests : Answer(q) \/ RateLimit(q) \/ Resend(q)
  PROVE  AskInv'
<1>1. CASE SendPayload \/ LosePayload
  <2>1. PICK h \in Requests : h = Head(queue).nonce
    BY <1>1, PopQueue, Functions DEF SendPayload, LosePayload, Payload
  <2>2. /\ InQueue(h) /\ Distinct' /\ ~InQueue(h)'
        /\ \A p : InQueue(p)' => InQueue(p)
    BY <1>1, <2>1, PopQueue, Functions DEF SendPayload, LosePayload, AskInv
  <2>3. /\ UNCHANGED <<pc, limited, thread>>
        /\ \A p \in Requests \ {h} : asked'[p] = asked[p]
    BY <1>1, <2>1, Functions DEF SendPayload, LosePayload
  <2> QED BY <2>2, <2>3 DEF AskInv, NoThreads
<1>2. ASSUME NEW q \in Requests, Answer(q)
      PROVE  AskInv'
  <2>1. /\ asked[q] # "nothing" /\ asked'[q] = "nothing"
        /\ UNCHANGED <<pc, queue, limited>>
        /\ \A p \in Requests \ {q} : asked'[p] = asked[p] /\ thread'[p] = thread[p]
    BY <1>2, Functions DEF Answer
  <2>2. ~InQueue(q) /\ q \notin limited /\ pc[q] \notin {"idle", "inserted"}
    BY <2>1 DEF AskInv
  <2> QED BY <2>1, <2>2 DEF AskInv, NoThreads, InQueue, Distinct
<1>3. ASSUME NEW q \in Requests, RateLimit(q)
      PROVE  AskInv'
  <2>1. /\ asked[q] # "nothing" /\ asked'[q] = "nothing" /\ limited' = limited \cup {q}
        /\ UNCHANGED <<pc, queue, thread>>
        /\ \A p \in Requests \ {q} : asked'[p] = asked[p]
    BY <1>3, Functions DEF RateLimit
  <2>2. ~InQueue(q) /\ NoThreads(q) /\ pc[q] \notin {"idle", "inserted"}
    BY <2>1 DEF AskInv
  <2> QED BY <2>1, <2>2 DEF AskInv, NoThreads, InQueue, Distinct
<1>4. ASSUME NEW q \in Requests, Resend(q)
      PROVE  AskInv'
  <2>1. q \in limited /\ limited' = limited \ {q} /\ UNCHANGED <<pc, asked, thread>>
    BY <1>4 DEF Resend
  <2>2. /\ ~InQueue(q) /\ Distinct /\ asked[q] = "nothing" /\ NoThreads(q)
        /\ pc[q] \notin {"idle", "inserted"}
    BY <2>1 DEF AskInv
  <2>3. Distinct' /\ \A p \in Requests : InQueue(p)' => InQueue(p) \/ p = q
    BY <1>4, <2>2, PushQueue, Functions DEF Resend, Query
  <2> QED BY <2>1, <2>2, <2>3 DEF AskInv, NoThreads
<1> QED BY <1>1, <1>2, <1>3, <1>4

\* The thread of a chunk belongs to an answered request.
LEMMA ChunkAsks ==
  ASSUME TypeOK, AskInv, NEW q \in Requests, NEW c \in Chunk, ChunkThread(q, c)
  PROVE  AskInv'
<1>1. PICK here \in Stage \ {"none"}, there \in Stage \ {"none"} : Moves(q, c, here, there)
  BY DEF ChunkThread, Contains, Lock, Collect, Resume, FinalSuspend, EraseTask, Stage
<1>2. /\ queue' = queue
      /\ \A p \in Requests : pc'[p] \in {"idle", "inserted"} => pc[p] \in {"idle", "inserted"}
  BY Functions DEF ChunkThread, Contains, Lock, Collect, Resume, FinalSuspend, EraseTask
<1>3. ~NoThreads(q) /\ \A p \in Requests : NoThreads(p) => NoThreads(p)'
  BY <1>1, Moved DEF NoThreads
<1>4. UNCHANGED <<asked, limited>>
  BY <1>1, Moved
<1> QED BY <1>2, <1>3, <1>4 DEF AskInv, InQueue, Distinct

-----------------------------------------------------------------------------
(* The last chunk *)

\* Whoever handles no chunk leaves the last one alone.
LEMMA OthersLast ==
  ASSUME TypeOK, LastInv, UNCHANGED <<chunks, thread, resumes, done>>
  PROVE  LastInv'
BY DEF LastInv, LastAt

\* An answer finds no threads of an earlier one.
LEMMA AnswerLast ==
  ASSUME TypeOK, AskInv, LastInv, NEW q \in Requests, Answer(q)
  PROVE  LastInv'
<1>1. NoThreads(q)
  BY DEF Answer, AskInv
<1>2. resumes[q] = 0 /\ q \notin done
  <2>1. ~LastAt(q, Handed) /\ ~LastAt(q, {"final", "ended"})
    BY <1>1, LastIsChunk DEF LastAt, NoThreads, Handed
  <2> QED BY <2>1 DEF LastInv
<1>3. PICK n \in 1..MaxChunks, k \in 0..MaxChunks :
        /\ k <= n
        /\ chunks' = [chunks EXCEPT ![q] = n]
        /\ thread' = [thread EXCEPT ![q] = [c \in Chunk |-> IF c < k THEN "new" ELSE "none"]]
  BY DEF Answer
<1>4. UNCHANGED <<resumes, done>>
  BY DEF Answer, promise
<1>5. /\ chunks'[q] = n
      /\ \A c \in Chunk : thread'[q][c] = IF c < k THEN "new" ELSE "none"
  BY <1>3, Functions
<1>6. \A p \in Requests \ {q} : chunks'[p] = chunks[p] /\ thread'[p] = thread[p]
  BY <1>3, Functions
<1>7. \A c \in Chunk : thread'[q][c] # "none" => c < chunks'[q]
  BY <1>3, <1>5 DEF Chunk
<1> QED BY <1>2, <1>4, <1>5, <1>6, <1>7 DEF LastInv, LastAt

\* A chunk that is not the last ends when it is collected.
LEMMA ChunkLast ==
  ASSUME TypeOK, LastInv, NEW q \in Requests, NEW c \in Chunk, ChunkThread(q, c)
  PROVE  LastInv'
<1> USE DEF LastAt, Handed
<1>1. PICK here \in Stage \ {"none"}, there \in Stage \ {"none"} : Moves(q, c, here, there)
  BY DEF ChunkThread, Contains, Lock, Collect, Resume, FinalSuspend, EraseTask, Stage
<1>2. /\ thread[q][c] = here /\ thread'[q][c] = there
      /\ \A d \in Chunk \ {c} : thread'[q][d] = thread[q][d]
      /\ \A p \in Requests \ {q} : thread'[p] = thread[p]
      /\ chunks' = chunks
  BY <1>1, Moved
<1>3. c < chunks[q] /\ chunks[q] \in Nat /\ c \in Nat
  BY <1>2, Functions DEF LastInv, Chunk
<1>4. CASE Contains(q, c) \/ Lock(q, c) \/ Collect(q, c)
  <2>1. PICK from \in {"new", "known", "locked"}, to \in Stage :
           /\ Moves(q, c, from, to)
           /\ to \in {"filled", "resumed", "final"} => c = chunks[q] - 1
    BY <1>4 DEF Contains, Lock, Collect, Last, Stage
  <2>2. /\ thread[q][c] \in {"new", "known", "locked"}
        /\ thread'[q][c] \in {"filled", "resumed", "final"} => c = chunks[q] - 1
    BY <2>1, Moved
  <2>3. UNCHANGED <<resumes, done>>
    BY <1>4 DEF Contains, Lock, Collect, promise, history
  <2>4. \A stages \in {Handed, {"final", "ended"}} : LastAt(q, stages) => LastAt(q, stages)'
    BY <1>2, <1>3, <2>2, LastIsChunk
  <2>5. \A p \in Requests \ {q}, stages \in {Handed, {"final", "ended"}} :
           LastAt(p, stages) => LastAt(p, stages)'
    BY <1>2
  <2> QED BY <1>2, <1>3, <2>2, <2>3, <2>4, <2>5 DEF LastInv
<1>5. CASE Resume(q, c)
  <2>1. /\ thread[q][c] = "filled" /\ thread'[q][c] = "resumed" /\ done' = done
        /\ resumes' = resumes \/ resumes' = [resumes EXCEPT ![q] = @ + 1]
    BY <1>5, Moved DEF Resume
  <2>2. c = chunks[q] - 1 /\ resumes[q] = 0 /\ q \notin done
    BY <2>1 DEF LastInv
  <2>3. resumes'[q] \in {0, 1} /\ \A p \in Requests \ {q} : resumes'[p] = resumes[p]
    BY <2>1, <2>2, Functions
  <2> QED BY <1>2, <1>3, <2>1, <2>2, <2>3 DEF LastInv
<1>6. CASE FinalSuspend(q, c) \/ EraseTask(q, c)
  <2>1. /\ thread[q][c] \in {"resumed", "final"} /\ thread'[q][c] \in {"final", "ended"}
        /\ resumes' = resumes
        /\ done' \subseteq done \cup {q}
    BY <1>6, Moved DEF FinalSuspend, EraseTask, promise, history
  <2>2. c = chunks[q] - 1
    BY <2>1 DEF LastInv
  <2> QED BY <1>2, <1>3, <2>1, <2>2 DEF LastInv
<1> QED BY <1>4, <1>5, <1>6 DEF ChunkThread

-----------------------------------------------------------------------------
(* The task *)

\* A step of somebody else.
LEMMA TaskElsewhere ==
  ASSUME TaskInv, NEW q \in Requests, pc'[q] # "idle" => pc[q] # "idle" \/ q \in task',
         q \in task => q \in task', users'[q] = users[q], thread'[q] = thread[q], chunks'[q] = chunks[q]
  PROVE  HasTask(q)'
BY DEF TaskInv, HasTask, LastAt

\* The caller makes the task before anything is asked.
LEMMA CallerTask ==
  ASSUME TypeOK, TaskInv, NEW q \in Requests, Caller(q) \/ SpuriousWakeup(q)
  PROVE  TaskInv'
<1>1. UNCHANGED <<users, thread, chunks>> /\ task \subseteq task'
  BY DEF Caller, Insert, Enqueue, Suspend, Join, SpuriousWakeup, table, gateway
<1>2. \A p \in Requests : pc'[p] # "idle" => pc[p] # "idle" \/ p \in task'
  BY Functions DEF Caller, Insert, Enqueue, Suspend, Join, SpuriousWakeup
<1> QED BY <1>1, <1>2, TaskElsewhere DEF TaskInv

\* Nothing is collected yet when the answer comes.
LEMMA ServerTask ==
  ASSUME TypeOK, AskInv, TaskInv,
         \/ SendPayload \/ LosePayload
         \/ \E q \in Requests : Answer(q) \/ RateLimit(q) \/ Resend(q)
  PROVE  TaskInv'
<1>1. UNCHANGED <<pc, task, users>>
  BY DEF SendPayload, LosePayload, Answer, RateLimit, Resend, table
<1>2. CASE SendPayload \/ LosePayload \/ \E q \in Requests : RateLimit(q) \/ Resend(q)
  <2>1. UNCHANGED <<thread, chunks>>
    BY <1>2 DEF SendPayload, LosePayload, RateLimit, Resend
  <2> QED BY <1>1, <2>1, TaskElsewhere DEF TaskInv
<1>3. ASSUME NEW q \in Requests, Answer(q)
      PROVE  TaskInv'
  <2>1. NoThreads(q)
    BY <1>3 DEF Answer, AskInv
  <2>2. ~LastAt(q, {"ended"})
    BY <2>1, LastIsChunk DEF LastAt, NoThreads
  <2>3. users[q] = {} /\ (pc[q] # "idle" => q \in task)
    BY <2>1, <2>2 DEF TaskInv, HasTask, NoThreads, Collected
  <2>4. /\ \A c \in Chunk : thread'[q][c] \in {"new", "none"}
        /\ \A p \in Requests \ {q} : thread'[p] = thread[p] /\ chunks'[p] = chunks[p]
    BY <1>3, Functions DEF Answer
  <2>5. HasTask(q)'
    BY <1>1, <2>3, <2>4 DEF HasTask, Collected
  <2>6. \A p \in Requests \ {q} : HasTask(p)'
    BY <1>1, <2>4, TaskElsewhere
  <2> QED BY <2>5, <2>6 DEF TaskInv
<1> QED BY <1>2, <1>3

\* Every chunk before the last leaves its members in the task.
LEMMA ChunkTask ==
  ASSUME TypeOK, AskInv, LastInv, TaskInv, NEW q \in Requests, NEW c \in Chunk, ChunkThread(q, c)
  PROVE  TaskInv'
<1>1. PICK here \in Stage \ {"none"}, there \in Stage \ {"none"} : Moves(q, c, here, there)
  BY DEF ChunkThread, Contains, Lock, Collect, Resume, FinalSuspend, EraseTask, Stage
<1>2. /\ thread[q][c] = here /\ thread'[q][c] = there
      /\ \A d \in Chunk \ {c} : thread'[q][d] = thread[q][d]
      /\ \A p \in Requests \ {q} : thread'[p] = thread[p]
      /\ chunks' = chunks
  BY <1>1, Moved
<1>3. c < chunks[q] /\ chunks[q] \in Nat /\ c \in Nat /\ chunks[q] - 1 \in Chunk
  BY <1>2, Functions, LastIsChunk DEF LastInv, Chunk
<1>4. pc[q] # "idle"
  BY <1>2 DEF AskInv, NoThreads
<1>5. \A p \in Requests \ {q} : HasTask(p)'
  <2>1. \A p \in Requests \ {q} :
           users'[p] = users[p] /\ (p \in task => p \in task') /\ (pc'[p] # "idle" => pc[p] # "idle")
    BY Functions DEF ChunkThread, Contains, Lock, Collect, Resume, FinalSuspend, EraseTask, table
  <2> QED BY <1>2, <2>1, TaskElsewhere
<1>6. HasTask(q)'
  <2> SUFFICES ASSUME ~LastAt(q, {"ended"})'
               PROVE  q \in task' /\ users'[q] = {d \in Chunk : thread'[q][d] \in Collected}
    BY DEF HasTask
  <2>1. CASE EraseTask(q, c)
    <3>1. thread[q][c] = "final" /\ thread'[q][c] = "ended"
      BY <2>1, Moved DEF EraseTask
    <3>2. c = chunks[q] - 1
      BY <3>1 DEF LastInv
    <3> QED BY <1>2, <1>3, <3>1, <3>2 DEF LastAt
  <2>2. CASE ~EraseTask(q, c)
    <3>1. ~LastAt(q, {"ended"})
      <4>1. SUFFICES ASSUME LastAt(q, {"ended"}) PROVE FALSE
        OBVIOUS
      <4>2. PICK from \in {"new", "known", "locked", "filled", "resumed", "final"}, to \in Stage :
               Moves(q, c, from, to)
        BY DEF ChunkThread, Contains, Lock, Collect, Resume, FinalSuspend, EraseTask, Stage
      <4>3. thread[q][c] # "ended" /\ thread[q][chunks[q] - 1] = "ended"
        BY <4>1, <4>2, Moved DEF LastAt
      <4>4. thread'[q][chunks[q] - 1] = "ended"
        BY <1>2, <1>3, <4>3
      <4> QED BY <1>2, <1>3, <4>4 DEF LastAt
    <3>2. q \in task /\ users[q] = {d \in Chunk : thread[q][d] \in Collected}
      BY <1>4, <3>1 DEF TaskInv, HasTask
    <3>3. CASE Contains(q, c) \/ Lock(q, c) \/ Resume(q, c) \/ FinalSuspend(q, c)
      <4>1. q \in task' /\ users' = users
        BY <3>2, <3>3 DEF Contains, Lock, Resume, FinalSuspend, table
      <4>2. PICK from \in Stage, to \in Stage : Moves(q, c, from, to) /\ (from \in Collected <=> to \in Collected)
        BY <3>2, <3>3 DEF Contains, Lock, Resume, FinalSuspend, Collected, Stage
      <4>3. thread[q][c] \in Collected <=> thread'[q][c] \in Collected
        BY <4>2, Moved
      <4> QED BY <1>2, <3>2, <4>1, <4>3
    <3>4. CASE Collect(q, c)
      <4>1. q \in task' /\ users'[q] = users[q] \cup {c}
        BY <3>4, Functions DEF Collect
      <4>2. thread'[q][c] \in Collected
        BY <3>4, Moved DEF Collect, Collected
      <4> QED BY <1>2, <3>2, <4>1, <4>2
    <3> QED BY <2>2, <3>3, <3>4 DEF ChunkThread
  <2> QED BY <2>1, <2>2
<1> QED BY <1>5, <1>6 DEF TaskInv

-----------------------------------------------------------------------------
(* Resuming *)

\* A step of somebody else.
LEMMA InOrderElsewhere ==
  ASSUME ResumedInv, NEW q \in Requests, q \in hp' => q \in hp, q \in task' => q \in task,
         q \in done => q \in done', q \in overtook => q \in overtook',
         Suspended(q) => Suspended(q)', pc'[q] = "returned" => pc[q] = "returned",
         value'[q] = value[q], thread'[q] = thread[q], chunks'[q] = chunks[q]
  PROVE  InOrder(q)'
BY DEF ResumedInv, InOrder, LastAt

\* A caller that made its task anew had been overtaken.
LEMMA CallerResumed ==
  ASSUME TypeOK, AskInv, ResumedInv, NEW q \in Requests, Caller(q) \/ SpuriousWakeup(q)
  PROVE  ResumedInv'
<1>1. UNCHANGED <<done, value, thread, chunks, overtook>>
  BY DEF Caller, Insert, Enqueue, Suspend, Join, SpuriousWakeup, gateway, promise, history
<1>2. \A p \in Requests \ {q} : InOrder(p)'
  <2>1. \A p \in Requests \ {q} : pc'[p] = pc[p] /\ (p \in hp' => p \in hp) /\ (p \in task' => p \in task)
    BY Functions DEF Caller, Insert, Enqueue, Suspend, Join, SpuriousWakeup, table
  <2> QED BY <1>1, <2>1, InOrderElsewhere DEF Suspended
<1>3. CASE Insert(q) \/ Enqueue(q) \/ Suspend(q)
  <2>1. /\ pc[q] \in {"idle", "inserted", "queued"}
        /\ pc'[q] \in {"inserted", "queued", "join"}
        /\ q \in hp' => q \in hp \/ pc'[q] = "join"
    BY <1>3, Functions DEF Insert, Enqueue, Suspend, table
  <2>2. ~Suspended(q) /\ q \notin hp
    BY <2>1 DEF Suspended, ResumedInv, InOrder
  <2>3. LastAt(q, Handed) => q \in overtook
    BY <2>2 DEF ResumedInv, InOrder
  <2>4. InOrder(q)'
    <3>1. LastAt(q, {"ended"}) => LastAt(q, Handed)
      BY DEF LastAt, Handed
    <3> QED BY <1>1, <2>1, <2>2, <2>3, <3>1 DEF InOrder, Suspended, LastAt
  <2> QED BY <1>2, <2>4 DEF ResumedInv
<1>4. CASE Join(q) \/ SpuriousWakeup(q)
  <2>1. /\ UNCHANGED <<task, hp>> /\ Suspended(q) /\ Suspended(q)'
        /\ pc'[q] = "returned" => q \in done
    BY <1>4, Functions DEF Join, SpuriousWakeup, table, Suspended
  <2>2. InOrder(q)'
    BY <1>1, <2>1 DEF ResumedInv, InOrder, LastAt
  <2> QED BY <1>2, <2>2 DEF ResumedInv
<1> QED BY <1>3, <1>4 DEF Caller

\* An answer finds nothing resumed.
LEMMA ServerResumed ==
  ASSUME TypeOK, AskInv, LastInv, ResumedInv,
         \/ SendPayload \/ LosePayload
         \/ \E q \in Requests : Answer(q) \/ RateLimit(q) \/ Resend(q)
  PROVE  ResumedInv'
<1>1. UNCHANGED <<pc, task, hp, value, done, overtook>>
  BY DEF SendPayload, LosePayload, Answer, RateLimit, Resend, table, promise, history
<1>2. CASE SendPayload \/ LosePayload \/ \E q \in Requests : RateLimit(q) \/ Resend(q)
  <2>1. UNCHANGED <<thread, chunks>>
    BY <1>2 DEF SendPayload, LosePayload, RateLimit, Resend
  <2> QED BY <1>1, <2>1, InOrderElsewhere DEF ResumedInv, Suspended
<1>3. ASSUME NEW q \in Requests, Answer(q)
      PROVE  ResumedInv'
  <2>1. /\ \A c \in Chunk : thread'[q][c] \in {"new", "none"}
        /\ chunks'[q] \in 1..MaxChunks
        /\ \A p \in Requests \ {q} : thread'[p] = thread[p] /\ chunks'[p] = chunks[p]
    BY <1>3, Functions DEF Answer
  <2>2. chunks'[q] - 1 \in Chunk
    BY <2>1, MemberAssumption DEF Chunk
  <2>3. ~LastAt(q, Handed)' /\ ~LastAt(q, {"ended"})'
    BY <2>1, <2>2 DEF LastAt, Handed
  <2>4. InOrder(q)'
    BY <1>1, <2>3 DEF ResumedInv, InOrder, Suspended
  <2>5. \A p \in Requests \ {q} : InOrder(p)'
    BY <1>1, <2>1, InOrderElsewhere DEF Suspended
  <2> QED BY <2>4, <2>5 DEF ResumedInv
<1> QED BY <1>2, <1>3

\* The last chunk resumes with what all of them collected, or overtakes.
LEMMA ChunkResumed ==
  ASSUME TypeOK, MemberInv, NEW q \in Requests, NEW c \in Chunk, ChunkThread(q, c)
  PROVE  ResumedInv'
<1> USE DEF MemberInv
<1>1. PICK here \in Stage \ {"none"}, there \in Stage \ {"none"} : Moves(q, c, here, there)
  BY DEF ChunkThread, Contains, Lock, Collect, Resume, FinalSuspend, EraseTask, Stage
<1>2. /\ thread[q][c] = here /\ thread'[q][c] = there
      /\ \A d \in Chunk \ {c} : thread'[q][d] = thread[q][d]
      /\ \A p \in Requests \ {q} : thread'[p] = thread[p]
      /\ chunks' = chunks
  BY <1>1, Moved
<1>3. c < chunks[q] /\ chunks[q] \in Nat /\ c \in Nat /\ chunks[q] - 1 \in Chunk
  BY <1>2, Functions, LastIsChunk DEF LastInv, Chunk
<1>4. \A p \in Requests \ {q} : InOrder(p)'
  <2>1. \A p \in Requests \ {q} :
           /\ pc'[p] = pc[p] /\ value'[p] = value[p]
           /\ (p \in hp' => p \in hp) /\ (p \in task' => p \in task)
           /\ (p \in done => p \in done') /\ (p \in overtook => p \in overtook')
    BY Functions DEF ChunkThread, Contains, Lock, Collect, Resume, FinalSuspend, EraseTask, table, promise, history
  <2> QED BY <1>2, <2>1, InOrderElsewhere DEF Suspended
<1>5. InOrder(q)'
  <2>1. CASE Contains(q, c) \/ Lock(q, c) \/ Collect(q, c)
    <3>1. PICK from \in {"new", "known", "locked"}, to \in {"known", "locked", "filled", "ended"} :
             Moves(q, c, from, to) /\ (to = "ended" => from # "new" \/ q \notin task)
                                  /\ (to = "ended" /\ from # "new" => c # chunks[q] - 1)
      BY <2>1 DEF Contains, Lock, Collect, Last
    <3>2. thread[q][c] = from /\ thread'[q][c] = to
      BY <3>1, Moved
    <3>3. UNCHANGED <<pc, hp, value, done, overtook>>
      BY <2>1 DEF Contains, Lock, Collect, table, promise, history
    <3>4. c = chunks[q] - 1 => to # "ended"
      <4>1. SUFFICES ASSUME c = chunks[q] - 1, to = "ended" PROVE FALSE
        OBVIOUS
      <4>2. q \notin task /\ ~LastAt(q, {"ended"})
        BY <3>1, <3>2, <4>1 DEF LastAt
      <4>3. pc[q] # "idle"
        BY <1>2 DEF AskInv, NoThreads
      <4> QED BY <4>2, <4>3 DEF TaskInv, HasTask
    <3>5. \A stages \in {Handed, {"ended"}} : LastAt(q, stages)' => LastAt(q, stages) /\ c # chunks[q] - 1
      BY <1>2, <1>3, <3>2, <3>4 DEF LastAt, Handed
    <3>6. LastAt(q, Handed) /\ c # chunks[q] - 1 => q \in overtook
      BY <1>3, <3>2 DEF ResumedInv, InOrder
    <3>7. LastAt(q, {"ended"}) => LastAt(q, Handed)
      BY DEF LastAt, Handed
    <3> QED BY <3>3, <3>5, <3>6, <3>7 DEF ResumedInv, InOrder, Suspended
  <2>2. CASE Resume(q, c)
    <3>1. thread[q][c] = "filled" /\ thread'[q][c] = "resumed"
      BY <2>2, Moved DEF Resume
    <3>2. c = chunks[q] - 1 /\ ~LastAt(q, {"ended"}) /\ ~LastAt(q, {"ended"})'
      BY <1>2, <3>1 DEF LastInv, LastAt
    <3>3. /\ UNCHANGED <<task, hp, done>>
          /\ Suspended(q) => Suspended(q)'
          /\ pc'[q] = "returned" => pc[q] = "returned"
      BY <2>2, Functions DEF Resume, table, Suspended
    <3>4. ASSUME q \notin overtook'
          PROVE  /\ value'[q] = 0..(chunks[q] - 1) /\ Suspended(q)'
                 /\ \A d \in Chunk : d < chunks[q] - 1 => thread'[q][d] = "ended"
      <4>1. /\ q \in hp /\ value'[q] = users[q]
            /\ \A d \in 0..(chunks[q] - 2) : thread[q][d] = "ended"
        BY <2>2, <3>4, Functions DEF Resume
      <4>2. \A d \in Chunk : d < chunks[q] - 1 => thread[q][d] = "ended"
        BY <1>3, <4>1 DEF Chunk
      <4>3. users[q] = {d \in Chunk : thread[q][d] \in Collected}
        BY <3>2 DEF TaskInv, HasTask
      <4>4. \A d \in Chunk : thread[q][d] \in Collected <=> d < chunks[q]
        <5>1. \A d \in Chunk : thread[q][d] \in Collected => d < chunks[q]
          BY DEF LastInv, Collected
        <5>2. \A d \in Chunk : d < chunks[q] => d < chunks[q] - 1 \/ d = c
          BY <1>3, <3>2 DEF Chunk
        <5> QED BY <3>1, <4>2, <5>1, <5>2 DEF Collected
      <4>5. users[q] = 0..(chunks[q] - 1)
        <5>1. chunks[q] <= MaxChunks
          BY Functions, MemberAssumption
        <5> QED BY <1>3, <4>3, <4>4, <5>1, MemberAssumption DEF Chunk
      <4>6. Suspended(q)'
        BY <3>3, <4>1 DEF ResumedInv, InOrder
      <4>7. \A d \in Chunk : d < chunks[q] - 1 => d # c
        BY <1>3, <3>2
      <4> QED BY <1>2, <4>1, <4>2, <4>5, <4>6, <4>7
    <3>5. /\ q \in hp' => Suspended(q)'
          /\ pc'[q] = "returned" => q \in done'
      BY <3>3 DEF ResumedInv, InOrder
    <3> QED BY <1>2, <3>2, <3>4, <3>5 DEF InOrder
  <2>3. CASE FinalSuspend(q, c) \/ EraseTask(q, c)
    <3>1. /\ thread[q][c] \in {"resumed", "final"} /\ thread'[q][c] \in {"final", "ended"}
          /\ thread'[q][c] = "ended" => q \notin task'
      BY <2>3, Moved DEF FinalSuspend, EraseTask
    <3>2. c = chunks[q] - 1 /\ LastAt(q, Handed)
      BY <1>3, <3>1 DEF LastInv, LastAt, Handed
    <3>3. /\ UNCHANGED <<pc, value, overtook>> /\ done \subseteq done' /\ hp' \subseteq hp
      BY <2>3 DEF FinalSuspend, EraseTask, table, promise, history
    <3>4. LastAt(q, {"ended"})' => q \notin task'
      BY <1>2, <3>1, <3>2 DEF LastAt
    <3>5. \A d \in Chunk : d < chunks[q] - 1 => thread'[q][d] = thread[q][d]
      BY <1>2, <1>3, <3>2 DEF Chunk
    <3> QED BY <1>2, <3>2, <3>3, <3>4, <3>5 DEF ResumedInv, InOrder, Suspended
  <2> QED BY <2>1, <2>2, <2>3 DEF ChunkThread
<1> QED BY <1>4, <1>5 DEF ResumedInv

-----------------------------------------------------------------------------
(* The theorems *)

\* The invariant is inductive.
LEMMA MemberStep ==
  ASSUME TypeOK, MemberInv, [Next]_vars
  PROVE  MemberInv'
<1>1. CASE UNCHANGED vars
  BY <1>1 DEF vars, table, promise, gateway, history, MemberInv, AskInv, LastInv, TaskInv, ResumedInv,
         HasTask, InOrder, Suspended, LastAt, NoThreads, InQueue, Distinct
<1>2. CASE Next
  <2>1. ASSUME NEW q \in Requests, Caller(q) \/ SpuriousWakeup(q)
        PROVE  MemberInv'
    <3>1. UNCHANGED <<chunks, thread, resumes, done>>
      BY <2>1 DEF Caller, Insert, Enqueue, Suspend, Join, SpuriousWakeup, gateway, promise, history
    <3> QED BY <2>1, <3>1, CallerAsks, OthersLast, CallerTask, CallerResumed DEF MemberInv
  <2>2. ASSUME \/ SendPayload \/ LosePayload
               \/ \E q \in Requests : Answer(q) \/ RateLimit(q) \/ Resend(q)
        PROVE  MemberInv'
    <3>1. LastInv'
      <4>1. CASE SendPayload \/ LosePayload \/ \E q \in Requests : RateLimit(q) \/ Resend(q)
        <5>1. UNCHANGED <<chunks, thread, resumes, done>>
          BY <4>1 DEF SendPayload, LosePayload, RateLimit, Resend, promise, history
        <5> QED BY <5>1, OthersLast DEF MemberInv
      <4>2. CASE \E q \in Requests : Answer(q)
        BY <4>2, AnswerLast DEF MemberInv
      <4> QED BY <2>2, <4>1, <4>2
    <3> QED BY <2>2, <3>1, ServerAsks, ServerTask, ServerResumed DEF MemberInv
  <2>3. ASSUME NEW q \in Requests, NEW c \in Chunk, ChunkThread(q, c)
        PROVE  MemberInv'
    BY <2>3, ChunkAsks, ChunkLast, ChunkTask, ChunkResumed DEF MemberInv
  <2> QED BY <1>2, <2>1, <2>2, <2>3 DEF Next
<1> QED BY <1>1, <1>2

\* It holds at the start.
LEMMA MemberStart ==
  ASSUME Init
  PROVE  MemberInv
<1>1. Len(queue) = 0
  BY EmptySeq DEF Init
<1>2. Distinct /\ \A q : ~InQueue(q)
  BY <1>1 DEF Distinct, InQueue
<1>3. \A q \in Requests : /\ NoThreads(q) /\ resumes[q] = 0 /\ q \notin done
                          /\ asked[q] = "nothing" /\ q \notin limited
                          /\ chunks[q] = 0 /\ users[q] = {} /\ pc[q] = "idle" /\ q \notin hp
  BY DEF Init, NoThreads
<1>4. AskInv /\ LastInv
  BY <1>2, <1>3 DEF AskInv, LastInv, NoThreads
<1>5. TaskInv
  BY <1>3 DEF TaskInv, HasTask, NoThreads, Collected
<1>6. ResumedInv
  BY <1>3 DEF ResumedInv, InOrder, LastAt
<1> QED BY <1>4, <1>5, <1>6 DEF MemberInv

\* The invariant behind the other theorems.
THEOREM MemberInvariant == Spec => []MemberInv
<1>1. Init => MemberInv
  BY MemberStart
<1>2. TypeOK /\ MemberInv /\ [Next]_vars => MemberInv'
  BY MemberStep
<1> QED BY <1>1, <1>2, MemberTypeOK, PTL DEF Spec

\* No coroutine is resumed twice.
THEOREM MemberResumedOnce == Spec => []ResumedOnce
<1>1. MemberInv => ResumedOnce
  <2> SUFFICES ASSUME MemberInv, NEW q \in Requests PROVE resumes[q] <= 1
    BY DEF ResumedOnce
  <2>1. resumes[q] = 0 \/ resumes[q] = 1
    BY DEF MemberInv, LastInv
  <2> QED BY <2>1
<1> QED BY <1>1, MemberInvariant, PTL

\* What join returns is complete, unless the last chunk overtook.
THEOREM MemberJoinedIsComplete == Spec => []JoinedIsComplete
<1>1. MemberInv => JoinedIsComplete
  <2> SUFFICES ASSUME MemberInv, NEW q \in Requests \ overtook, pc[q] = "returned"
               PROVE  value[q] = 0..(chunks[q] - 1)
    BY DEF JoinedIsComplete
  <2>1. LastAt(q, {"final", "ended"})
    BY DEF MemberInv, ResumedInv, InOrder, LastInv
  <2>2. LastAt(q, Handed)
    BY <2>1 DEF LastAt, Handed
  <2> QED BY <2>2 DEF MemberInv, ResumedInv, InOrder
<1> QED BY <1>1, MemberInvariant, PTL

\* A request that is over has left the table, unless the last chunk overtook.
THEOREM MemberTableIsClean == Spec => []TableIsClean
<1>1. TypeOK /\ MemberInv => TableIsClean
  <2> SUFFICES ASSUME TypeOK, MemberInv, NEW q \in Requests \ overtook, q \in done,
                      \A c \in Chunk : thread[q][c] \in {"none", "ended"}
               PROVE  q \notin task
    BY DEF TableIsClean
  <2>1. LastAt(q, {"final", "ended"})
    BY DEF MemberInv, LastInv
  <2>2. LastAt(q, {"ended"})
    BY <2>1, LastIsChunk DEF LastAt
  <2> QED BY <2>2 DEF MemberInv, ResumedInv, InOrder
<1> QED BY <1>1, MemberTypeOK, MemberInvariant, PTL
=============================================================================
