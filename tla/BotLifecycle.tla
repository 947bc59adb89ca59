---------------------------- MODULE BotLifecycle ----------------------------
(***************************************************************************)
(* Starting, stopping and destroying a bot (src/src/initConnection.cpp):   *)
(* the thread that calls run() and later destroys the NyaBot, the listen   *)
(* threads of its shards seen from the outside (src/src/recv.cpp, the      *)
(* constructor and destructor of src/src/shard.cpp), and whoever sets stop.*)
(* What a listen thread does in between is Shard's; here it turns its loop *)
(* until stop, or sets stop itself.                                        *)
(***************************************************************************)
EXTENDS Integers

CONSTANTS
  NumShards,   \* api.numShards
  MaxConc      \* session_start_limit.max_concurrency

ASSUME LifecycleAssumption == NumShards \in Nat \ {0} /\ MaxConc \in Nat \ {0}

Shards == 0..(NumShards - 1)

VARIABLES
  main,      \* where the thread calling run() and ~NyaBot is
  started,   \* shards.size()
  thread,    \* per shard, its listen thread
  stop,      \* NyaBot::stop
  joined,    \* shards destroyed so far
  burst      \* history: shards constructed since the last pause

vars == <<main, started, thread, stop, joined, burst>>

Init ==
  /\ main = "fetch" /\ started = 0 /\ joined = 0 /\ burst = 0
  /\ thread = [i \in Shards |-> "none"]
  /\ stop = FALSE

-----------------------------------------------------------------------------
(* run() *)

\* GET /gateway/bot: run goes on, or returns before there is any shard.
Fetched == main = "fetch" /\ main' = "starting"
           /\ UNCHANGED <<started, thread, stop, joined, burst>>

FetchFails == main = "fetch" /\ main' = "returned"
              /\ UNCHANGED <<started, thread, stop, joined, burst>>

\* Mutant: every stretch takes one shard more, not only the first.
StartShardLongStretch ==
  /\ main = "starting" /\ started < NumShards /\ (NumShards = 1 \/ ~stop)
  /\ \E outcome \in {"loop", "unheard", "failed"} :
       /\ stop => outcome = "failed"
       /\ thread' = [thread EXCEPT ![started] =
                       IF outcome = "failed" THEN "failed" ELSE "loop"]
       /\ stop' = (stop \/ outcome = "unheard")
  /\ started' = started + 1 /\ burst' = burst + 1
  /\ main' = IF NumShards > 1 /\ started % (MaxConc + 1) = MaxConc /\ ~stop'
             THEN "pause" ELSE main
  /\ UNCHANGED joined

\* emplace_back of one shard, whose constructor connects and starts the listen
\* thread; without HELLO it sets stop and starts it all the same, without a
\* connection there is no thread.  After every MaxConc-th shard, the first left
\* out of the count, comes a pause.
StartShard ==
  /\ main = "starting" /\ started < NumShards /\ (NumShards = 1 \/ ~stop)
  /\ \E outcome \in {"loop", "unheard", "failed"} :
       /\ stop => outcome = "failed"
       /\ thread' = [thread EXCEPT ![started] =
                       IF outcome = "failed" THEN "failed" ELSE "loop"]
       /\ stop' = (stop \/ outcome = "unheard")
  /\ started' = started + 1 /\ burst' = burst + 1
  /\ main' = IF NumShards > 1 /\ started # 0 /\ started % MaxConc = 0 /\ ~stop'
             THEN "pause" ELSE main
  /\ UNCHANGED joined

PauseOver ==
  /\ main = "pause" /\ main' = "starting" /\ burst' = 0
  /\ UNCHANGED <<started, thread, stop, joined>>

StartedAll ==
  /\ main = "starting" /\ (started = NumShards \/ (NumShards > 1 /\ stop))
  /\ main' = "check"
  /\ UNCHANGED <<started, thread, stop, joined, burst>>

\* Mutant: the wait has no predicate.
CheckStopBlind ==
  /\ main = "check"
  /\ main' = "block"
  /\ UNCHANGED <<started, thread, stop, joined, burst>>

\* runCv.wait: look at stop, then block.  Neither stop nor the notification
\* takes runMtx, so both may come between the two.
CheckStop ==
  /\ main = "check"
  /\ main' = IF stop THEN "returned" ELSE "block"
  /\ UNCHANGED <<started, thread, stop, joined, burst>>

Block ==
  /\ main = "block" /\ main' = "blocked"
  /\ UNCHANGED <<started, thread, stop, joined, burst>>

SpuriousWakeup ==
  /\ main = "blocked" /\ main' = "check"
  /\ UNCHANGED <<started, thread, stop, joined, burst>>

-----------------------------------------------------------------------------
(* A listen thread *)

\* Mutant: the loop does not look at stop.
TurnForever(i) ==
  /\ thread[i] = "loop"
  /\ thread' = [thread EXCEPT ![i] = "recv"]
  /\ UNCHANGED <<main, started, stop, joined, burst>>

Turn(i) ==
  /\ thread[i] = "loop" /\ ~stop
  /\ thread' = [thread EXCEPT ![i] = "recv"]
  /\ UNCHANGED <<main, started, stop, joined, burst>>

\* The body of the loop ends, or ends fatally and stops the whole bot.
BodyEnds(i) ==
  /\ thread[i] = "recv"
  /\ thread' = [thread EXCEPT ![i] = "loop"]
  /\ stop' \in {stop, TRUE}
  /\ UNCHANGED <<main, started, joined, burst>>

LeaveLoop(i) ==
  /\ thread[i] = "loop" /\ stop
  /\ thread' = [thread EXCEPT ![i] = "notify"]
  /\ UNCHANGED <<main, started, stop, joined, burst>>

\* A CLOSE frame when the bot is stopping: the thread returns at once.
ReturnOnClose(i) ==
  /\ thread[i] = "recv" /\ stop
  /\ thread' = [thread EXCEPT ![i] = "ended"]
  /\ UNCHANGED <<main, started, stop, joined, burst>>

\* Mutant: the last shard notifies instead of the first.
NotifyRunLast(i) ==
  /\ thread[i] = "notify"
  /\ thread' = [thread EXCEPT ![i] = "ended"]
  /\ main' = IF i = NumShards - 1 /\ main = "blocked" THEN "check" ELSE main
  /\ UNCHANGED <<started, stop, joined, burst>>

\* After the loop: shard 0 wakes whoever waits.
NotifyRun(i) ==
  /\ thread[i] = "notify"
  /\ thread' = [thread EXCEPT ![i] = "ended"]
  /\ main' = IF i = 0 /\ main = "blocked" THEN "check" ELSE main
  /\ UNCHANGED <<started, stop, joined, burst>>

-----------------------------------------------------------------------------
(* Stopping and destroying *)

\* close() of another thread, a dispatch handler or the SIGINT handler.
StopIt ==
  /\ ~stop /\ main # "gone" /\ stop' = TRUE
  /\ UNCHANGED <<main, started, thread, joined, burst>>

\* ~NyaBot calls close(), then the members are destroyed.
Destroy ==
  /\ main = "returned" /\ main' = "destroy" /\ stop' = TRUE
  /\ UNCHANGED <<started, thread, joined, burst>>

\* Mutant: ~Shard does not wait for its thread.
JoinShardAtOnce ==
  /\ main = "destroy" /\ joined < started
  /\ stop' = TRUE /\ joined' = joined + 1
  /\ UNCHANGED <<main, started, thread, burst>>

\* Mutant: as many shards are destroyed as there was room reserved for.
JoinShardReserved ==
  /\ main = "destroy" /\ joined < NumShards
  /\ thread[joined] \in {"none", "failed", "ended"}
  /\ stop' = TRUE /\ joined' = joined + 1
  /\ UNCHANGED <<main, started, thread, burst>>

\* ~Shard of the next element: a thread that was started is joined.
JoinShard ==
  /\ main = "destroy" /\ joined < started
  /\ thread[joined] \in {"failed", "ended"}
  /\ stop' = TRUE /\ joined' = joined + 1
  /\ UNCHANGED <<main, started, thread, burst>>

Destroyed ==
  /\ main = "destroy" /\ joined = started /\ main' = "gone"
  /\ UNCHANGED <<started, thread, stop, joined, burst>>

-----------------------------------------------------------------------------
Main ==
  \/ Fetched \/ FetchFails \/ StartShard \/ PauseOver \/ StartedAll
  \/ CheckStop \/ Block
  \/ JoinShard \/ Destroyed

Listen(i) ==
  Turn(i) \/ BodyEnds(i) \/ LeaveLoop(i) \/ ReturnOnClose(i) \/ NotifyRun(i)

Next == Main \/ SpuriousWakeup \/ StopIt \/ Destroy \/ \E i \in Shards : Listen(i)

Spec == Init /\ [][Next]_vars

\* Threads are scheduled.  Nobody has to stop or destroy the bot, and a wakeup
\* out of nothing cannot be relied on.
FairSpec == Spec /\ WF_vars(Main) /\ \A i \in Shards : WF_vars(Listen(i))

-----------------------------------------------------------------------------
\* Every variable has its type.
TypeOK ==
  /\ main \in {"fetch", "starting", "pause", "check", "block", "blocked",
               "returned", "destroy", "gone"}
  /\ started \in 0..NumShards /\ joined \in 0..started
  /\ thread \in [Shards -> {"none", "failed", "loop", "recv", "notify", "ended"}]
  /\ stop \in BOOLEAN /\ burst \in 0..NumShards

\* No listen thread runs once its shard, whose members it uses, is destroyed
\* (~Shard sets stop and joins).
NoThreadOutlivesShard ==
  \A i \in Shards : i < joined \/ main = "gone" =>
                      thread[i] \in {"none", "failed", "ended"}

\* Before the first pause at most MaxConc + 1 shards identify, since shard 0 is
\* not counted (src/src/initConnection.cpp:84); after it at most MaxConc
\* between two pauses.  No pause has been as long as burst = started.
StartWindow == burst <= MaxConc + (IF burst = started THEN 1 ELSE 0)

\* ~NyaBot comes to its end, whichever thread it has to wait for.
DestructorEnds == main = "destroy" ~> main = "gone"

\* When run() is not blocked yet it sees a stop by itself, and when it is, a
\* stop that ends the loop of shard 0 by its condition wakes it.
StopWakesRun ==
  (stop /\ (\/ main \in {"starting", "pause", "check"}
            \/ main = "blocked" /\ thread[0] = "notify"))
    ~> main \notin {"starting", "pause", "check", "block", "blocked"}

\* close "closes the gateway connection effectively stopping the bot"
\* (src/include/nyaBot.h): a bot that was stopped returns from run().  It does
\* not hold: the notification may be sent before run() blocks, or never.
CloseStopsRun ==
  (stop /\ main \in {"starting", "pause", "check", "block", "blocked"})
    ~> main \notin {"starting", "pause", "check", "block", "blocked"}
=============================================================================
