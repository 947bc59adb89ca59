------------------------- MODULE BotLifecycleProofs -------------------------
(* What TLAPS proves of BotLifecycle, for every number of shards and every *)
(* concurrency.                                                            *)
EXTENDS BotLifecycle, TLAPS

USE LifecycleAssumption

\* A multiple of the concurrency is some number of times the concurrency.
LEMMA MultipleIsProduct ==
  ASSUME NEW n \in Nat, n % MaxConc = 0
  PROVE  \E k \in Nat : n = k * MaxConc
<1>1. n = (n \div MaxConc) * MaxConc /\ n \div MaxConc \in Nat
  OBVIOUS
<1> QED BY <1>1

\* And the other way around.
LEMMA ProductIsMultiple ==
  ASSUME NEW k \in Nat
  PROVE  (k * MaxConc) % MaxConc = 0
OBVIOUS

-----------------------------------------------------------------------------
(* Types *)

\* A shard counts for the burst only once it was started.
BurstInv == burst <= started

LEMMA TypeInit == Init => TypeOK /\ BurstInv
<1> SUFFICES ASSUME Init PROVE TypeOK /\ BurstInv
  OBVIOUS
<1>1. started \in 0..NumShards /\ joined \in 0..started /\ burst \in 0..NumShards
  BY DEF Init
<1>2. thread \in [Shards -> {"none", "failed", "loop", "recv", "notify", "ended"}]
  BY DEF Init
<1>3. main = "fetch" /\ stop \in BOOLEAN
  BY DEF Init
<1>4. burst <= started
  BY DEF Init
<1> QED BY <1>1, <1>2, <1>3, <1>4 DEF TypeOK, BurstInv

LEMMA TypeStep ==
  ASSUME TypeOK, BurstInv, [Next]_vars
  PROVE  TypeOK' /\ BurstInv'
<1> USE DEF TypeOK, BurstInv, Shards
<1>1. CASE Fetched \/ FetchFails \/ PauseOver \/ StartedAll \/ CheckStop \/ Block
  BY <1>1 DEF Fetched, FetchFails, PauseOver, StartedAll, CheckStop, Block
<1>2. CASE StartShard
  <2>1. /\ main' \in {"starting", "pause"} /\ UNCHANGED joined
        /\ started < NumShards /\ started' = started + 1 /\ burst' = burst + 1
    BY <1>2 DEF StartShard
  <2>2. PICK outcome \in {"loop", "unheard", "failed"} :
          /\ thread' = [thread EXCEPT ![started] =
                          IF outcome = "failed" THEN "failed" ELSE "loop"]
          /\ stop' = (stop \/ outcome = "unheard")
    BY <1>2 DEF StartShard
  <2>3. thread' \in [Shards -> {"none", "failed", "loop", "recv", "notify", "ended"}]
    BY <2>2
  <2>4. stop' \in BOOLEAN
    BY <2>2
  <2>5. started' \in 0..NumShards /\ joined' \in 0..started'
        /\ burst' \in 0..NumShards /\ burst' <= started'
    BY <2>1
  <2> QED BY <2>1, <2>3, <2>4, <2>5
<1>3. CASE JoinShard \/ Destroyed \/ Destroy
  <2>1. /\ UNCHANGED <<started, thread, burst>> /\ stop' \in {stop, TRUE}
        /\ main' \in {main, "gone", "destroy"}
        /\ \/ joined' = joined
           \/ joined < started /\ joined' = joined + 1
    <3>1. CASE JoinShard
      BY <3>1 DEF JoinShard
    <3>2. CASE Destroyed
      BY <3>2 DEF Destroyed
    <3>3. CASE Destroy
      BY <3>3 DEF Destroy
    <3> QED BY <1>3, <3>1, <3>2, <3>3
  <2>2. joined' \in 0..started'
    BY <2>1
  <2>3. stop' \in BOOLEAN
    BY <2>1
  <2> QED BY <2>1, <2>2, <2>3
<1>4. CASE SpuriousWakeup \/ StopIt
  BY <1>4 DEF SpuriousWakeup, StopIt
<1>5. ASSUME NEW i \in Shards, Listen(i)
      PROVE  TypeOK' /\ BurstInv'
  BY <1>5 DEF Listen, Turn, BodyEnds, LeaveLoop, ReturnOnClose, NotifyRun
<1>6. CASE UNCHANGED vars
  BY <1>6 DEF vars
<1> QED BY <1>1, <1>2, <1>3, <1>4, <1>5, <1>6 DEF Next, Main

\* Every variable always has its type.
THEOREM LifecycleTypeOK == Spec => [](TypeOK /\ BurstInv)
BY TypeInit, TypeStep, PTL DEF Spec

-----------------------------------------------------------------------------
(* Threads and the destructor *)

\* Only the destructor joins; a shard not started has no thread, one that was
\* joined had none or has none any more.
JoinInv ==
  /\ joined > 0 \/ main = "gone" => main \in {"destroy", "gone"}
  /\ main = "gone" => joined = started
  /\ \A i \in Shards : i >= started => thread[i] = "none"
  /\ \A i \in Shards : i < joined => thread[i] \in {"failed", "ended"}

LEMMA JoinStep ==
  ASSUME TypeOK, JoinInv, [Next]_vars
  PROVE  JoinInv'
<1> USE DEF TypeOK, JoinInv, Shards
<1>1. CASE Fetched \/ FetchFails \/ PauseOver \/ StartedAll \/ CheckStop \/ Block
  BY <1>1 DEF Fetched, FetchFails, PauseOver, StartedAll, CheckStop, Block
<1>2. CASE StartShard
  <2>1. joined = 0 /\ joined' = 0 /\ main' # "gone" /\ started' = started + 1
    BY <1>2 DEF StartShard
  <2>2. \A i \in Shards : i >= started + 1 => thread'[i] = thread[i]
    BY <1>2 DEF StartShard
  <2> QED BY <2>1, <2>2
<1>3. CASE JoinShard
  BY <1>3 DEF JoinShard
<1>4. CASE Destroyed \/ Destroy
  BY <1>4 DEF Destroyed, Destroy
<1>5. CASE SpuriousWakeup \/ StopIt
  BY <1>5 DEF SpuriousWakeup, StopIt
<1>6. ASSUME NEW i \in Shards, Listen(i)
      PROVE  JoinInv'
  <2>1. thread[i] \in {"loop", "recv", "notify"} /\ UNCHANGED <<started, joined>>
    BY <1>6 DEF Listen, Turn, BodyEnds, LeaveLoop, ReturnOnClose, NotifyRun
  <2>2. i < started /\ ~(i < joined)
    BY <2>1
  <2>3. \A j \in Shards : j # i => thread'[j] = thread[j]
    BY <1>6 DEF Listen, Turn, BodyEnds, LeaveLoop, ReturnOnClose, NotifyRun
  <2>4. main' = main \/ (main = "blocked" /\ main' = "check")
    BY <1>6 DEF Listen, Turn, BodyEnds, LeaveLoop, ReturnOnClose, NotifyRun
  <2> QED BY <2>1, <2>2, <2>3, <2>4
<1>7. CASE UNCHANGED vars
  BY <1>7 DEF vars
<1> QED BY <1>1, <1>2, <1>3, <1>4, <1>5, <1>6, <1>7 DEF Next, Main

\* No listen thread runs once its shard is destroyed.
THEOREM LifecycleNoThreadOutlivesShard == Spec => []NoThreadOutlivesShard
<1>1. Init => JoinInv
  BY DEF Init, JoinInv, Shards
<1>2. TypeOK /\ BurstInv /\ JoinInv /\ [Next]_vars => JoinInv'
  BY JoinStep
<1>3. TypeOK /\ BurstInv /\ JoinInv => NoThreadOutlivesShard
  BY DEF TypeOK, JoinInv, NoThreadOutlivesShard, Shards
<1> QED BY <1>1, <1>2, <1>3, LifecycleTypeOK, PTL DEF Spec

-----------------------------------------------------------------------------
(* The pace of the starts *)

\* Shards started in the first stretch, or k pauses later.
Paced(n, m) ==
  \/ n <= MaxConc /\ m = n
  \/ \E k \in Nat : n = k * MaxConc + 1 + m /\ m < MaxConc

\* While run goes on starting shards, the last pause tells how many there are.
PaceInv ==
  /\ burst <= MaxConc \/ (burst = started /\ burst <= MaxConc + 1)
  /\ NumShards = 1 \/ main = "fetch" => burst = started
  /\ main = "fetch" => started = 0
  /\ main = "pause" => /\ NumShards # 1
                       /\ \E k \in Nat : started = k * MaxConc + 1
  /\ main = "starting" /\ NumShards # 1 /\ ~stop => Paced(started, burst)

LEMMA PaceStep ==
  ASSUME TypeOK, BurstInv, PaceInv, [Next]_vars
  PROVE  PaceInv'
<1> USE DEF TypeOK, BurstInv, PaceInv, Paced, Shards
<1>1. CASE Fetched
  BY <1>1 DEF Fetched
<1>2. CASE StartShard
  <2>1. started \in Nat /\ started' = started + 1 /\ burst' = burst + 1
        /\ main = "starting" /\ main' \in {"starting", "pause"}
    BY <1>2 DEF StartShard
  <2>2. CASE NumShards = 1
    <3>1. started = 0 /\ main' # "pause"
      BY <1>2, <2>2 DEF StartShard
    <3> QED BY <2>1, <2>2, <3>1
  <2>3. CASE NumShards # 1
    <3>1. ~stop /\ Paced(started, burst)
      BY <1>2, <2>1, <2>3 DEF StartShard
    <3>2. burst' <= MaxConc \/ (burst' = started' /\ burst' <= MaxConc + 1)
      BY <2>1, <3>1
    <3>3. ASSUME main' = "pause"
          PROVE  \E k \in Nat : started' = k * MaxConc + 1
      <4>1. started % MaxConc = 0
        BY <1>2, <2>1, <3>3 DEF StartShard
      <4>2. PICK k \in Nat : started = k * MaxConc
        BY <2>1, <4>1, MultipleIsProduct
      <4> QED BY <2>1, <4>2
    <3>4. ASSUME main' = "starting", ~stop'
          PROVE  Paced(started', burst')
      <4>1. started = 0 \/ started % MaxConc # 0
        BY <1>2, <2>1, <2>3, <3>4 DEF StartShard
      <4>2. CASE started <= MaxConc /\ burst = started
        <5>1. MaxConc % MaxConc = 0
          OBVIOUS
        <5>2. started # MaxConc
          BY <4>1, <5>1
        <5> QED BY <2>1, <4>2, <5>2
      <4>3. CASE \E k \in Nat : started = k * MaxConc + 1 + burst /\ burst < MaxConc
        <5>1. PICK k \in Nat : started = k * MaxConc + 1 + burst /\ burst < MaxConc
          BY <4>3
        <5>2. k * MaxConc \in Nat /\ (k + 1) * MaxConc = k * MaxConc + MaxConc
          OBVIOUS
        <5>3. ((k + 1) * MaxConc) % MaxConc = 0
          BY ProductIsMultiple
        <5>4. burst + 1 # MaxConc
          BY <4>1, <5>1, <5>2, <5>3
        <5>5. started' = k * MaxConc + 1 + burst' /\ burst' < MaxConc
          BY <2>1, <5>1, <5>2, <5>4
        <5> QED BY <5>5
      <4> QED BY <3>1, <4>2, <4>3
    <3> QED BY <2>1, <2>3, <3>2, <3>3, <3>4
  <2> QED BY <2>2, <2>3
<1>3. CASE PauseOver
  <2>1. main = "pause" /\ main' = "starting" /\ burst' = 0
        /\ UNCHANGED <<started, stop>>
    BY <1>3 DEF PauseOver
  <2>2. PICK k \in Nat : started = k * MaxConc + 1
    BY <2>1
  <2>3. k * MaxConc \in Nat
    OBVIOUS
  <2>4. started' = k * MaxConc + 1 + burst' /\ burst' < MaxConc
    BY <2>1, <2>2, <2>3
  <2>5. NumShards # 1
    BY <2>1 DEF PaceInv
  <2> QED BY <2>1, <2>4, <2>5
<1>4. CASE FetchFails \/ StartedAll \/ CheckStop \/ Block \/ JoinShard \/ Destroyed
           \/ Destroy \/ SpuriousWakeup \/ StopIt
  BY <1>4 DEF FetchFails, StartedAll, CheckStop, Block, JoinShard, Destroyed,
              Destroy, SpuriousWakeup, StopIt
<1>5. ASSUME NEW i \in Shards, Listen(i)
      PROVE  PaceInv'
  <2>1. /\ UNCHANGED <<started, burst>>
        /\ main' = main \/ main' = "check"
        /\ stop => stop'
    BY <1>5 DEF Listen, Turn, BodyEnds, LeaveLoop, ReturnOnClose, NotifyRun
  <2> QED BY <2>1
<1>6. CASE UNCHANGED vars
  BY <1>6 DEF vars
<1> QED BY <1>1, <1>2, <1>3, <1>4, <1>5, <1>6 DEF Next, Main

\* At most MaxConc + 1 shards identify before the first pause, and at most
\* MaxConc between any two (the loop of run, src/src/initConnection.cpp:80-88).
THEOREM LifecycleStartWindow == Spec => []StartWindow
<1>1. Init => PaceInv
  BY DEF Init, PaceInv
<1>2. TypeOK /\ BurstInv /\ PaceInv /\ [Next]_vars => PaceInv'
  BY PaceStep
<1>3. TypeOK /\ PaceInv => StartWindow
  BY DEF TypeOK, PaceInv, StartWindow
<1> QED BY <1>1, <1>2, <1>3, LifecycleTypeOK, PTL DEF Spec
=============================================================================
