-------------------------- MODULE RestClientProofs --------------------------
(* What TLAPS proves of RestClient, for every value of its constants. *)
EXTENDS RestClient, TLAPS

-----------------------------------------------------------------------------
(* Types *)

\* A request that moves keeps the type of pc.
LEMMA GotoType ==
  ASSUME TypeOK, NEW r \in Requests, NEW here, NEW there \in Place, Goto(r, here, there)
  PROVE  pc' \in [Requests -> Place]
BY DEF TypeOK, Goto

\* Sending keeps the type of late.
LEMMA SentType ==
  ASSUME TypeOK, NEW r \in Requests, Sent(r)
  PROVE  late' \in [Requests -> Nat]
BY DEF TypeOK, Sent

\* So does the reader of an entry of the table.
LEMMA ReadEntryType ==
  ASSUME TypeOK, NEW r \in Requests, ReadEntry(r)
  PROVE  /\ table' \in [Endpoints -> {"none", "zero", "set"}]
         /\ remade' \subseteq Endpoints
         /\ told' \in [Requests -> SUBSET {"global", "user"}]
<1>1. Target[r] \in Endpoints
  BY RestAssumption
<1>2. table' \in [Endpoints -> {"none", "zero", "set"}] /\ remade' \subseteq Endpoints
  BY <1>1 DEF TypeOK, ReadEntry
<1>3. told[r] \in SUBSET {"global", "user"}
  BY DEF TypeOK
<1>4. told' \in [Requests -> SUBSET {"global", "user"}]
  BY <1>3 DEF TypeOK, ReadEntry
<1> QED BY <1>2, <1>4

\* The steps that change nothing but where the request is.
LEMMA MoveType ==
  ASSUME TypeOK, NEW r \in Requests, Start(r) \/ Top(r) \/ Lookup(r)
  PROVE  TypeOK'
<1>1. pc' \in [Requests -> Place]
  <2>1. \E here : \E there \in {"top", "INTERRUPT", "global", "perform", "read"} :
           Goto(r, here, there)
    BY DEF Start, Top, Lookup
  <2> QED BY <2>1, GotoType DEF Place, Result
<1>2. UNCHANGED <<counters, limit, table, stop, limits, history>>
  BY DEF Start, Top, Lookup
<1> QED BY <1>1, <1>2 DEF TypeOK, counters, limit, history

\* The steps on the two atomics of the global limit.
LEMMA GlobalType ==
  ASSUME TypeOK, NEW r \in Requests,
         CheckGlobal(r) \/ LoadGlobal(r) \/ StoreLimit(r) \/ StoreResetAfter(r)
           \/ SleepGlobal(r) \/ ClearLimit(r) \/ ClearResetAfter(r)
  PROVE  TypeOK'
<1>1. pc' \in [Requests -> Place]
  <2>1. \E here : \E there \in {"load", "lookup", "after", "nap", "unlimit", "zero", "top"} :
           Goto(r, here, there)
    BY DEF CheckGlobal, LoadGlobal, StoreLimit, StoreResetAfter, SleepGlobal, ClearLimit,
           ClearResetAfter
  <2> QED BY <2>1, GotoType DEF Place, InGlobal
<1>2. told' \in [Requests -> SUBSET {"global", "user"}]
  <2>1. told[r] \in SUBSET {"global", "user"} /\ told \in [Requests -> SUBSET {"global", "user"}]
    BY DEF TypeOK
  <2>2. \/ told' = told
        \/ told' = [told EXCEPT ![r] = @ \cup {"global"}]
        \/ told' = [told EXCEPT ![r] = @ \ {"global"}]
    BY <2>1 DEF CheckGlobal, LoadGlobal, StoreLimit, StoreResetAfter, SleepGlobal, ClearLimit,
           ClearResetAfter, history
  <2> QED BY <2>1, <2>2
<1>3. globalLimit' \in BOOLEAN /\ globalResetAfter' \in BOOLEAN /\ torn' \in BOOLEAN
  BY DEF TypeOK, CheckGlobal, LoadGlobal, StoreLimit, StoreResetAfter, SleepGlobal, ClearLimit,
         ClearResetAfter, history, limit
<1>4. UNCHANGED <<counters, table, stop, limits, failures, late, crowded, remade>>
  BY DEF CheckGlobal, LoadGlobal, StoreLimit, StoreResetAfter, SleepGlobal, ClearLimit,
         ClearResetAfter, history, limit
<1> QED BY <1>1, <1>2, <1>3, <1>4 DEF TypeOK, counters

\* The steps on the table of user limits.
LEMMA TableType ==
  ASSUME TypeOK, NEW r \in Requests,
         Read(r) \/ StoreEntry(r) \/ SleepEntry(r) \/ EraseEntry(r)
  PROVE  TypeOK'
<1>1. pc' \in [Requests -> Place]
  <2>1. \E here : \E there \in {"perform", "sleep", "erase", "top"} : Goto(r, here, there)
    BY DEF Read, StoreEntry, SleepEntry, EraseEntry
  <2> QED BY <2>1, GotoType DEF Place, InUser
<1>2. Target[r] \in Endpoints
  BY RestAssumption
<1>3. UNCHANGED <<counters, limit, stop, limits, failures, late, torn>>
  BY DEF Read, StoreEntry, SleepEntry, EraseEntry, history
<1>4. /\ table' \in [Endpoints -> {"none", "zero", "set"}]
      /\ told' \in [Requests -> SUBSET {"global", "user"}]
      /\ crowded' \subseteq Endpoints /\ remade' \subseteq Endpoints
  <2>1. CASE Read(r) \/ SleepEntry(r)
    BY <2>1, ReadEntryType DEF Read, SleepEntry, TypeOK
  <2>2. CASE StoreEntry(r)
    BY <2>2, <1>2 DEF StoreEntry, TypeOK
  <2>3. CASE EraseEntry(r)
    BY <2>3, <1>2 DEF EraseEntry, TypeOK, history
  <2> QED BY <2>1, <2>2, <2>3
<1> QED BY <1>1, <1>3, <1>4 DEF TypeOK, counters, limit

\* perform and its outcomes: the wait stays below its cap.
LEMMA PerformType ==
  ASSUME TypeOK, NEW r \in Requests, Answered(r) \/ IOError(r) \/ RateLimited(r)
  PROVE  TypeOK'
<1>1. pc' \in [Requests -> Place]
  <2>1. \E there \in {"response", "IOERR", "top", "limit", "entry"} : Goto(r, "perform", there)
    BY DEF Answered, IOError, RateLimited
  <2> QED BY <2>1, GotoType DEF Place, InGlobal, InUser, Result
<1>2. late' \in [Requests -> Nat]
  BY SentType DEF Answered, IOError, RateLimited
<1>3. UNCHANGED <<limit, table, stop, torn, crowded, remade>>
  BY DEF Answered, IOError, RateLimited
<1>4. /\ retryCount' \in [Requests -> 0..(RetryAmount + 1)]
      /\ timeToWait' \in [Requests -> 0..600]
      /\ failures' \in [Requests -> Nat]
  <2>1. CASE IOError(r)
    <3>1. failures' \in [Requests -> Nat]
      BY <2>1 DEF IOError, TypeOK
    <3>2. CASE retryCount[r] > RetryAmount
      BY <2>1, <3>1, <3>2 DEF IOError, TypeOK, counters
    <3>3. CASE ~(retryCount[r] > RetryAmount)
      <4>1. retryCount[r] \in 0..(RetryAmount + 1) /\ timeToWait[r] \in 0..600
        BY DEF TypeOK
      <4>2. retryCount[r] + 1 \in 0..(RetryAmount + 1)
        BY <3>3, <4>1, RestAssumption
      <4>3. 2 * (IF timeToWait[r] > 300 THEN 300 ELSE timeToWait[r]) \in 0..600
        BY SMTT(30), <4>1
      <4>4. /\ retryCount' = [retryCount EXCEPT ![r] = retryCount[r] + 1]
            /\ timeToWait' = [timeToWait EXCEPT ![r] =
                                2 * (IF timeToWait[r] > 300 THEN 300 ELSE timeToWait[r])]
        BY <2>1, <3>3 DEF IOError
      <4> QED BY <3>1, <4>2, <4>3, <4>4 DEF TypeOK
    <3> QED BY <3>2, <3>3
  <2>2. CASE Answered(r) \/ RateLimited(r)
    BY <2>2 DEF Answered, RateLimited, TypeOK, counters
  <2> QED BY <2>1, <2>2
<1>5. told' \in [Requests -> SUBSET {"global", "user"}] /\ limits' \in 0..MaxLimits
  <2>1. told[r] \in SUBSET {"global", "user"} /\ told \in [Requests -> SUBSET {"global", "user"}]
    BY DEF TypeOK
  <2>2. \/ told' = told
        \/ told' = [told EXCEPT ![r] = @ \cup {"global"}]
        \/ told' = [told EXCEPT ![r] = @ \cup {"user"}]
    BY DEF Answered, IOError, RateLimited
  <2>3. limits' \in 0..MaxLimits
    BY RestAssumption DEF TypeOK, Answered, IOError, RateLimited
  <2> QED BY <2>1, <2>2, <2>3
<1> QED BY <1>1, <1>2, <1>3, <1>4, <1>5 DEF TypeOK, limit

\* Every variable keeps its type.
THEOREM RestTypeOK == Spec => []TypeOK
<1>1. Init => TypeOK
  <2>1. 0 \in 0..(RetryAmount + 1) /\ 0 \in 0..MaxLimits /\ 5 \in 0..600
    BY RestAssumption
  <2>2. "idle" \in Place
    BY DEF Place
  <2> SUFFICES ASSUME Init PROVE TypeOK
    OBVIOUS
  <2>3. pc \in [Requests -> Place]
    BY <2>2 DEF Init
  <2>4. retryCount \in [Requests -> 0..(RetryAmount + 1)] /\ timeToWait \in [Requests -> 0..600]
    BY <2>1 DEF Init
  <2>5. /\ failures \in [Requests -> Nat] /\ late \in [Requests -> Nat]
        /\ told \in [Requests -> SUBSET {"global", "user"}]
    BY DEF Init
  <2>6. table \in [Endpoints -> {"none", "zero", "set"}] /\ limits \in 0..MaxLimits
    BY <2>1 DEF Init
  <2> QED BY <2>3, <2>4, <2>5, <2>6 DEF Init, TypeOK
<1>2. TypeOK /\ [Next]_vars => TypeOK'
  <2> SUFFICES ASSUME TypeOK, [Next]_vars PROVE TypeOK'
    OBVIOUS
  <2>1. CASE Stop
    BY <2>1 DEF Stop, TypeOK, counters, limit, history
  <2>2. CASE UNCHANGED vars
    BY <2>2 DEF vars, TypeOK, counters, limit, history
  <2>3. ASSUME NEW r \in Requests, Start(r) \/ Step(r)
        PROVE  TypeOK'
    BY <2>3, MoveType, GlobalType, TableType, PerformType DEF Step
  <2> QED BY <2>1, <2>2, <2>3 DEF Next
<1> QED BY <1>1, <1>2, PTL DEF Spec

-----------------------------------------------------------------------------
(* Retries *)

\* Every I/O error but the last is a retry.
RetryInv ==
  \A r \in Requests :
    IF pc[r] = "IOERR" THEN retryCount[r] = RetryAmount + 1 /\ failures[r] = RetryAmount + 2
    ELSE failures[r] = retryCount[r]

\* A step that is not an I/O error leaves the counts alone, and does not come
\* from or lead to IOERR.
LEMMA CountsAlone ==
  ASSUME TypeOK, RetryInv, UNCHANGED <<retryCount, failures>>,
         NEW r \in Requests, NEW here \in Place \ {"IOERR"}, NEW there \in Place \ {"IOERR"},
         Goto(r, here, there)
  PROVE  RetryInv'
BY DEF TypeOK, RetryInv, Goto

\* An I/O error is counted, and ends the request when the retries are used up.
LEMMA IOErrorCounts ==
  ASSUME TypeOK, RetryInv, NEW r \in Requests, IOError(r)
  PROVE  RetryInv'
<1>1. /\ pc[r] = "perform" /\ failures[r] = retryCount[r]
      /\ failures' = [failures EXCEPT ![r] = @ + 1]
  BY DEF IOError, Goto, RetryInv
<1>2. /\ pc \in [Requests -> Place] /\ failures \in [Requests -> Nat]
      /\ retryCount \in [Requests -> 0..(RetryAmount + 1)]
  BY DEF TypeOK
<1>3. CASE retryCount[r] > RetryAmount
  <2>1. retryCount[r] = RetryAmount + 1
    BY <1>2, <1>3, RestAssumption
  <2>2. pc' = [pc EXCEPT ![r] = "IOERR"] /\ retryCount' = retryCount
    BY <1>3 DEF IOError, Goto, counters
  <2> QED BY <1>1, <1>2, <2>1, <2>2, RestAssumption DEF RetryInv
<1>4. CASE ~(retryCount[r] > RetryAmount)
  <2>1. pc' = [pc EXCEPT ![r] = "top"] /\ retryCount' = [retryCount EXCEPT ![r] = @ + 1]
    BY <1>4 DEF IOError, Goto
  <2> QED BY <1>1, <1>2, <2>1 DEF RetryInv
<1> QED BY <1>3, <1>4

\* IOERR is returned after exactly RetryAmount + 1 retries, and never before.
THEOREM RestIOErrAfterRetries == Spec => []IOErrAfterRetries
<1>1. Init => RetryInv
  BY DEF Init, RetryInv
<1>2. TypeOK /\ RetryInv /\ [Next]_vars => RetryInv'
  <2> SUFFICES ASSUME TypeOK, RetryInv, [Next]_vars PROVE RetryInv'
    OBVIOUS
  <2>1. CASE Stop \/ UNCHANGED vars
    BY <2>1 DEF Stop, vars, counters, history, RetryInv
  <2>2. ASSUME NEW r \in Requests, Start(r) \/ Step(r)
        PROVE  RetryInv'
    <3>1. CASE IOError(r)
      BY <3>1, IOErrorCounts
    <3>2. CASE Start(r) \/ Top(r) \/ CheckGlobal(r) \/ LoadGlobal(r) \/ Lookup(r) \/ Read(r)
               \/ Answered(r) \/ RateLimited(r)
      <4>1. /\ UNCHANGED <<retryCount, failures>>
            /\ \E here \in Place \ {"IOERR"}, there \in Place \ {"IOERR"} : Goto(r, here, there)
        BY <3>2 DEF Start, Top, CheckGlobal, LoadGlobal, Lookup, Read, Answered, RateLimited,
                   counters, history, Place, InGlobal, InUser, Result
      <4> QED BY <4>1, CountsAlone
    <3>3. CASE StoreLimit(r) \/ StoreResetAfter(r) \/ SleepGlobal(r) \/ ClearLimit(r)
               \/ ClearResetAfter(r) \/ StoreEntry(r) \/ SleepEntry(r) \/ EraseEntry(r)
      <4>1. /\ UNCHANGED <<retryCount, failures>>
            /\ \E here \in Place \ {"IOERR"}, there \in Place \ {"IOERR"} : Goto(r, here, there)
        BY <3>3 DEF StoreLimit, StoreResetAfter, SleepGlobal, ClearLimit, ClearResetAfter,
                   StoreEntry, SleepEntry, EraseEntry, counters, history, Place, InGlobal, InUser,
                   Result
      <4> QED BY <4>1, CountsAlone
    <3> QED BY <2>2, <3>1, <3>2, <3>3 DEF Step
  <2> QED BY <2>1, <2>2 DEF Next
<1>3. TypeOK /\ RetryInv => IOErrAfterRetries
  <2> SUFFICES ASSUME TypeOK, RetryInv, NEW r \in Requests
               PROVE  /\ failures[r] <= RetryAmount + 2
                      /\ pc[r] = "IOERR" <=> failures[r] = RetryAmount + 2
    BY DEF IOErrAfterRetries
  <2>1. retryCount[r] \in 0..(RetryAmount + 1)
    BY DEF TypeOK
  <2> QED BY <2>1, RestAssumption DEF RetryInv
<1> QED BY <1>1, <1>2, <1>3, RestTypeOK, PTL DEF Spec

-----------------------------------------------------------------------------
(* Stopping *)

\* Whoever sent after stop is on its way to the test of stop, or done.
StopInv ==
  \A r \in Requests :
    \/ late[r] = 0
    \/ late[r] = 1 /\ stop /\ pc[r] \in {"top"} \cup InGlobal \cup InUser \cup Result

\* A step that does not send leaves late alone; it keeps to the way back to
\* the top of the loop.
LEMMA LateAlone ==
  ASSUME TypeOK, StopInv, UNCHANGED <<late, stop>>,
         NEW r \in Requests, NEW here, NEW there, Goto(r, here, there),
         \/ here \notin {"top"} \cup InGlobal \cup InUser \cup Result
         \/ there \in {"top"} \cup InGlobal \cup InUser \cup Result
         \/ here = "top" /\ ~stop
  PROVE  StopInv'
BY DEF TypeOK, StopInv, Goto

\* A request that performs has not sent after stop, and does not perform again.
LEMMA SendsOnce ==
  ASSUME TypeOK, StopInv, NEW r \in Requests, NEW there \in {"top"} \cup InGlobal \cup InUser \cup Result,
         Goto(r, "perform", there), Sent(r), stop' = stop
  PROVE  StopInv'
<1>1. late \in [Requests -> Nat] /\ pc \in [Requests -> Place]
  BY DEF TypeOK
<1>2. late[r] = 0
  BY DEF StopInv, Goto, InGlobal, InUser, Result
<1>3. \A q \in Requests \ {r} : late'[q] = late[q] /\ pc'[q] = pc[q]
  BY <1>1 DEF Sent, Goto
<1>4. pc'[r] = there /\ (late'[r] = 0 \/ (late'[r] = 1 /\ stop))
  BY <1>1, <1>2 DEF Sent, Goto
<1> QED BY <1>3, <1>4 DEF StopInv

\* Once the bot is stopped, a request is sent at most once more.
THEOREM RestStopCutsRetries == Spec => []StopCutsRetries
<1>1. Init => StopInv
  BY DEF Init, StopInv
<1>2. TypeOK /\ StopInv /\ [Next]_vars => StopInv'
  <2> SUFFICES ASSUME TypeOK, StopInv, [Next]_vars PROVE StopInv'
    OBVIOUS
  <2>1. CASE Stop
    BY <2>1 DEF Stop, history, StopInv
  <2>2. CASE UNCHANGED vars
    BY <2>2 DEF vars, history, StopInv
  <2>3. ASSUME NEW r \in Requests, Start(r) \/ Step(r)
        PROVE  StopInv'
    <3>1. CASE Answered(r) \/ IOError(r) \/ RateLimited(r)
      <4>1. /\ Sent(r) /\ stop' = stop
            /\ \E there \in {"response", "IOERR", "top", "limit", "entry"} : Goto(r, "perform", there)
        BY <3>1 DEF Answered, IOError, RateLimited
      <4> QED BY <4>1, SendsOnce DEF InGlobal, InUser, Result
    <3>2. CASE Start(r) \/ Top(r) \/ CheckGlobal(r) \/ LoadGlobal(r) \/ Lookup(r) \/ Read(r)
      <4>1. /\ UNCHANGED <<late, stop>>
            /\ \E here, there : /\ Goto(r, here, there)
                                /\ \/ here \in {"idle", "global", "load", "lookup", "read"}
                                   \/ here = "top" /\ (there = "INTERRUPT" \/ ~stop)
        BY <3>2 DEF Start, Top, CheckGlobal, LoadGlobal, Lookup, Read, history
      <4> QED BY <4>1, LateAlone DEF InGlobal, InUser, Result
    <3>3. CASE StoreLimit(r) \/ StoreResetAfter(r) \/ SleepGlobal(r) \/ ClearLimit(r)
               \/ ClearResetAfter(r) \/ StoreEntry(r) \/ SleepEntry(r) \/ EraseEntry(r)
      <4>1. /\ UNCHANGED <<late, stop>>
            /\ \E here, there \in {"after", "nap", "unlimit", "zero", "top", "limit", "entry", "sleep", "erase"} :
                   Goto(r, here, there)
        BY <3>3 DEF StoreLimit, StoreResetAfter, SleepGlobal, ClearLimit, ClearResetAfter,
                   StoreEntry, SleepEntry, EraseEntry, history
      <4> QED BY <4>1, LateAlone DEF InGlobal, InUser
    <3> QED BY <2>3, <3>1, <3>2, <3>3 DEF Step
  <2> QED BY <2>1, <2>2, <2>3 DEF Next
<1>3. StopInv => StopCutsRetries
  <2> SUFFICES ASSUME StopInv, NEW r \in Requests PROVE late[r] <= 1
    BY DEF StopCutsRetries
  <2>1. late[r] = 0 \/ late[r] = 1
    BY DEF StopInv
  <2> QED BY <2>1
<1> QED BY <1>1, <1>2, <1>3, RestTypeOK, PTL DEF Spec

-----------------------------------------------------------------------------
(* Owners of limits *)

\* Between the store and the erasure of the limit, of its length, of an entry.
LimitStored == {"after", "nap", "unlimit"}
LengthStored == {"nap", "unlimit", "zero"}
EntryStored == {"sleep", "erase"}

OwnerInv ==
  /\ globalLimit => \E r \in Requests : pc[r] \in LimitStored
  /\ globalResetAfter => \E r \in Requests : pc[r] \in LengthStored
  /\ \A e \in Endpoints :
       /\ table[e] = "set" => \E r \in Requests : Target[r] = e /\ pc[r] \in EntryStored
       /\ table[e] = "zero" => e \in remade

\* An owner is one after a step that does not leave its window.
LEMMA OwnerStays ==
  ASSUME TypeOK, NEW r \in Requests, NEW here, NEW there, Goto(r, here, there),
         NEW Window, here \in Window => there \in Window,
         NEW Some \in SUBSET Requests, \E q \in Some : pc[q] \in Window
  PROVE  \E q \in Some : pc'[q] \in Window
BY DEF TypeOK, Goto

\* A step that does not store and leaves no window.
LEMMA OwnersStay ==
  ASSUME TypeOK, OwnerInv, NEW r \in Requests, NEW here, NEW there, Goto(r, here, there),
         here \in LimitStored => there \in LimitStored,
         here \in LengthStored => there \in LengthStored,
         here \in EntryStored => there \in EntryStored,
         UNCHANGED <<globalLimit, globalResetAfter, table, remade>>
  PROVE  OwnerInv'
<1>1. globalLimit' => \E q \in Requests : pc'[q] \in LimitStored
  BY OwnerStays DEF OwnerInv
<1>2. globalResetAfter' => \E q \in Requests : pc'[q] \in LengthStored
  BY OwnerStays DEF OwnerInv
<1>3. ASSUME NEW e \in Endpoints, table'[e] = "set"
      PROVE  \E q \in Requests : Target[q] = e /\ pc'[q] \in EntryStored
  <2> DEFINE Some == {q \in Requests : Target[q] = e}
  <2>1. \E q \in Some : pc[q] \in EntryStored
    BY <1>3 DEF OwnerInv
  <2>2. \E q \in Some : pc'[q] \in EntryStored
    <3> HIDE DEF Some
    <3>1. Some \in SUBSET Requests
      BY DEF Some
    <3> QED BY <2>1, <3>1, OwnerStays
  <2> QED BY <2>2
<1>4. \A e \in Endpoints : table'[e] = "zero" => e \in remade'
  BY DEF OwnerInv
<1> QED BY <1>1, <1>2, <1>3, <1>4 DEF OwnerInv

\* The steps on the global limit.
LEMMA GlobalOwners ==
  ASSUME TypeOK, OwnerInv, NEW r \in Requests,
         StoreLimit(r) \/ StoreResetAfter(r) \/ ClearLimit(r) \/ ClearResetAfter(r)
  PROVE  OwnerInv'
<1> USE DEF LimitStored, LengthStored, EntryStored
<1>1. PICK here, there : Goto(r, here, there) /\ here \notin EntryStored
  BY DEF StoreLimit, StoreResetAfter, ClearLimit, ClearResetAfter
<1>2. UNCHANGED <<table, remade>>
  BY DEF StoreLimit, StoreResetAfter, ClearLimit, ClearResetAfter, history
<1>3. pc \in [Requests -> Place]
  BY DEF TypeOK
<1>4. \A q \in Requests \ {r} : pc'[q] = pc[q]
  BY <1>1, <1>3 DEF Goto
<1>5. \A e \in Endpoints :
        /\ table'[e] = "set" => \E q \in Requests : Target[q] = e /\ pc'[q] \in EntryStored
        /\ table'[e] = "zero" => e \in remade'
  <2>1. pc[r] \notin EntryStored
    BY <1>1 DEF Goto
  <2> QED BY <1>2, <1>4, <2>1 DEF OwnerInv
<1>6. globalLimit' => \E q \in Requests : pc'[q] \in LimitStored
  <2>1. CASE StoreLimit(r) \/ StoreResetAfter(r)
    <3>1. pc'[r] \in LimitStored
      BY <2>1, <1>3 DEF StoreLimit, StoreResetAfter, Goto
    <3> QED BY <3>1
  <2>2. CASE ClearLimit(r)
    BY <2>2 DEF ClearLimit
  <2>3. CASE ClearResetAfter(r)
    <3>1. pc[r] \notin LimitStored /\ globalLimit' = globalLimit
      BY <2>3 DEF ClearResetAfter, Goto
    <3> QED BY <3>1, <1>4 DEF OwnerInv
  <2> QED BY <2>1, <2>2, <2>3
<1>7. globalResetAfter' => \E q \in Requests : pc'[q] \in LengthStored
  <2>1. CASE StoreResetAfter(r) \/ ClearLimit(r)
    <3>1. pc'[r] \in LengthStored
      BY <2>1, <1>3 DEF StoreResetAfter, ClearLimit, Goto
    <3> QED BY <3>1
  <2>2. CASE ClearResetAfter(r)
    BY <2>2 DEF ClearResetAfter
  <2>3. CASE StoreLimit(r)
    <3>1. pc[r] \notin LengthStored /\ globalResetAfter' = globalResetAfter
      BY <2>3 DEF StoreLimit, Goto
    <3> QED BY <3>1, <1>4 DEF OwnerInv
  <2> QED BY <2>1, <2>2, <2>3
<1> QED BY <1>5, <1>6, <1>7 DEF OwnerInv

\* The steps on the table.
LEMMA EntryOwners ==
  ASSUME TypeOK, OwnerInv, NEW r \in Requests,
         Read(r) \/ StoreEntry(r) \/ SleepEntry(r) \/ EraseEntry(r)
  PROVE  OwnerInv'
<1> USE DEF LimitStored, LengthStored, EntryStored
<1>1. PICK here, there : /\ Goto(r, here, there) /\ here \notin LimitStored \cup LengthStored
                         /\ UNCHANGED <<globalLimit, globalResetAfter>>
  BY DEF Read, StoreEntry, SleepEntry, EraseEntry, limit
<1>2. pc \in [Requests -> Place] /\ table \in [Endpoints -> {"none", "zero", "set"}]
  BY DEF TypeOK
<1>3. \A q \in Requests \ {r} : pc'[q] = pc[q]
  BY <1>1, <1>2 DEF Goto
<1>4. /\ globalLimit' => \E q \in Requests : pc'[q] \in LimitStored
      /\ globalResetAfter' => \E q \in Requests : pc'[q] \in LengthStored
  <2>1. pc[r] \notin LimitStored \cup LengthStored
    BY <1>1 DEF Goto
  <2> QED BY <1>1, <1>3, <2>1 DEF OwnerInv
<1>5. ASSUME NEW e \in Endpoints
      PROVE  /\ table'[e] = "set" => \E q \in Requests : Target[q] = e /\ pc'[q] \in EntryStored
             /\ table'[e] = "zero" => e \in remade'
  <2>1. CASE Read(r) \/ SleepEntry(r)
    <3>1. /\ table'[e] = "set" => table[e] = "set"
          /\ table'[e] = "zero" => e \in remade'
      BY <2>1, <1>2 DEF Read, SleepEntry, ReadEntry, OwnerInv
    <3>2. pc[r] \in EntryStored => pc'[r] \in EntryStored
      BY <2>1, <1>2 DEF Read, SleepEntry, Goto
    <3> QED BY <3>1, <3>2, <1>3 DEF OwnerInv
  <2>2. CASE StoreEntry(r)
    <3>1. pc'[r] \in EntryStored /\ pc[r] \notin EntryStored /\ remade' = remade
      BY <2>2, <1>2 DEF StoreEntry, Goto
    <3>2. CASE e = Target[r]
      BY <2>2, <3>1, <3>2, <1>2 DEF StoreEntry
    <3>3. CASE e # Target[r]
      BY <2>2, <3>1, <3>3, <1>2, <1>3 DEF StoreEntry, OwnerInv
    <3> QED BY <3>2, <3>3
  <2>3. CASE EraseEntry(r)
    <3>1. remade' = remade
      BY <2>3 DEF EraseEntry, history
    <3>2. CASE e = Target[r]
      BY <2>3, <3>2, <1>2 DEF EraseEntry
    <3>3. CASE e # Target[r]
      BY <2>3, <3>1, <3>3, <1>2, <1>3 DEF EraseEntry, OwnerInv
    <3> QED BY <3>2, <3>3
  <2> QED BY <2>1, <2>2, <2>3
<1> QED BY <1>4, <1>5 DEF OwnerInv

\* Every step keeps the owners.
LEMMA OwnerStep ==
  ASSUME TypeOK, OwnerInv, [Next]_vars
  PROVE  OwnerInv'
<1>1. CASE Stop \/ UNCHANGED vars
  BY <1>1 DEF Stop, vars, limit, history, OwnerInv
<1>2. ASSUME NEW r \in Requests, Start(r) \/ Step(r)
      PROVE  OwnerInv'
  <2>1. CASE Start(r) \/ Top(r) \/ CheckGlobal(r) \/ LoadGlobal(r) \/ Lookup(r)
             \/ Answered(r) \/ IOError(r) \/ RateLimited(r) \/ SleepGlobal(r)
    <3>1. /\ UNCHANGED <<globalLimit, globalResetAfter, table, remade>>
          /\ \E here, there :
               /\ Goto(r, here, there)
               /\ here \in LimitStored => there \in LimitStored
               /\ here \in LengthStored => there \in LengthStored
               /\ here \in EntryStored => there \in EntryStored
      BY <2>1 DEF Start, Top, CheckGlobal, LoadGlobal, Lookup, Answered, IOError, RateLimited,
                 SleepGlobal, limit, history, LimitStored, LengthStored, EntryStored
    <3> QED BY <3>1, OwnersStay
  <2> QED BY <1>2, <2>1, GlobalOwners, EntryOwners DEF Step
<1> QED BY <1>1, <1>2 DEF Next

\* No limit outlives the window of the requests that stored it.
THEOREM RestLimitsHaveOwners == Spec => []LimitsHaveOwners
<1>1. Init => OwnerInv
  BY DEF Init, OwnerInv
<1>2. TypeOK /\ OwnerInv /\ [Next]_vars => OwnerInv'
  BY OwnerStep
<1>3. TypeOK /\ OwnerInv => LimitsHaveOwners
  BY DEF TypeOK, OwnerInv, LimitsHaveOwners, LimitHasAnOwner, EntryHasAnOwner, InGlobal, InUser,
         LimitStored, LengthStored, EntryStored
<1> QED BY <1>1, <1>2, <1>3, RestTypeOK, PTL DEF Spec

-----------------------------------------------------------------------------
(* Waiting for limits *)

\* From the store of the limit to the end of its window.
GlobalHeld == LimitStored \cup LengthStored

\* Unless the two atomics were torn, one request at most is in the window of
\* the global limit, its length is there to be slept, and whoever knows of the
\* limit still has to sleep.  So it is with the entries of the table.
WaitInv ==
  /\ ~torn =>
       /\ \A q, r \in Requests : pc[q] \in GlobalHeld /\ pc[r] \in GlobalHeld => q = r
       /\ \A r \in Requests : pc[r] \in {"nap", "unlimit"} => globalResetAfter
       /\ \A r \in Requests :
            "global" \in told[r] => pc[r] \in {"load", "limit", "after", "nap"}
  /\ \A r \in Requests : Target[r] \notin crowded =>
       /\ \A q \in Requests : Target[q] = Target[r] /\ {pc[q], pc[r]} \subseteq EntryStored => q = r
       /\ pc[r] \in EntryStored => table[Target[r]] = "set"
       /\ "user" \in told[r] => pc[r] \in {"entry", "sleep"}

\* The steps that are about no limit.
LEMMA QuietWaits ==
  ASSUME TypeOK, WaitInv, NEW r \in Requests,
         Start(r) \/ Top(r) \/ Lookup(r) \/ Answered(r) \/ IOError(r)
  PROVE  WaitInv'
<1>1. /\ UNCHANGED <<globalLimit, globalResetAfter, table, told, torn, crowded>>
      /\ \E here \in {"idle", "top", "lookup", "perform"},
            there \in {"top", "INTERRUPT", "global", "perform", "read", "response", "IOERR"} :
           Goto(r, here, there)
  BY DEF Start, Top, Lookup, Answered, IOError, limit, history
<1> QED BY <1>1 DEF TypeOK, WaitInv, Goto, GlobalHeld, LimitStored, LengthStored, EntryStored

\* Reading the global limit, and being told of one.
LEMMA TellWaits ==
  ASSUME TypeOK, WaitInv, OwnerInv, NEW r \in Requests,
         CheckGlobal(r) \/ LoadGlobal(r) \/ RateLimited(r) \/ SleepGlobal(r)
  PROVE  WaitInv'
<1> USE DEF TypeOK, Goto, GlobalHeld, LimitStored, LengthStored, EntryStored
<1>1. CASE CheckGlobal(r)
  BY <1>1 DEF CheckGlobal, WaitInv, limit
<1>2. CASE LoadGlobal(r)
  <2>1. /\ UNCHANGED <<globalLimit, globalResetAfter, table, crowded>>
        /\ Goto(r, "load", "lookup")
        /\ torn => torn'
    BY <1>2 DEF LoadGlobal, limit
  <2>2. ~torn' => told' = [told EXCEPT ![r] = @ \ {"global"}]
    BY <1>2 DEF LoadGlobal, WaitInv, OwnerInv
  <2>3. \A q \in Requests : told'[q] \subseteq told[q] /\ (q # r => told'[q] = told[q])
    BY <1>2 DEF LoadGlobal
  <2> QED BY <2>1, <2>2, <2>3 DEF WaitInv
<1>3. CASE RateLimited(r)
  BY <1>3 DEF RateLimited, WaitInv, limit
<1>4. CASE SleepGlobal(r)
  BY <1>4 DEF SleepGlobal, WaitInv, limit
<1> QED BY <1>1, <1>2, <1>3, <1>4

\* Storing and clearing the global limit.
LEMMA GlobalWaits ==
  ASSUME TypeOK, WaitInv, NEW r \in Requests,
         StoreLimit(r) \/ StoreResetAfter(r) \/ ClearLimit(r) \/ ClearResetAfter(r)
  PROVE  WaitInv'
<1> USE DEF TypeOK, Goto, GlobalHeld, LimitStored, LengthStored, EntryStored
<1>1. CASE StoreLimit(r)
  <2>1. /\ UNCHANGED <<globalResetAfter, table, told, crowded>>
        /\ pc[r] = "limit" /\ pc' = [pc EXCEPT ![r] = "after"]
        /\ torn => torn'
    BY <1>1 DEF StoreLimit
  <2>2. ~torn' => \A q \in Requests \ {r} : pc[q] \notin GlobalHeld
    BY <1>1 DEF StoreLimit, InGlobal
  <2>3. ~torn' => \A q, p \in Requests : pc'[q] \in GlobalHeld /\ pc'[p] \in GlobalHeld => q = p
    BY <2>1, <2>2
  <2> QED BY <2>1, <2>3 DEF WaitInv
<1>2. CASE StoreResetAfter(r)
  BY <1>2 DEF StoreResetAfter, WaitInv, history
<1>3. CASE ClearLimit(r)
  BY <1>3 DEF ClearLimit, WaitInv, history
<1>4. CASE ClearResetAfter(r)
  BY <1>4 DEF ClearResetAfter, WaitInv, history
<1> QED BY <1>1, <1>2, <1>3, <1>4

\* Reading, storing and erasing an entry.
LEMMA EntryWaits ==
  ASSUME TypeOK, WaitInv, NEW r \in Requests,
         Read(r) \/ StoreEntry(r) \/ SleepEntry(r) \/ EraseEntry(r)
  PROVE  WaitInv'
<1> USE RestAssumption DEF TypeOK, Goto, GlobalHeld, LimitStored, LengthStored, EntryStored
<1>1. CASE Read(r)
  BY <1>1 DEF Read, ReadEntry, WaitInv, limit
<1>2. CASE SleepEntry(r)
  BY <1>2 DEF SleepEntry, ReadEntry, WaitInv, limit
<1>3. CASE StoreEntry(r)
  BY <1>3 DEF StoreEntry, WaitInv, InUser, Others, limit
<1>4. CASE EraseEntry(r)
  BY <1>4 DEF EraseEntry, WaitInv, history, limit
<1> QED BY <1>1, <1>2, <1>3, <1>4

\* Nobody sends who knows of a limit and has not waited for it.
THEOREM RestLimitIsWaitedOut == Spec => []LimitIsWaitedOut
<1>1. Init => OwnerInv /\ WaitInv
  BY DEF Init, OwnerInv, WaitInv, GlobalHeld, LimitStored, LengthStored, EntryStored
<1>2. TypeOK /\ OwnerInv /\ WaitInv /\ [Next]_vars => (OwnerInv /\ WaitInv)'
  <2> SUFFICES ASSUME TypeOK, OwnerInv, WaitInv, [Next]_vars PROVE WaitInv'
    BY OwnerStep
  <2>1. CASE Stop \/ UNCHANGED vars
    BY <2>1 DEF Stop, vars, limit, history, WaitInv
  <2>2. ASSUME NEW r \in Requests, Start(r) \/ Step(r)
        PROVE  WaitInv'
    BY <2>2, QuietWaits, TellWaits, GlobalWaits, EntryWaits DEF Step
  <2> QED BY <2>1, <2>2 DEF Next
<1>3. WaitInv => LimitIsWaitedOut
  BY DEF WaitInv, LimitIsWaitedOut
<1> QED BY <1>1, <1>2, <1>3, RestTypeOK, PTL DEF Spec
=============================================================================
