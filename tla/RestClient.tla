----------------------------- MODULE RestClient -----------------------------
(***************************************************************************)
(* Requests to the REST API, RestClient::sendRawData                       *)
(* (src/src/restclient.cpp), issued by several threads at once: the loop   *)
(* with its I/O retries and rate limits, the two atomics of the global     *)
(* limit and the table of user limits, which is written under rltmtx and   *)
(* read without it.  An access of the table is one step.                   *)
(*                                                                         *)
(* Durations are kept only as far as they can be zero: a table entry is    *)
(* "set" by a response or "zero" when operator[] made it.  A sleep ends    *)
(* when the thread takes its next step.  meowHttp::Https and the server    *)
(* are the outcomes of Perform.                                            *)
(***************************************************************************)
EXTENDS Integers

CONSTANTS
  Requests,     \* the calls of sendRawData, each in a thread of its own
  Endpoints,
  Target,       \* the endpoint of a request
  RetryAmount,  \* NyaBot::retryAmount
  MaxLimits     \* bound: responses with status 429

ASSUME RestAssumption ==
  /\ Target \in [Requests -> Endpoints]
  /\ RetryAmount \in Nat /\ MaxLimits \in Nat

VARIABLES
  pc,                \* per request, where it is or how it returned
  retryCount,        \* per request
  timeToWait,        \* per request, seconds
  globalLimit,       \* rtl.globalLimit
  globalResetAfter,  \* whether rtl.globalResetAfter is more than 0
  table,             \* rtl.userRateLimitTable
  stop,              \* bot->stop
  limits,            \* 429 responses so far
  \* history, read by no guard
  failures,          \* per request, I/O errors
  late,              \* per request, times performed after stop
  told,              \* per request, the limits it knows of and has not waited for
  torn,              \* the global limit was written by two, or read half written
  crowded,           \* endpoints whose entry was written by two
  remade             \* endpoints whose entry was read when it was gone

counters == <<retryCount, timeToWait>>
limit    == <<globalLimit, globalResetAfter>>
history  == <<failures, late, told, torn, crowded, remade>>
vars     == <<pc, counters, limit, table, stop, limits, history>>

Result == {"response", "IOERR", "INTERRUPT"}

\* The window of a global or a user limit, from the 429 to the end of its sleep.
InGlobal == {"limit", "after", "nap", "unlimit", "zero"}
InUser   == {"entry", "sleep", "erase"}

Init ==
  /\ pc = [r \in Requests |-> "idle"]
  /\ retryCount = [r \in Requests |-> 0]
  /\ timeToWait = [r \in Requests |-> 5]
  /\ globalLimit = FALSE /\ globalResetAfter = FALSE
  /\ table = [e \in Endpoints |-> "none"]
  /\ stop = FALSE /\ limits = 0
  /\ failures = [r \in Requests |-> 0] /\ late = [r \in Requests |-> 0]
  /\ told = [r \in Requests |-> {}] /\ torn = FALSE /\ crowded = {} /\ remade = {}

Goto(r, here, there) == pc[r] = here /\ pc' = [pc EXCEPT ![r] = there]

Start(r) ==
  /\ Goto(r, "idle", "top")
  /\ UNCHANGED <<counters, limit, table, stop, limits, history>>

\* Mutant: the loop does not look at stop.
TopForever(r) ==
  /\ Goto(r, "top", "global")
  /\ UNCHANGED <<counters, limit, table, stop, limits, history>>

\* while(!bot->stop)
Top(r) ==
  /\ Goto(r, "top", IF stop THEN "INTERRUPT" ELSE "global")
  /\ UNCHANGED <<counters, limit, table, stop, limits, history>>

\* The global limit is read, and if there is one its length, which is slept.
CheckGlobal(r) ==
  /\ Goto(r, "global", IF globalLimit THEN "load" ELSE "lookup")
  /\ told' = [told EXCEPT ![r] = IF globalLimit THEN @ \cup {"global"} ELSE @]
  /\ UNCHANGED <<counters, limit, table, stop, limits, failures, late, torn, crowded, remade>>

LoadGlobal(r) ==
  /\ Goto(r, "load", "lookup")
  /\ told' = [told EXCEPT ![r] = IF globalLimit /\ ~globalResetAfter THEN @ ELSE @ \ {"global"}]
  /\ torn' = (torn \/ \E q \in Requests : pc[q] = "after")
  /\ UNCHANGED <<counters, limit, table, stop, limits, failures, late, crowded, remade>>

\* The table is asked for the endpoint and then read with operator[], which
\* makes an entry if the endpoint left it in between.
Lookup(r) ==
  /\ Goto(r, "lookup", IF table[Target[r]] = "none" THEN "perform" ELSE "read")
  /\ UNCHANGED <<counters, limit, table, stop, limits, history>>

\* operator[] without the lock; its length is slept.
ReadEntry(r) ==
  LET e == Target[r] IN
  /\ table' = [table EXCEPT ![e] = IF @ = "none" THEN "zero" ELSE @]
  /\ remade' = IF table[e] = "none" THEN remade \cup {e} ELSE remade
  /\ told' = [told EXCEPT ![r] = IF table[e] = "set" THEN @ \ {"user"} ELSE @]

Read(r) ==
  /\ Goto(r, "read", "perform")
  /\ ReadEntry(r)
  /\ UNCHANGED <<counters, limit, stop, limits, failures, late, torn, crowded>>

-----------------------------------------------------------------------------
(* perform() and its outcomes *)

Sent(r) == late' = IF stop THEN [late EXCEPT ![r] = @ + 1] ELSE late

Answered(r) ==
  /\ Goto(r, "perform", "response") /\ Sent(r)
  /\ UNCHANGED <<counters, limit, table, stop, limits, failures, told, torn, crowded, remade>>

\* Mutant: the retry is not counted.
IOErrorUncounted(r) ==
  /\ Goto(r, "perform", IF retryCount[r] > RetryAmount THEN "IOERR" ELSE "top")
  /\ Sent(r) /\ failures' = failures
  /\ UNCHANGED <<counters, limit, table, stop, limits, told, torn, crowded, remade>>

\* Mutant: off by one in the retry limit.
IOErrorOnceMore(r) ==
  /\ Goto(r, "perform", IF retryCount[r] > RetryAmount + 1 THEN "IOERR" ELSE "top")
  /\ Sent(r) /\ failures' = [failures EXCEPT ![r] = @ + 1]
  /\ retryCount' = [retryCount EXCEPT ![r] = @ + 1]
  /\ UNCHANGED <<timeToWait, limit, table, stop, limits, told, torn, crowded, remade>>

\* Mutant: the wait is doubled without the cap.
IOErrorUncapped(r) ==
  /\ Goto(r, "perform", IF retryCount[r] > RetryAmount THEN "IOERR" ELSE "top")
  /\ Sent(r) /\ failures' = [failures EXCEPT ![r] = @ + 1]
  /\ retryCount' = [retryCount EXCEPT ![r] = @ + 1]
  /\ timeToWait' = [timeToWait EXCEPT ![r] = 2 * @]
  /\ UNCHANGED <<limit, table, stop, limits, told, torn, crowded, remade>>

\* An I/O error gives up or waits, doubling the wait up to its cap.
IOError(r) ==
  /\ Sent(r) /\ failures' = [failures EXCEPT ![r] = @ + 1]
  /\ IF retryCount[r] > RetryAmount
     THEN Goto(r, "perform", "IOERR") /\ UNCHANGED counters
     ELSE /\ Goto(r, "perform", "top")
          /\ retryCount' = [retryCount EXCEPT ![r] = @ + 1]
          /\ timeToWait' = [timeToWait EXCEPT ![r] = 2 * (IF @ > 300 THEN 300 ELSE @)]
  /\ UNCHANGED <<limit, table, stop, limits, told, torn, crowded, remade>>

\* Status 429: global, of the user, or of a bucket, which is slept off here.
RateLimited(r) ==
  /\ limits < MaxLimits /\ limits' = limits + 1
  /\ \/ Goto(r, "perform", "limit") /\ told' = [told EXCEPT ![r] = @ \cup {"global"}]
     \/ Goto(r, "perform", "entry") /\ told' = [told EXCEPT ![r] = @ \cup {"user"}]
     \/ Goto(r, "perform", "top") /\ UNCHANGED told
  /\ Sent(r)
  /\ UNCHANGED <<counters, limit, table, stop, failures, torn, crowded, remade>>

-----------------------------------------------------------------------------
(* The global limit: two atomics, stored one after the other, and back *)

StoreLimit(r) ==
  /\ Goto(r, "limit", "after") /\ globalLimit' = TRUE
  /\ torn' = (torn \/ \E q \in Requests \ {r} : pc[q] \in InGlobal)
  /\ UNCHANGED <<counters, globalResetAfter, table, stop, limits, failures,
                 late, told, crowded, remade>>

StoreResetAfter(r) ==
  /\ Goto(r, "after", "nap") /\ globalResetAfter' = TRUE
  /\ UNCHANGED <<counters, globalLimit, table, stop, limits, history>>

\* The length is read back and slept.
SleepGlobal(r) ==
  /\ Goto(r, "nap", "unlimit")
  /\ told' = [told EXCEPT ![r] = IF globalResetAfter THEN @ \ {"global"} ELSE @]
  /\ UNCHANGED <<counters, limit, table, stop, limits, failures, late, torn, crowded, remade>>

\* Mutant: the length is cleared before the limit.
ClearLengthFirst(r) ==
  /\ Goto(r, "unlimit", "zero") /\ globalResetAfter' = FALSE
  /\ UNCHANGED <<counters, globalLimit, table, stop, limits, history>>

ClearLimit(r) ==
  /\ Goto(r, "unlimit", "zero") /\ globalLimit' = FALSE
  /\ UNCHANGED <<counters, globalResetAfter, table, stop, limits, history>>

ClearResetAfter(r) ==
  /\ Goto(r, "zero", "top") /\ globalResetAfter' = FALSE
  /\ UNCHANGED <<counters, globalLimit, table, stop, limits, history>>

-----------------------------------------------------------------------------
(* A user limit: an entry of the table, while the request sleeps *)

Others(r) == {q \in Requests \ {r} : Target[q] = Target[r]}

StoreEntry(r) ==
  /\ Goto(r, "entry", "sleep")
  /\ table' = [table EXCEPT ![Target[r]] = "set"]
  /\ crowded' = IF \E q \in Others(r) : pc[q] \in InUser
                THEN crowded \cup {Target[r]} ELSE crowded
  /\ UNCHANGED <<counters, limit, stop, limits, failures, late, told, torn, remade>>

\* The length of the sleep is read from the table again, unlocked.
SleepEntry(r) ==
  /\ Goto(r, "sleep", "erase")
  /\ ReadEntry(r)
  /\ UNCHANGED <<counters, limit, stop, limits, failures, late, torn, crowded>>

\* Mutant: the entry is left for its next reader.
KeepEntry(r) ==
  /\ Goto(r, "erase", "top")
  /\ UNCHANGED <<counters, limit, table, stop, limits, history>>

EraseEntry(r) ==
  /\ Goto(r, "erase", "top")
  /\ table' = [table EXCEPT ![Target[r]] = "none"]
  /\ UNCHANGED <<counters, limit, stop, limits, history>>

-----------------------------------------------------------------------------
Stop ==
  /\ ~stop /\ stop' = TRUE
  /\ UNCHANGED <<pc, counters, limit, table, limits, history>>

Step(r) ==
  \/ Top(r) \/ CheckGlobal(r) \/ LoadGlobal(r) \/ Lookup(r) \/ Read(r)
  \/ Answered(r) \/ IOError(r) \/ RateLimited(r)
  \/ StoreLimit(r) \/ StoreResetAfter(r) \/ SleepGlobal(r)
  \/ ClearLimit(r) \/ ClearResetAfter(r)
  \/ StoreEntry(r) \/ SleepEntry(r) \/ EraseEntry(r)

Next == Stop \/ \E r \in Requests : Start(r) \/ Step(r)

Spec == Init /\ [][Next]_vars

\* A request's thread is scheduled, its sleeps and perform() come to an end.
FairSpec == Spec /\ \A r \in Requests : WF_vars(Step(r))

-----------------------------------------------------------------------------
Place == {"idle", "top", "global", "load", "lookup", "read", "perform"}
           \cup InGlobal \cup InUser \cup Result

\* Every variable has its type; the wait never passes twice its cap of 300.
TypeOK ==
  /\ pc \in [Requests -> Place]
  /\ retryCount \in [Requests -> 0..(RetryAmount + 1)]
  /\ timeToWait \in [Requests -> 0..600]
  /\ globalLimit \in BOOLEAN /\ globalResetAfter \in BOOLEAN
  /\ table \in [Endpoints -> {"none", "zero", "set"}]
  /\ stop \in BOOLEAN /\ limits \in 0..MaxLimits
  /\ failures \in [Requests -> Nat] /\ late \in [Requests -> Nat]
  /\ told \in [Requests -> SUBSET {"global", "user"}] /\ torn \in BOOLEAN
  /\ crowded \subseteq Endpoints /\ remade \subseteq Endpoints

LimitHasAnOwner ==
  globalLimit \/ globalResetAfter => \E r \in Requests : pc[r] \in InGlobal

EntryHasAnOwner ==
  \A e \in Endpoints :
    table[e] = "set" \/ (table[e] = "zero" /\ e \notin remade) =>
      \E r \in Requests : Target[r] = e /\ pc[r] \in InUser

\* A global limit, or its length, is only kept while some request is in its
\* window, and so is an entry of the table that a response set; one made by
\* operator[] is left behind only where two requests met.  Whatever the
\* interleaving, no limit stays to slow down every later request.
LimitsHaveOwners == LimitHasAnOwner /\ EntryHasAnOwner

\* A request that knows of a global limit, its own or another's, does not send
\* before it has waited, unless the two atomics were written by two at once or
\* read half written; nor does one that was told of a user limit, unless another
\* was told of one at the same endpoint.
LimitIsWaitedOut ==
  \A r \in Requests :
    pc[r] = "perform" => /\ "global" \in told[r] => torn
                         /\ "user" \in told[r] => Target[r] \in crowded

\* IOERR is returned after exactly RetryAmount + 1 retries, and never before:
\* one more than "the amount of times to retry a failed request"
\* (src/include/nyaBot.h), since the counter is tested before it is increased.
IOErrAfterRetries ==
  \A r \in Requests : /\ failures[r] <= RetryAmount + 2
                      /\ pc[r] = "IOERR" <=> failures[r] = RetryAmount + 2

\* Stopping the bot cuts retries and limits short: a request is sent at most
\* once more.
StopCutsRetries == \A r \in Requests : late[r] <= 1

\* Every request returns, if the server limits it finitely often.
RequestsReturn == \A r \in Requests : pc[r] = "top" ~> pc[r] \in Result
=============================================================================
