------------------------------- MODULE Shard -------------------------------
(***************************************************************************)
(* One gateway shard of the bot: the session state the Shard object keeps  *)
(* (src/include/shard.h), the listen thread that owns the websocket        *)
(* (src/src/recv.cpp, src/src/shard.cpp) and the detached threads that run *)
(* the READY dispatch (src/src/dispatchHandlers/state.cpp).  The gateway   *)
(* server and the network are the environment: they are not in the         *)
(* repository and are modelled from how the shard uses them.               *)
(*                                                                         *)
(* Data kept: a session is a number, a dispatch is its session and its     *)
(* sequence number, a close frame its code.  The resume URL is whether one *)
(* was stored.  The two clocks of the listen loop (heartbeat sent, ACK     *)
(* received) are choices: the 60 second limit may pass whenever the server *)
(* is silent or slow.  Heartbeats carry nothing the properties look at.    *)
(***************************************************************************)
EXTENDS Integers, Sequences

CONSTANTS
  RetryAmount,   \* NyaBot::retryAmount, connection attempts
  CloseCodes,    \* close codes the server may send
  MaxSeq,        \* bound: events of a session stop at this sequence number
  MaxFaults      \* bound: faults of network and server in a behaviour

ASSUME ShardAssumption ==
  /\ RetryAmount \in Nat
  /\ MaxSeq \in Nat
  /\ MaxFaults \in Nat
  /\ CloseCodes \subseteq Nat

NoSession == 0
Session   == 1..(MaxFaults + 1)   \* every session after the first takes a fault

\* enum class GatewayStates
GatewayStates == {"UNAUTHENTICATED", "AUTHENTICATION_SENT", "RESUME_SENT", "READY"}

\* the switch over the code of a CLOSE frame
ResumeCodes   == {4000, 4001, 4002, 4003, 4005, 4008, 4009}
IdentifyCodes == {1000, 1001, 4007, 1005, 1006, 1011}

VARIABLES
  state,      \* api.state
  sequence,   \* api.sequence
  sesId,      \* api.sesId
  resumeUrl,  \* whether api.resumeUrl holds a URL
  stop,       \* bot->stop
  pc,         \* where the thread running the shard is
  call,       \* who called connect: constructor, try block or catch block
  resuming,   \* argument of reconnect in progress
  url,        \* whether the handle was given a URL it can connect to
  attempts,   \* attempts of connect() so far
  handler,    \* per session, the detached thread running NyaBot::ready
  link,       \* the connection as the network sees it
  inbox,      \* frames sent by the server and not received yet
  peer,       \* the server's side of the connection
  peerSes,    \* session attached to the connection
  ask,        \* the Resume payload the server received
  srvSeq,     \* last sequence number the server gave out, per session
  resumable,  \* sessions the server would still resume
  faults,     \* faults so far
  \* history, read by no guard
  seqSes,     \* session of the dispatch that last set sequence
  delivered,  \* dispatches routed, per session
  accepted,   \* a READY or RESUMED was routed on this connection
  overtaken,  \* a reconnect began while a READY thread was still running
  crossed     \* a Resume named another session than its sequence's

session == <<sequence, sesId, resumeUrl, handler>>
caller  == <<call, resuming, url, attempts>>
wire    == <<link, inbox, peer, peerSes, ask>>
server  == <<srvSeq, resumable>>
history == <<seqSes, delivered, accepted, overtaken, crossed>>
vars    == <<state, stop, pc, faults, session, caller, wire, server, history>>

Fault == faults < MaxFaults /\ faults' = faults + 1

Running(s) == handler[s] \in {"session", "url", "state"}

-----------------------------------------------------------------------------
(* The shard *)

\* Constructed with the default URL, about to connect().
Init ==
  /\ state = "UNAUTHENTICATED" /\ sequence = 0 /\ sesId = NoSession
  /\ resumeUrl = FALSE /\ stop = FALSE
  /\ pc = "connect" /\ call = "ctor" /\ resuming = FALSE /\ url = TRUE
  /\ attempts = 0
  /\ handler = [s \in Session |-> "none"]
  /\ link = "down" /\ inbox = <<>> /\ peer = "gone" /\ peerSes = NoSession
  /\ ask = [ses |-> NoSession, seq |-> 0]
  /\ srvSeq = [s \in Session |-> 0] /\ resumable = {}
  /\ faults = 0
  /\ seqSes = NoSession /\ delivered = [s \in Session |-> 0]
  /\ accepted = FALSE /\ overtaken = FALSE /\ crossed = FALSE

\* Mutant: reconnect keeps the state of the old connection.
ReconnectKeepsState(resume, from) ==
  /\ link' = "down" /\ inbox' = <<>> /\ peer' = "gone" /\ peerSes' = NoSession
  /\ url' = (resume => resumeUrl)
  /\ resuming' = resume /\ call' = from /\ attempts' = 0 /\ pc' = "connect"
  /\ accepted' = FALSE
  /\ overtaken' = (overtaken \/ \E s \in Session : Running(s))
  /\ UNCHANGED <<state, stop, session, ask, server, seqSes, delivered, crossed>>

\* Mutant: without a resume URL the default one is taken, still resuming.
ReconnectAnywhere(resume, from) ==
  /\ state' = "UNAUTHENTICATED"
  /\ link' = "down" /\ inbox' = <<>> /\ peer' = "gone" /\ peerSes' = NoSession
  /\ url' = TRUE
  /\ resuming' = resume /\ call' = from /\ attempts' = 0 /\ pc' = "connect"
  /\ accepted' = FALSE
  /\ overtaken' = (overtaken \/ \E s \in Session : Running(s))
  /\ UNCHANGED <<stop, session, ask, server, seqSes, delivered, crossed>>

\* reconnect(resume) up to the call of connect(): forget the state, close
\* with 1012 (which keeps the session resumable) and choose the URL.
Reconnect(resume, from) ==
  /\ state' = "UNAUTHENTICATED"
  /\ link' = "down" /\ inbox' = <<>> /\ peer' = "gone" /\ peerSes' = NoSession
  /\ url' = (resume => resumeUrl)
  /\ resuming' = resume /\ call' = from /\ attempts' = 0 /\ pc' = "connect"
  /\ accepted' = FALSE
  /\ overtaken' = (overtaken \/ \E s \in Session : Running(s))
  /\ UNCHANGED <<stop, session, ask, server, seqSes, delivered, crossed>>

\* The catch of meowHttp::Exception: a closed connection is resumed, from
\* inside the catch block, anything else stops the bot.
Caught(closed) ==
  IF closed /\ ~stop
  THEN Reconnect(TRUE, "catch")
  ELSE /\ stop' = TRUE /\ pc' = "loop"
       /\ UNCHANGED <<state, session, caller, wire, server, history>>

\* connect(): one attempt; the sleep between attempts is not a step.
ConnectOk ==
  /\ pc = "connect" /\ attempts < RetryAmount /\ ~stop /\ url
  /\ link' = "open" /\ peer' = "wait" /\ pc' = "hello"
  /\ UNCHANGED <<state, stop, faults, session, caller, inbox, peerSes, ask,
                 server, history>>

\* Mutant: the attempts are counted down from zero.
ConnectFailsDown ==
  /\ pc = "connect" /\ attempts < RetryAmount /\ ~stop
  /\ IF url THEN Fault ELSE UNCHANGED faults
  /\ attempts' = attempts - 1
  /\ UNCHANGED <<state, stop, pc, session, call, resuming, url, wire, server,
                 history>>

ConnectFails ==
  /\ pc = "connect" /\ attempts < RetryAmount /\ ~stop
  /\ IF url THEN Fault ELSE UNCHANGED faults
  /\ attempts' = attempts + 1
  /\ UNCHANGED <<state, stop, pc, session, call, resuming, url, wire, server,
                 history>>

\* connect() returned an error: the constructor only logs and starts no
\* thread, reconnect stops the bot.
ConnectGivesUp ==
  /\ pc = "connect" /\ (attempts >= RetryAmount \/ stop)
  /\ IF call = "ctor" THEN pc' = "dead" /\ UNCHANGED stop
                      ELSE pc' = "loop" /\ stop' = TRUE
  /\ UNCHANGED <<state, faults, session, caller, wire, server, history>>

\* getHeartbeatInterval(): no HELLO stops the bot, yet the caller goes on.
HelloOk ==
  /\ pc = "hello" /\ link = "open" /\ ~stop
  /\ pc' = "auth"
  /\ UNCHANGED <<state, stop, faults, session, caller, wire, server, history>>

HelloFails ==
  /\ pc = "hello"
  /\ IF link # "open" \/ stop THEN UNCHANGED faults ELSE Fault
  /\ stop' = TRUE /\ pc' = "auth"
  /\ UNCHANGED <<state, session, caller, wire, server, history>>

\* sendIdent() or the Resume of reconnect(), wsSend returning more than 0.
AuthSent ==
  /\ pc = "auth" /\ link \in {"open", "silent"}
  /\ pc' = "loop"
  /\ state' = IF resuming THEN "RESUME_SENT" ELSE "AUTHENTICATION_SENT"
  /\ IF link = "open" /\ peer = "wait"
     THEN /\ peer' = IF resuming THEN "resume" ELSE "identify"
          /\ ask' = IF resuming THEN [ses |-> sesId, seq |-> sequence] ELSE ask
     ELSE UNCHANGED <<peer, ask>>
  /\ crossed' = (crossed \/ (resuming /\ sesId # seqSes))
  /\ UNCHANGED <<stop, faults, session, caller, link, inbox, peerSes, server,
                 seqSes, delivered, accepted, overtaken>>

\* wsSend returned 0 or less: the state stays, the connection is kept.
AuthDropped ==
  /\ pc = "auth" /\ link # "broken" /\ Fault
  /\ pc' = "loop"
  /\ UNCHANGED <<state, stop, session, caller, wire, server, history>>

\* wsSend threw.  Only the try block of the loop has a handler for it: from
\* the catch block the exception leaves the thread, from the constructor run().
AuthThrows ==
  /\ pc = "auth" /\ link = "broken"
  /\ IF call = "loop"
     THEN Caught(TRUE)
     ELSE /\ pc' = "crashed"
          /\ UNCHANGED <<state, stop, session, caller, wire, server, history>>
  /\ UNCHANGED faults

\* listen(): the loop condition and the ACK clock.
LoopExit ==
  /\ pc = "loop" /\ stop
  /\ pc' = "done"
  /\ UNCHANGED <<state, stop, faults, session, caller, wire, server, history>>

\* Mutant: the ACK clock is looked at only once the shard is READY.
AckTimeoutWhenReady ==
  /\ pc = "loop" /\ ~stop /\ state = "READY"
  /\ IF link = "silent" THEN UNCHANGED faults ELSE Fault
  /\ Reconnect(TRUE, "loop")

AckTimeout ==
  /\ pc = "loop" /\ ~stop
  /\ IF link = "silent" THEN UNCHANGED faults ELSE Fault
  /\ Reconnect(TRUE, "loop")

\* Mutant: the loop does not look at stop.
LoopTurnForever ==
  /\ pc = "loop"
  /\ pc' = "recv"
  /\ UNCHANGED <<state, stop, faults, session, caller, wire, server, history>>

LoopTurn ==
  /\ pc = "loop" /\ ~stop
  /\ pc' = "recv"
  /\ UNCHANGED <<state, stop, faults, session, caller, wire, server, history>>

\* wsRecv with nothing to read.
RecvNothing ==
  /\ pc = "recv" /\ inbox = <<>> /\ link # "broken"
  /\ pc' = "loop"
  /\ UNCHANGED <<state, stop, faults, session, caller, wire, server, history>>

\* A send or receive of the loop threw.
RecvThrows ==
  /\ pc = "recv" /\ link = "broken"
  /\ Caught(TRUE)
  /\ UNCHANGED faults

RecvFails ==
  /\ pc = "recv" /\ Fault
  /\ Caught(FALSE)

RecvClose ==
  /\ pc = "recv" /\ inbox # <<>> /\ Head(inbox).op = "Close"
  /\ LET code == Head(inbox).code IN
     IF stop
     THEN /\ pc' = "done"
          /\ UNCHANGED <<state, stop, session, caller, wire, server, history>>
     ELSE \/ code \in ResumeCodes   /\ Reconnect(TRUE, "loop")
          \/ code \in IdentifyCodes /\ Reconnect(FALSE, "loop")
          \/ /\ code \notin ResumeCodes \cup IdentifyCodes
             /\ stop' = TRUE /\ pc' = "loop" /\ inbox' = Tail(inbox)
             /\ UNCHANGED <<state, session, caller, link, peer, peerSes, ask,
                            server, history>>
  /\ UNCHANGED faults

RecvReconnect ==
  /\ pc = "recv" /\ inbox # <<>> /\ Head(inbox).op = "Reconnect"
  /\ Reconnect(TRUE, "loop")
  /\ UNCHANGED faults

RecvInvalidSession ==
  /\ pc = "recv" /\ inbox # <<>> /\ Head(inbox).op = "InvalidSession"
  /\ Reconnect(Head(inbox).d, "loop")
  /\ UNCHANGED faults

\* routeEvent: RESUMED makes the shard READY at once; every handler runs in a
\* detached thread, of which only READY's touches the shard.
RouteEvent(m) ==
  /\ state' = IF m.t = "RESUMED" THEN "READY" ELSE state
  /\ handler' = IF m.t = "READY" THEN [handler EXCEPT ![m.ses] = "session"]
                                 ELSE handler
  /\ delivered' = [delivered EXCEPT ![m.ses] = @ + 1]
  /\ accepted' = (accepted \/ m.t \in {"READY", "RESUMED"})

\* Mutant: the sequence number never goes down.
RecvDispatchMonotone ==
  /\ pc = "recv" /\ inbox # <<>> /\ Head(inbox).op = "Dispatch"
  /\ LET m == Head(inbox) IN
     /\ sequence' = IF m.s > sequence THEN m.s ELSE sequence
     /\ seqSes' = m.ses
     /\ RouteEvent(m)
  /\ inbox' = Tail(inbox) /\ pc' = "loop"
  /\ UNCHANGED <<stop, faults, sesId, resumeUrl, caller, link, peer, peerSes,
                 ask, server, overtaken, crossed>>

\* A Dispatch: record its sequence number, then routeEvent.
RecvDispatch ==
  /\ pc = "recv" /\ inbox # <<>> /\ Head(inbox).op = "Dispatch"
  /\ LET m == Head(inbox) IN
     /\ sequence' = m.s /\ seqSes' = m.ses
     /\ RouteEvent(m)
  /\ inbox' = Tail(inbox) /\ pc' = "loop"
  /\ UNCHANGED <<stop, faults, sesId, resumeUrl, caller, link, peer, peerSes,
                 ask, server, overtaken, crossed>>

\* Mutant: the first session id is kept.
StoreFirstSession(s) ==
  /\ handler[s] = "session"
  /\ sesId' = IF sesId = NoSession THEN s ELSE sesId
  /\ handler' = [handler EXCEPT ![s] = "url"]
  /\ UNCHANGED <<state, stop, pc, faults, sequence, resumeUrl, caller, wire,
                 server, history>>

\* NyaBot::ready, in its thread: the session id, the resume URL, and last the
\* state (the caches filled in between are not the shard's).
StoreSession(s) ==
  /\ handler[s] = "session"
  /\ sesId' = s
  /\ handler' = [handler EXCEPT ![s] = "url"]
  /\ UNCHANGED <<state, stop, pc, faults, sequence, resumeUrl, caller, wire,
                 server, history>>

StoreUrl(s) ==
  /\ handler[s] = "url"
  /\ resumeUrl' = TRUE
  /\ handler' = [handler EXCEPT ![s] = "state"]
  /\ UNCHANGED <<state, stop, pc, faults, sequence, sesId, caller, wire,
                 server, history>>

BecomeReady(s) ==
  /\ handler[s] = "state"
  /\ state' = "READY"
  /\ handler' = [handler EXCEPT ![s] = "done"]
  /\ UNCHANGED <<stop, pc, faults, sequence, sesId, resumeUrl, caller, wire,
                 server, history>>

\* NyaBot::close, the signal handler, another shard.
Stop ==
  /\ ~stop /\ stop' = TRUE
  /\ UNCHANGED <<state, pc, faults, session, caller, wire, server, history>>

-----------------------------------------------------------------------------
(* The gateway and the network *)

Dispatch(t, s, n) == [op |-> "Dispatch", t |-> t, ses |-> s, s |-> n]

Send(m) == inbox' = IF link = "open" THEN Append(inbox, m) ELSE inbox

\* Identify opens a new session, whose first dispatch is READY.
ServerIdentify ==
  /\ peer = "identify"
  /\ \E s \in Session :
       /\ srvSeq[s] = 0 /\ \A u \in Session : u < s => srvSeq[u] > 0
       /\ srvSeq' = [srvSeq EXCEPT ![s] = 1]
       /\ resumable' = resumable \cup {s}
       /\ peerSes' = s
       /\ Send(Dispatch("READY", s, 1))
  /\ peer' = "live"
  /\ UNCHANGED <<state, stop, pc, faults, session, caller, link, ask, history>>

\* Resume replays what came after the sequence number, then RESUMED; a session
\* or a number the server does not know is invalid.
ServerResume ==
  /\ peer = "resume"
  /\ LET s == ask.ses IN
     IF s \in resumable /\ ask.seq <= srvSeq[s]
     THEN /\ srvSeq' = [srvSeq EXCEPT ![s] = @ + 1]
          /\ peerSes' = s /\ peer' = "live"
          /\ inbox' = IF link # "open" THEN inbox
                      ELSE inbox \o [i \in 1..(srvSeq[s] + 1 - ask.seq) |->
                             Dispatch(IF ask.seq + i = srvSeq[s] + 1
                                      THEN "RESUMED" ELSE "EVENT",
                                      s, ask.seq + i)]
     ELSE /\ Send([op |-> "InvalidSession", d |-> FALSE])
          /\ peer' = "wait"
          /\ UNCHANGED <<srvSeq, peerSes>>
  /\ UNCHANGED <<state, stop, pc, faults, session, caller, link, ask,
                 resumable, history>>

\* An event for a session: sent when it is attached, kept for a resume if not.
ServerEvent(s) ==
  /\ s \in resumable /\ srvSeq[s] < MaxSeq
  /\ srvSeq' = [srvSeq EXCEPT ![s] = @ + 1]
  /\ IF peer = "live" /\ peerSes = s
     THEN Send(Dispatch("EVENT", s, srvSeq[s] + 1))
     ELSE UNCHANGED inbox
  /\ UNCHANGED <<state, stop, pc, faults, session, caller, link, peer, peerSes,
                 ask, resumable, history>>

\* What the server may say unasked: Reconnect, InvalidSession, a close frame.
\* It may have forgotten the session.
ServerInterrupts ==
  /\ link = "open" /\ peer # "gone" /\ Fault
  /\ \/ /\ peer = "live" /\ UNCHANGED peer
        /\ Send([op |-> "Reconnect"])
     \/ /\ peer = "live" /\ UNCHANGED peer
        /\ \E d \in BOOLEAN : Send([op |-> "InvalidSession", d |-> d])
     \/ /\ peer' = "gone"
        /\ \E c \in CloseCodes : Send([op |-> "Close", code |-> c])
  /\ \E gone \in {{}, {peerSes}} : resumable' = resumable \ gone
  /\ UNCHANGED <<state, stop, pc, session, caller, link, peerSes, ask, srvSeq,
                 history>>

\* A connection that never authenticates is closed by the server.
ServerAuthTimeout ==
  /\ link = "open" /\ peer = "wait" /\ pc \in {"loop", "recv"} /\ inbox = <<>>
  /\ peer' = "gone"
  /\ Send([op |-> "Close", code |-> 4009])
  /\ UNCHANGED <<state, stop, pc, faults, session, caller, link, peerSes, ask,
                 server, history>>

\* The connection breaks, with any part of what is in flight, or goes silent.
LinkBreaks ==
  /\ link = "open" /\ Fault
  /\ link' \in {"broken", "silent"}
  /\ peer' = "gone" /\ peerSes' = NoSession
  /\ \E k \in 0..Len(inbox) : inbox' = SubSeq(inbox, 1, k)
  /\ UNCHANGED <<state, stop, pc, session, caller, ask, server, history>>

-----------------------------------------------------------------------------
Listen ==
  \/ ConnectOk \/ ConnectFails \/ ConnectGivesUp \/ HelloOk \/ HelloFails
  \/ AuthSent \/ AuthDropped \/ AuthThrows
  \/ LoopExit \/ AckTimeout \/ LoopTurn
  \/ RecvNothing \/ RecvThrows \/ RecvFails \/ RecvClose \/ RecvReconnect
  \/ RecvInvalidSession \/ RecvDispatch

ReadyThread(s) == StoreSession(s) \/ StoreUrl(s) \/ BecomeReady(s)

Gateway ==
  \/ ServerIdentify \/ ServerResume \/ ServerInterrupts \/ ServerAuthTimeout
  \/ LinkBreaks
  \/ \E s \in Session : ServerEvent(s)

Next == Listen \/ Stop \/ Gateway \/ \E s \in Session : ReadyThread(s)

Spec == Init /\ [][Next]_vars

\* The threads of the program are scheduled; the ACK clock runs; the server
\* answers what it is asked and closes what never authenticates.
Fairness ==
  /\ WF_vars(Listen)
  /\ SF_vars(link = "silent" /\ AckTimeout)
  /\ \A s \in Session : WF_vars(ReadyThread(s))
  /\ WF_vars(ServerIdentify) /\ WF_vars(ServerResume)
  /\ WF_vars(ServerAuthTimeout)

FairSpec == Spec /\ Fairness

-----------------------------------------------------------------------------
Frame ==
  [op : {"Dispatch"}, t : {"READY", "RESUMED", "EVENT"}, ses : Session, s : Nat]
    \cup [op : {"Reconnect"}]
    \cup [op : {"InvalidSession"}, d : BOOLEAN]
    \cup [op : {"Close"}, code : CloseCodes \cup {4009}]

\* Every variable has its type: the enum, the thread positions, the frames.
TypeOK ==
  /\ state \in GatewayStates /\ sequence \in Nat
  /\ sesId \in Session \cup {NoSession} /\ resumeUrl \in BOOLEAN
  /\ stop \in BOOLEAN
  /\ pc \in {"connect", "hello", "auth", "loop", "recv", "done", "dead", "crashed"}
  /\ call \in {"ctor", "loop", "catch"} /\ resuming \in BOOLEAN /\ url \in BOOLEAN
  /\ attempts \in Nat
  /\ handler \in [Session -> {"none", "session", "url", "state", "done"}]
  /\ link \in {"down", "open", "broken", "silent"}
  /\ inbox \in Seq(Frame)
  /\ peer \in {"gone", "wait", "identify", "resume", "live"}
  /\ peerSes \in Session \cup {NoSession}
  /\ ask \in [ses : Session \cup {NoSession}, seq : Nat]
  /\ srvSeq \in [Session -> Nat] /\ resumable \subseteq Session
  /\ faults \in 0..MaxFaults
  /\ seqSes \in Session \cup {NoSession} /\ delivered \in [Session -> Nat]
  /\ accepted \in BOOLEAN /\ overtaken \in BOOLEAN /\ crossed \in BOOLEAN

\* The sequence number the shard would resume from is the number of dispatches
\* it has routed in that session: across breaks, resumes and replays no
\* dispatch was skipped and none routed twice.  It may fail only after a Resume
\* paired a session with another session's sequence number.
ExactlyOnce ==
  ~crossed /\ seqSes # NoSession => sequence = delivered[seqSes]

\* A Resume pairs a session with its own sequence number, although the number
\* is stored by the listen thread and the session id by a detached one - unless
\* a reconnect overtook that thread.
ResumeMatchesSequence == crossed => overtaken

\* READY is reported only when the server accepted this very connection -
\* unless a reconnect overtook a READY thread, which then reports late.
ReadyMeansAccepted == state = "READY" /\ ~overtaken => accepted

\* READY is reported only when the server accepted this very connection,
\* whatever the threads did: getCurrentState "gets the current gateway state"
\* (src/include/nyaBot.h).  It does not hold.
ReadyIsCurrent == state = "READY" => accepted

\* A Resume always names a session, even while the READY threads still write:
\* the session id is stored before the URL that makes a resume possible.
ResumeNamesSession == peer = "resume" => ask.ses # NoSession /\ ask.seq > 0

\* With finitely many faults a shard ends, or is READY on an accepted
\* connection and stays so.
Settles ==
  <>[](pc \in {"done", "dead", "crashed"} \/ (state = "READY" /\ accepted))

\* Once the bot is stopping the listen thread ends, wherever it was: ~Shard
\* joins it.
StopEndsListen == stop ~> pc \in {"done", "dead", "crashed"}
=============================================================================
