---------------------------- MODULE ShardProofs ----------------------------
(* What TLAPS proves of Shard, for every value of its constants. *)
EXTENDS Shard, SequenceTheorems, TLAPS

USE DEF NoSession

-----------------------------------------------------------------------------
(* Lemmas on frames *)

\* A dispatch of a session is a frame.
LEMMA DispatchIsFrame ==
  ASSUME NEW t \in {"READY", "RESUMED", "EVENT"}, NEW s \in Session, NEW n \in Nat
  PROVE  Dispatch(t, s, n) \in Frame
BY DEF Dispatch, Frame

\* A frame whose operation is Dispatch has a type, a session and a number.
LEMMA FrameFields ==
  ASSUME NEW m \in Frame
  PROVE  /\ m.op = "Dispatch" => /\ m.t \in {"READY", "RESUMED", "EVENT"}
                                 /\ m.ses \in Session /\ m.s \in Nat
         /\ m.op = "InvalidSession" => m.d \in BOOLEAN
         /\ m.op \in {"Dispatch", "Reconnect", "InvalidSession", "Close"}
BY DEF Frame

\* Sending a frame keeps the inbox a sequence of frames.
LEMMA SendType ==
  ASSUME TypeOK, NEW m \in Frame, Send(m)
  PROVE  inbox' \in Seq(Frame)
BY AppendProperties DEF Send, TypeOK

\* The start of a reconnect keeps the types.
LEMMA ReconnectType ==
  ASSUME TypeOK, NEW r \in BOOLEAN, NEW c \in {"loop", "catch"}, Reconnect(r, c),
         faults' \in 0..MaxFaults
  PROVE  TypeOK'
BY EmptySeq DEF TypeOK, Reconnect, GatewayStates, session, server

\* So does the catch block.
LEMMA CaughtType ==
  ASSUME TypeOK, NEW c \in BOOLEAN, Caught(c), faults' \in 0..MaxFaults
  PROVE  TypeOK'
<1>1. CASE c /\ ~stop
  BY <1>1, ReconnectType DEF Caught
<1>2. CASE ~(c /\ ~stop)
  <2>1. /\ stop' = TRUE /\ pc' = "loop"
        /\ UNCHANGED <<state, session, caller, wire, server, history>>
    BY <1>2 DEF Caught
  <2> QED BY <2>1 DEF TypeOK, session, caller, wire, server, history
<1> QED BY <1>1, <1>2

\* A fault is counted within its bound.
LEMMA FaultBound ==
  ASSUME TypeOK, Fault
  PROVE  faults' \in 0..MaxFaults
BY ShardAssumption DEF TypeOK, Fault

\* Every step of the listen thread keeps the types.
LEMMA ListenType ==
  ASSUME TypeOK, Listen
  PROVE  TypeOK'
<1> USE DEF session, caller, wire, server, history
<1>1. CASE ConnectOk
  BY <1>1 DEF ConnectOk, TypeOK
<1>2. CASE ConnectFails
  BY <1>2, FaultBound, SMTT(30) DEF ConnectFails, TypeOK
<1>3. CASE ConnectGivesUp
  <2>1. pc' \in {"dead", "loop"} /\ stop' \in BOOLEAN
    BY <1>3 DEF ConnectGivesUp, TypeOK
  <2> QED BY <1>3, <2>1 DEF ConnectGivesUp, TypeOK
<1>4. CASE HelloOk
  BY <1>4 DEF HelloOk, TypeOK
<1>5. CASE HelloFails
  BY <1>5, FaultBound, SMTT(30) DEF HelloFails, TypeOK
<1>6. CASE AuthSent
  BY <1>6 DEF AuthSent, TypeOK, GatewayStates
<1>7. CASE AuthDropped
  BY <1>7, FaultBound DEF AuthDropped, TypeOK
<1>8. CASE AuthThrows
  <2>1. CASE call = "loop"
    BY <1>8, <2>1, CaughtType DEF AuthThrows, TypeOK
  <2>2. CASE call # "loop"
    BY <1>8, <2>2, SMTT(30) DEF AuthThrows, TypeOK
  <2> QED BY <2>1, <2>2
<1>9. CASE LoopExit
  BY <1>9 DEF LoopExit, TypeOK
<1>10. CASE AckTimeout
  <2>1. faults' \in 0..MaxFaults
    BY <1>10, FaultBound DEF AckTimeout, TypeOK
  <2> QED BY <1>10, <2>1, ReconnectType DEF AckTimeout
<1>11. CASE LoopTurn
  BY <1>11 DEF LoopTurn, TypeOK
<1>12. CASE RecvNothing
  BY <1>12 DEF RecvNothing, TypeOK
<1>13. CASE RecvThrows
  BY <1>13, CaughtType DEF RecvThrows, TypeOK
<1>14. CASE RecvFails
  BY <1>14, CaughtType, FaultBound DEF RecvFails
<1>15. CASE RecvClose
  <2>1. faults' \in 0..MaxFaults
    BY <1>15 DEF RecvClose, TypeOK
  <2>2. CASE stop
    BY <1>15, <2>2, SMTT(30) DEF RecvClose, TypeOK
  <2>3. ASSUME NEW r \in BOOLEAN, Reconnect(r, "loop")
        PROVE  TypeOK'
    BY <2>1, <2>3, ReconnectType
  <2>4. CASE /\ stop' = TRUE /\ pc' = "loop" /\ inbox' = Tail(inbox)
             /\ inbox # <<>>
             /\ UNCHANGED <<state, session, caller, link, peer, peerSes, ask,
                            server, history>>
    BY SMTT(30), <2>1, <2>4, HeadTailProperties DEF TypeOK
  <2> QED BY <1>15, <2>2, <2>3, <2>4 DEF RecvClose
<1>16. CASE RecvReconnect
  BY <1>16, ReconnectType DEF RecvReconnect, TypeOK
<1>17. CASE RecvInvalidSession
  <2>1. Head(inbox) \in Frame
    BY <1>17, HeadTailProperties DEF RecvInvalidSession, TypeOK
  <2>2. Head(inbox).d \in BOOLEAN
    BY <1>17, <2>1, FrameFields DEF RecvInvalidSession
  <2> QED BY <1>17, <2>2, ReconnectType DEF RecvInvalidSession, TypeOK
<1>18. CASE RecvDispatch
  <2>1. Head(inbox) \in Frame /\ Tail(inbox) \in Seq(Frame)
    BY <1>18, HeadTailProperties DEF RecvDispatch, RouteEvent, TypeOK
  <2>2. /\ Head(inbox).t \in {"READY", "RESUMED", "EVENT"}
        /\ Head(inbox).ses \in Session /\ Head(inbox).s \in Nat
    BY <1>18, <2>1, FrameFields DEF RecvDispatch, RouteEvent
  <2>3. state' \in GatewayStates
    BY <1>18 DEF RecvDispatch, RouteEvent, TypeOK, GatewayStates
  <2>4. accepted' \in BOOLEAN
    BY <1>18, Zenon DEF RecvDispatch, RouteEvent, TypeOK
  <2>5. handler' \in [Session -> {"none", "session", "url", "state", "done"}]
    BY <1>18, <2>2 DEF RecvDispatch, RouteEvent, TypeOK
  <2>6. delivered' \in [Session -> Nat]
    <3>1. delivered' = [delivered EXCEPT ![Head(inbox).ses] =
                                   delivered[Head(inbox).ses] + 1]
      BY <1>18 DEF RecvDispatch, RouteEvent
    <3>2. delivered \in [Session -> Nat]
      BY DEF TypeOK
    <3> QED BY <2>2, <3>1, <3>2
  <2>7. /\ sequence' \in Nat /\ seqSes' \in Session
        /\ inbox' \in Seq(Frame) /\ pc' = "loop"
    BY <1>18, <2>1, <2>2 DEF RecvDispatch, RouteEvent
  <2>8. UNCHANGED <<stop, faults, sesId, resumeUrl, call, resuming, url,
                    attempts, link, peer, peerSes, ask, srvSeq, resumable,
                    overtaken, crossed>>
    BY <1>18 DEF RecvDispatch, RouteEvent
  <2> QED BY SMTT(60), <2>3, <2>4, <2>5, <2>6, <2>7, <2>8 DEF TypeOK
<1> QED
  BY <1>1, <1>2, <1>3, <1>4, <1>5, <1>6, <1>7, <1>8, <1>9, <1>10, <1>11, <1>12,
     <1>13, <1>14, <1>15, <1>16, <1>17, <1>18 DEF Listen

\* Every step of the gateway keeps the types.
LEMMA GatewayType ==
  ASSUME TypeOK, Gateway
  PROVE  TypeOK'
<1> USE DEF session, caller, wire, server, history
<1>1. CASE ServerIdentify
  <2>1. PICK s \in Session : /\ srvSeq' = [srvSeq EXCEPT ![s] = 1]
                             /\ resumable' = resumable \cup {s}
                             /\ peerSes' = s
                             /\ Send(Dispatch("READY", s, 1))
    BY <1>1 DEF ServerIdentify
  <2>2. inbox' \in Seq(Frame)
    BY <2>1, DispatchIsFrame, SendType
  <2> QED BY <1>1, <2>1, <2>2 DEF ServerIdentify, TypeOK
<1>2. CASE ServerResume
  <2> DEFINE s == ask.ses
             n == srvSeq[s] + 1 - ask.seq
             replay == [i \in 1..n |->
                         Dispatch(IF ask.seq + i = srvSeq[s] + 1
                                  THEN "RESUMED" ELSE "EVENT",
                                  s, ask.seq + i)]
  <2>1. CASE s \in resumable /\ ask.seq <= srvSeq[s]
    <3>1. s \in Session /\ srvSeq[s] \in Nat /\ ask.seq \in Nat /\ n \in Nat
      BY <2>1 DEF TypeOK
    <3>2. \A i \in 1..n : replay[i] \in Frame
      <4> TAKE i \in 1..n
      <4> DEFINE t == IF ask.seq + i = srvSeq[s] + 1 THEN "RESUMED" ELSE "EVENT"
      <4>1. t \in {"READY", "RESUMED", "EVENT"} /\ ask.seq + i \in Nat
        BY <3>1
      <4>2. Dispatch(t, s, ask.seq + i) \in Frame
        BY <3>1, <4>1, DispatchIsFrame
      <4> QED BY <4>2
    <3>3. replay \in Seq(Frame)
      <4> HIDE DEF replay
      <4>1. replay \in [1..n -> Frame]
        <5>1. replay = [i \in 1..n |-> replay[i]]
          BY DEF replay
        <5> QED BY <3>2, <5>1
      <4> QED BY <3>1, <4>1, SeqDef
    <3>4. inbox \o replay \in Seq(Frame)
      BY <3>3, ConcatProperties DEF TypeOK
    <3>5. inbox' \in Seq(Frame)
      BY <1>2, <2>1, <3>4 DEF ServerResume, TypeOK
    <3>6. srvSeq' \in [Session -> Nat] /\ peerSes' \in Session /\ peer' = "live"
      <4> HIDE DEF s, n, replay
      <4>1. /\ srvSeq' = [srvSeq EXCEPT ![s] = srvSeq[s] + 1]
            /\ peerSes' = s /\ peer' = "live"
        BY <1>2, <2>1 DEF ServerResume, s
      <4> QED BY SMTT(30), <3>1, <4>1 DEF TypeOK
    <3>7. UNCHANGED <<state, stop, pc, faults, session, caller, link, ask,
                      resumable, history>>
      BY <1>2 DEF ServerResume
    <3> HIDE DEF s, n, replay
    <3> QED BY SMTT(60), <3>5, <3>6, <3>7 DEF TypeOK
  <2>2. CASE ~(s \in resumable /\ ask.seq <= srvSeq[s])
    <3>1. [op |-> "InvalidSession", d |-> FALSE] \in Frame
      BY DEF Frame
    <3>2. inbox' \in Seq(Frame)
      BY <1>2, <2>2, <3>1, SendType DEF ServerResume
    <3> QED BY <1>2, <2>2, <3>2 DEF ServerResume, TypeOK
  <2> QED BY <2>1, <2>2
<1>3. CASE ServerInterrupts
  <2>1. PICK gone \in {{}, {peerSes}} : resumable' = resumable \ gone
    BY <1>3 DEF ServerInterrupts
  <2>2. \E m \in Frame : Send(m)
    <3>1. [op |-> "Reconnect"] \in Frame
      BY DEF Frame
    <3>2. \A d \in BOOLEAN : [op |-> "InvalidSession", d |-> d] \in Frame
      BY DEF Frame
    <3>3. \A c \in CloseCodes : [op |-> "Close", code |-> c] \in Frame
      BY DEF Frame
    <3> QED BY <1>3, <3>1, <3>2, <3>3 DEF ServerInterrupts
  <2>3. inbox' \in Seq(Frame)
    BY <2>2, SendType
  <2>4. faults' \in 0..MaxFaults
    BY <1>3, FaultBound DEF ServerInterrupts
  <2>5. peer' \in {"gone", "live"}
    BY <1>3 DEF ServerInterrupts
  <2> QED BY SMTT(30), <1>3, <2>1, <2>3, <2>4, <2>5 DEF ServerInterrupts, TypeOK
<1>4. CASE ServerAuthTimeout
  <2>1. [op |-> "Close", code |-> 4009] \in Frame
    BY DEF Frame
  <2>2. inbox' \in Seq(Frame)
    BY <1>4, <2>1, SendType DEF ServerAuthTimeout
  <2> QED BY <1>4, <2>2 DEF ServerAuthTimeout, TypeOK
<1>5. CASE LinkBreaks
  <2>1. PICK k \in 0..Len(inbox) : inbox' = SubSeq(inbox, 1, k)
    BY <1>5 DEF LinkBreaks
  <2>2. inbox' \in Seq(Frame)
    BY <2>1, SubSeqProperties, LenProperties DEF TypeOK
  <2>3. faults' \in 0..MaxFaults
    BY <1>5, FaultBound DEF LinkBreaks
  <2>4. /\ link' \in {"broken", "silent"} /\ peer' = "gone" /\ peerSes' = NoSession
        /\ UNCHANGED <<state, stop, pc, session, caller, ask, server, history>>
    BY <1>5 DEF LinkBreaks
  <2> QED BY <2>2, <2>3, <2>4, SMTT(30)
         DEF TypeOK, session, caller, server, history
<1>6. ASSUME NEW s \in Session, ServerEvent(s)
      PROVE  TypeOK'
  <2>1. srvSeq[s] + 1 \in Nat
    BY DEF TypeOK
  <2>2. inbox' \in Seq(Frame)
    <3>1. CASE peer = "live" /\ peerSes = s
      BY <1>6, <2>1, <3>1, DispatchIsFrame, SendType DEF ServerEvent
    <3>2. CASE ~(peer = "live" /\ peerSes = s)
      BY <1>6, <3>2 DEF ServerEvent, TypeOK
    <3> QED BY <3>1, <3>2
  <2> QED BY <1>6, <2>1, <2>2 DEF ServerEvent, TypeOK
<1> QED BY <1>1, <1>2, <1>3, <1>4, <1>5, <1>6 DEF Gateway

\* Every variable of the shard always has its type.
THEOREM ShardTypeOK == Spec => []TypeOK
<1>1. Init => TypeOK
  <2> SUFFICES ASSUME Init PROVE TypeOK
    OBVIOUS
  <2>1. inbox \in Seq(Frame)
    BY EmptySeq DEF Init
  <2>2. faults \in 0..MaxFaults
    BY ShardAssumption DEF Init
  <2> QED BY <2>1, <2>2 DEF Init, TypeOK, GatewayStates
<1>2. TypeOK /\ [Next]_vars => TypeOK'
  <2> SUFFICES ASSUME TypeOK, [Next]_vars
               PROVE  TypeOK'
    OBVIOUS
  <2>1. CASE Stop
    BY <2>1 DEF Stop, TypeOK, session, caller, wire, server, history
  <2>2. ASSUME NEW s \in Session, ReadyThread(s)
        PROVE  TypeOK'
    <3> USE DEF session, caller, wire, server, history
    <3>1. CASE StoreSession(s)
      BY <3>1 DEF StoreSession, TypeOK
    <3>2. CASE StoreUrl(s)
      BY <3>2, SMTT(30) DEF StoreUrl, TypeOK
    <3>3. CASE BecomeReady(s)
      BY <3>3, SMTT(30) DEF BecomeReady, TypeOK, GatewayStates
    <3> QED BY <2>2, <3>1, <3>2, <3>3 DEF ReadyThread
  <2>3. CASE UNCHANGED vars
    BY <2>3 DEF vars, TypeOK, session, caller, wire, server, history
  <2> QED BY <2>1, <2>2, <2>3, ListenType, GatewayType DEF Next
<1> QED BY <1>1, <1>2, PTL DEF Spec

-----------------------------------------------------------------------------
(* The inductive invariant *)

IsDispatch(m) == m.op = "Dispatch"
IsReady(m)    == IsDispatch(m) /\ m.t = "READY"

\* The next frame opens a session.  The session the next dispatch belongs to,
\* and the number it comes after.
StartsSession == Len(inbox) > 0 /\ IsReady(inbox[1])
Owner         == IF StartsSession THEN inbox[1].ses ELSE seqSes
Base          == IF StartsSession THEN 0 ELSE sequence

AllDispatch(n) == \A j \in 1..n : IsDispatch(inbox[j])

Connecting == pc \in {"connect", "hello", "auth"}

\* Where the connection stands: nothing travels before the shard asked to be
\* authenticated, the answer to Identify comes first and only once.
ConnInv ==
  /\ peer # "gone" => link = "open"
  /\ Connecting => ~accepted /\ peer \in {"gone", "wait"}
  /\ pc = "connect" => peer = "gone" /\ Len(inbox) = 0
  /\ Connecting /\ peer = "wait" => Len(inbox) = 0
  /\ peer \in {"identify", "resume"} => ~accepted /\ Len(inbox) = 0
  /\ \A i \in 1..Len(inbox) : IsReady(inbox[i]) => i = 1 /\ ~accepted
  /\ \A i \in 1..Len(inbox) : IsDispatch(inbox[i]) => srvSeq[inbox[i].ses] > 0
  /\ \A i \in 1..Len(inbox) :
       inbox[i].op = "Close" => i = Len(inbox) /\ peer = "gone"

\* As long as every Resume matched, what travels is of one session.
OwnerInv ==
  ~crossed =>
    /\ \A i \in 1..Len(inbox) : IsDispatch(inbox[i]) => inbox[i].ses = Owner
    /\ peer = "live" => peerSes = Owner
    /\ peer = "resume" => ask.ses = seqSes

\* And its numbers follow one another, from the last one routed to the last one
\* the server gave out.
NumberInv ==
  ~crossed =>
    /\ \A i \in 1..Len(inbox) : AllDispatch(i) => inbox[i].s = Base + i
    /\ peer = "live" /\ AllDispatch(Len(inbox)) =>
         srvSeq[peerSes] = Base + Len(inbox)
    /\ peer = "resume" => ask.seq = sequence
    /\ StartsSession => delivered[inbox[1].ses] = 0
    /\ \A s \in Session : srvSeq[s] = 0 => delivered[s] = 0
    /\ seqSes # NoSession => sequence = delivered[seqSes]

\* As long as no READY thread was overtaken, at most one runs, for the session
\* the sequence number belongs to, on the connection that accepted it.
ThreadInv ==
  ~overtaken =>
    /\ ~crossed
    /\ state = "READY" => accepted
    /\ \A s \in Session : Running(s) => accepted /\ s = seqSes
    /\ seqSes = NoSession => sesId = NoSession
    /\ seqSes # NoSession => sesId = seqSes \/ handler[seqSes] = "session"

\* The resume URL is stored after the session id, and that after a dispatch
\* was numbered; a connection that resumes was made with a stored URL.
NameInv ==
  /\ \A s \in Session : handler[s] # "none" => sequence > 0
  /\ \A s \in Session : handler[s] \in {"url", "state", "done"} => sesId # NoSession
  /\ resumeUrl => sesId # NoSession /\ sequence > 0
  /\ pc = "connect" /\ resuming /\ url => resumeUrl
  /\ pc \in {"hello", "auth"} /\ resuming => resumeUrl
  /\ \A i \in 1..Len(inbox) : IsDispatch(inbox[i]) => inbox[i].s > 0
  /\ peer = "resume" => ask.ses # NoSession /\ ask.seq > 0

Inv == ConnInv /\ OwnerInv /\ NumberInv /\ ThreadInv /\ NameInv

-----------------------------------------------------------------------------
(* How a step changes the inbox *)

\* An inbox is as long as its frames, each of them a frame.
LEMMA InboxFacts ==
  ASSUME TypeOK
  PROVE  /\ Len(inbox) \in Nat
         /\ inbox = <<>> <=> Len(inbox) = 0
         /\ \A i \in 1..Len(inbox) : inbox[i] \in Frame
BY EmptySeq, LenProperties, ElementOfSeq DEF TypeOK

\* The first frame was taken off; the frame m was added.
Received ==
  /\ Len(inbox) \in Nat \ {0} /\ Len(inbox') = Len(inbox) - 1
  /\ \A i \in 1..Len(inbox') : inbox'[i] = inbox[i + 1]

Sent(m) ==
  /\ Len(inbox) \in Nat /\ Len(inbox') = Len(inbox) + 1
  /\ inbox'[Len(inbox) + 1] = m
  /\ \A i \in 1..Len(inbox) : inbox'[i] = inbox[i]

\* Receiving takes the first frame.
LEMMA TailFacts ==
  ASSUME TypeOK, inbox # <<>>, inbox' = Tail(inbox)
  PROVE  Received /\ Head(inbox) = inbox[1]
BY HeadTailProperties, EmptySeq DEF TypeOK, Received

\* Sending adds a last one.
LEMMA AppendFacts ==
  ASSUME TypeOK, NEW m \in Frame, inbox' = Append(inbox, m)
  PROVE  Sent(m)
BY AppendProperties, LenProperties DEF TypeOK, Sent

\* A broken connection delivers a prefix.
LEMMA PrefixFacts ==
  ASSUME TypeOK, NEW k \in 0..Len(inbox), inbox' = SubSeq(inbox, 1, k)
  PROVE  /\ Len(inbox') = k
         /\ \A i \in 1..k : inbox'[i] = inbox[i]
BY SubSeqProperties, LenProperties DEF TypeOK

-----------------------------------------------------------------------------
(* The invariant step by step *)

\* A step of the listen thread that touches neither session nor connection.
Local ==
  /\ UNCHANGED <<state, session, resuming, url, wire, server, history>>
  /\ pc' = "connect" => pc = "connect"
  /\ pc' \in {"hello", "auth"} => pc \in {"hello", "auth"}

\* Such a step keeps the invariant.
LEMMA LocalKeeps ==
  ASSUME TypeOK, Inv, Local
  PROVE  Inv'
<1> USE DEF Local, session, wire, server, history
<1>1. ConnInv'
  BY DEF Inv, ConnInv, Connecting, IsReady, IsDispatch
<1>2. OwnerInv'
  BY DEF Inv, OwnerInv, Owner, StartsSession, IsReady, IsDispatch
<1>3. NumberInv'
  BY DEF Inv, NumberInv, Base, StartsSession, AllDispatch, IsReady, IsDispatch
<1>4. ThreadInv'
  BY DEF Inv, ThreadInv, Running
<1>5. NameInv'
  BY DEF Inv, NameInv, IsDispatch
<1> QED BY <1>1, <1>2, <1>3, <1>4, <1>5 DEF Inv

\* The start of a reconnect keeps the invariant: the connection is gone, and a
\* READY thread still running is overtaken.
LEMMA ReconnectKeeps ==
  ASSUME TypeOK, Inv, NEW r \in BOOLEAN, NEW c \in {"loop", "catch"}, Reconnect(r, c)
  PROVE  Inv'
<1>1. /\ Len(inbox') = 0 /\ peer' = "gone" /\ pc' = "connect" /\ accepted' = FALSE
      /\ state' = "UNAUTHENTICATED" /\ url' = (r => resumeUrl) /\ resuming' = r
      /\ overtaken' = (overtaken \/ \E s \in Session : Running(s))
      /\ UNCHANGED <<sequence, sesId, resumeUrl, handler, ask, srvSeq, seqSes,
                     delivered, crossed>>
  BY EmptySeq DEF Reconnect, session, server
<1>2. ConnInv'
  BY <1>1 DEF ConnInv
<1>3. OwnerInv'
  BY <1>1 DEF OwnerInv
<1>4. NumberInv'
  BY <1>1 DEF Inv, NumberInv, StartsSession
<1>5. ThreadInv'
  BY <1>1 DEF Inv, ThreadInv, Running
<1>6. NameInv'
  <2>1. url' /\ resuming' => resumeUrl
    BY <1>1
  <2> QED BY <1>1, <2>1 DEF Inv, NameInv
<1> QED BY <1>2, <1>3, <1>4, <1>5, <1>6 DEF Inv

\* So does the catch block.
LEMMA CaughtKeeps ==
  ASSUME TypeOK, Inv, NEW c \in BOOLEAN, Caught(c)
  PROVE  Inv'
<1>1. CASE c /\ ~stop
  BY <1>1, ReconnectKeeps DEF Caught
<1>2. CASE ~(c /\ ~stop)
  <2>1. /\ pc' = "loop"
        /\ UNCHANGED <<state, session, caller, wire, server, history>>
    BY <1>2 DEF Caught
  <2> QED BY <2>1, LocalKeeps DEF Local, caller
<1> QED BY <1>1, <1>2

\* A connection made is waiting, with nothing in it.
LEMMA ConnectOkKeeps ==
  ASSUME TypeOK, Inv, ConnectOk
  PROVE  Inv'
<1> USE DEF ConnectOk, session, caller, server, history
<1>1. ConnInv'
  BY DEF Inv, ConnInv, Connecting, IsReady, IsDispatch
<1>2. OwnerInv'
  BY DEF Inv, OwnerInv, Owner, StartsSession, IsReady, IsDispatch
<1>3. NumberInv'
  BY DEF Inv, NumberInv, Base, StartsSession, AllDispatch, IsReady, IsDispatch
<1>4. ThreadInv'
  BY DEF Inv, ThreadInv, Running
<1>5. NameInv'
  BY DEF Inv, NameInv, IsDispatch
<1> QED BY <1>1, <1>2, <1>3, <1>4, <1>5 DEF Inv

\* A Resume carries the stored session and number: they belong together if no
\* READY thread was overtaken.
LEMMA AuthSentKeeps ==
  ASSUME TypeOK, Inv, AuthSent
  PROVE  Inv'
<1> USE DEF session, caller, server, history
<1>1. /\ pc = "auth" /\ pc' = "loop" /\ Connecting /\ ~accepted
      /\ state' \in {"RESUME_SENT", "AUTHENTICATION_SENT"}
      /\ \/ UNCHANGED <<peer, ask>>
         \/ /\ peer = "wait" /\ ~resuming /\ peer' = "identify" /\ ask' = ask
         \/ /\ peer = "wait" /\ resuming /\ peer' = "resume"
            /\ ask' = [ses |-> sesId, seq |-> sequence]
      /\ crossed' = (crossed \/ (resuming /\ sesId # seqSes))
      /\ UNCHANGED <<session, link, inbox, peerSes, server, resuming, url, stop,
                     seqSes, delivered, accepted, overtaken>>
  BY DEF AuthSent, Inv, ConnInv, Connecting
<1>2. peer = "wait" => Len(inbox) = 0
  BY <1>1 DEF Inv, ConnInv
<1>3. peer \in {"gone", "wait"}
  BY <1>1 DEF Inv, ConnInv
<1>4. ~overtaken /\ resuming => sesId = seqSes
  <2>1. \A s \in Session : overtaken \/ ~Running(s)
    BY <1>1 DEF Inv, ThreadInv
  <2> QED BY <2>1 DEF Inv, ThreadInv, Running, TypeOK
<1> HIDE DEF session, caller, server, history
<1>a. ~crossed' => ~crossed /\ (resuming => sesId = seqSes)
  BY <1>1
<1>5. ConnInv'
  BY <1>1, <1>2, <1>3 DEF Inv, ConnInv, Connecting, IsReady, IsDispatch, server
<1>6. OwnerInv'
  <2> SUFFICES ASSUME ~crossed' PROVE OwnerInv'
    BY DEF OwnerInv
  <2>1. Owner' = Owner
    BY <1>1 DEF Owner, StartsSession, IsReady, IsDispatch
  <2> QED BY <1>1, <1>3, <1>a, <2>1 DEF Inv, OwnerInv, IsDispatch
<1>7. NumberInv'
  <2> SUFFICES ASSUME ~crossed' PROVE NumberInv'
    BY DEF NumberInv
  <2>1. UNCHANGED <<inbox, srvSeq, delivered, seqSes, sequence, peerSes>>
    BY <1>1 DEF session, server
  <2>2. peer' # "live" /\ (peer' = "resume" => ask'.seq = sequence)
    BY <1>1, <1>3
  <2> QED BY <1>a, <2>1, <2>2 DEF Inv, NumberInv, Base, StartsSession,
                                  AllDispatch, IsReady, IsDispatch
<1>8. ThreadInv'
  BY <1>1, <1>4, <1>a DEF Inv, ThreadInv, session, Running
<1>9. NameInv'
  BY <1>1 DEF Inv, NameInv, IsDispatch, session
<1> QED BY <1>5, <1>6, <1>7, <1>8, <1>9 DEF Inv

\* A fatal close frame is taken off the inbox.
LEMMA FatalCloseKeeps ==
  ASSUME TypeOK, Inv, Received, inbox[1].op = "Close", pc' = "loop",
         UNCHANGED <<state, session, caller, link, peer, peerSes, ask, server,
                     history>>
  PROVE  Inv'
<1> USE DEF session, caller, server, history
<1>1. Len(inbox') = 0 /\ peer' = "gone"
  BY DEF Inv, ConnInv, Received
<1>2. ConnInv'
  BY <1>1 DEF Inv, ConnInv, Connecting
<1>3. OwnerInv'
  BY <1>1 DEF OwnerInv
<1>4. NumberInv'
  BY <1>1 DEF Inv, NumberInv, StartsSession
<1>5. ThreadInv'
  BY DEF Inv, ThreadInv, Running
<1>6. NameInv'
  BY <1>1 DEF Inv, NameInv
<1> QED BY <1>2, <1>3, <1>4, <1>5, <1>6 DEF Inv

\* Routing a dispatch: its number is the next one of its session.
LEMMA DispatchKeeps ==
  ASSUME TypeOK, Inv, RecvDispatch
  PROVE  Inv'
<1> DEFINE m == inbox[1]
           s == inbox[1].ses
<1>1. Received /\ Head(inbox) = m
  BY TailFacts DEF RecvDispatch, RouteEvent
<1>2. IsDispatch(m)
  BY <1>1 DEF RecvDispatch, RouteEvent, IsDispatch
<1>3. /\ s \in Session /\ m.s \in Nat /\ m.t \in {"READY", "RESUMED", "EVENT"}
      /\ Len(inbox) \in Nat \ {0}
  BY <1>1, <1>2, InboxFacts, FrameFields DEF Received, IsDispatch
<1>4. /\ sequence' = m.s /\ seqSes' = s
      /\ delivered' = [delivered EXCEPT ![s] = delivered[s] + 1]
      /\ state' = IF m.t = "RESUMED" THEN "READY" ELSE state
      /\ handler' = IF m.t = "READY" THEN [handler EXCEPT ![s] = "session"]
                                     ELSE handler
      /\ accepted' = (accepted \/ m.t \in {"READY", "RESUMED"})
      /\ pc' = "loop"
      /\ UNCHANGED <<sesId, resumeUrl, resuming, url, link, peer, peerSes, ask,
                     srvSeq, overtaken, crossed>>
  BY <1>1 DEF RecvDispatch, RouteEvent, caller, server
<1>5. IsReady(m) <=> StartsSession
  BY <1>3 DEF StartsSession
<1>6. ~StartsSession'
  BY <1>1, <1>3 DEF StartsSession, Received, Inv, ConnInv
<1>7. ConnInv'
  <2>1. \A i \in 1..Len(inbox') : i + 1 \in 1..Len(inbox) /\ i + 1 # 1
    BY <1>1, <1>3 DEF Received
  <2>2. \A i \in 1..Len(inbox') : ~IsReady(inbox'[i])
    BY <1>1, <2>1 DEF Received, Inv, ConnInv
  <2>3. \A i \in 1..Len(inbox') :
          IsDispatch(inbox'[i]) => srvSeq[inbox'[i].ses] > 0
    BY <1>1, <2>1 DEF Received, Inv, ConnInv
  <2>4. \A i \in 1..Len(inbox') :
          inbox'[i].op = "Close" => i = Len(inbox') /\ peer = "gone"
    BY <1>1, <2>1 DEF Received, Inv, ConnInv
  <2>5. peer \notin {"identify", "resume"}
    BY <1>3 DEF Inv, ConnInv
  <2>6. peer # "gone" => link = "open"
    BY DEF Inv, ConnInv
  <2> QED
    BY <1>4, <2>2, <2>3, <2>4, <2>5, <2>6 DEF ConnInv, Connecting, IsReady, IsDispatch
<1>8. ~crossed => s = Owner /\ m.s = Base + 1
  BY <1>2, <1>3 DEF Inv, OwnerInv, NumberInv, AllDispatch
<1>9. ~crossed => Owner' = Owner /\ Base' = Base + 1
  BY <1>4, <1>6, <1>8 DEF Owner, Base
<1>10. OwnerInv'
  <2> SUFFICES ASSUME ~crossed PROVE OwnerInv'
    BY <1>4 DEF OwnerInv
  <2>1. \A i \in 1..Len(inbox') : i + 1 \in 1..Len(inbox)
    BY <1>1, <1>3 DEF Received
  <2>2. \A i \in 1..Len(inbox') : IsDispatch(inbox'[i]) => inbox'[i].ses = Owner
    BY <1>1, <2>1 DEF Inv, OwnerInv, Received
  <2>3. peer = "live" => peerSes = Owner
    BY DEF Inv, OwnerInv
  <2>4. peer # "resume"
    BY <1>3 DEF Inv, ConnInv
  <2> HIDE DEF s
  <2> QED BY <1>4, <1>9, <2>2, <2>3, <2>4 DEF OwnerInv, IsDispatch
<1>11. NumberInv'
  <2> SUFFICES ASSUME ~crossed PROVE NumberInv'
    BY <1>4 DEF NumberInv
  <2>1. \A i \in 1..Len(inbox') : /\ i + 1 \in 1..Len(inbox)
                                  /\ inbox'[i] = inbox[i + 1]
    BY <1>1, <1>3 DEF Received
  <2>2. ASSUME NEW i \in 1..Len(inbox'), AllDispatch(i)'
        PROVE  inbox'[i].s = Base' + i
    <3>1. \A j \in 1..(i + 1) : IsDispatch(inbox[j])
      <4> TAKE j \in 1..(i + 1)
      <4>1. CASE j = 1
        BY <1>2, <4>1
      <4>2. CASE j # 1
        <5>1. j - 1 \in 1..i /\ j - 1 \in 1..Len(inbox') /\ (j - 1) + 1 = j
          BY <1>1, <1>3, <4>2 DEF Received
        <5> QED BY <2>1, <2>2, <5>1 DEF AllDispatch, IsDispatch
      <4> QED BY <4>1, <4>2
    <3>2. inbox[i + 1].s = Base + (i + 1)
      BY <2>1, <3>1 DEF Inv, NumberInv, AllDispatch
    <3>3. Base \in Nat
      BY DEF Base, TypeOK
    <3> QED BY <1>9, <2>1, <3>2, <3>3
  <2>3. ASSUME peer = "live", AllDispatch(Len(inbox))'
        PROVE  srvSeq[peerSes] = Base' + Len(inbox')
    <3>1. AllDispatch(Len(inbox))
      <4>1. ASSUME NEW j \in 1..Len(inbox), j # 1
            PROVE  IsDispatch(inbox[j])
        <5>1. j - 1 \in 1..Len(inbox') /\ (j - 1) + 1 = j
          BY <1>1, <1>3, <4>1 DEF Received
        <5> QED BY <2>1, <2>3, <5>1 DEF AllDispatch, IsDispatch
      <4> QED BY <1>2, <4>1 DEF AllDispatch
    <3>2. srvSeq[peerSes] = Base + Len(inbox)
      BY <2>3, <3>1 DEF Inv, NumberInv
    <3>3. Base \in Nat
      BY DEF Base, TypeOK
    <3> QED BY <1>1, <1>3, <1>9, <3>2, <3>3 DEF Received
  <2>4. peer # "resume"
    BY <1>3 DEF Inv, ConnInv
  <2>5. srvSeq[s] # 0
    <3>1. \A i \in 1..Len(inbox) : IsDispatch(inbox[i]) => srvSeq[inbox[i].ses] > 0
      BY DEF Inv, ConnInv
    <3>2. 1 \in 1..Len(inbox) /\ srvSeq[s] > 0
      BY <1>2, <1>3, <3>1
    <3> QED BY <3>2
  <2>6. \A u \in Session : srvSeq[u] = 0 => delivered'[u] = 0
    <3>1. \A u \in Session : srvSeq[u] = 0 => delivered[u] = 0
      BY DEF Inv, NumberInv
    <3>2. delivered \in [Session -> Nat]
      BY DEF TypeOK
    <3> QED BY <1>4, <2>5, <3>1, <3>2
  <2>7. sequence' = delivered'[seqSes']
    <3>1. delivered \in [Session -> Nat] /\ sequence \in Nat
      BY DEF TypeOK
    <3>2. delivered'[s] = delivered[s] + 1
      BY <1>3, <1>4, <3>1
    <3>3. CASE StartsSession
      <4>1. delivered[s] = 0 /\ Base = 0
        BY <3>3 DEF Inv, NumberInv, Base
      <4> QED BY <1>4, <1>8, <3>2, <4>1
    <3>4. CASE ~StartsSession
      <4>1. s = seqSes /\ Base = sequence
        BY <1>8, <3>4 DEF Owner, Base
      <4>2. sequence = delivered[seqSes]
        BY <1>3, <4>1 DEF Inv, NumberInv, Session
      <4> QED BY <1>4, <1>8, <3>2, <4>1, <4>2
    <3> QED BY <3>3, <3>4
  <2> QED
    BY <1>4, <1>6, <2>2, <2>3, <2>4, <2>6, <2>7 DEF NumberInv
<1>12. ThreadInv'
  <2> SUFFICES ASSUME ~overtaken PROVE ThreadInv'
    BY <1>4 DEF ThreadInv
  <2>1. ~crossed
    BY DEF Inv, ThreadInv
  <2>2. CASE IsReady(m)
    <3>1. m.t = "READY" /\ ~accepted
      BY <1>3, <2>2 DEF IsReady, Inv, ConnInv
    <3>2. \A u \in Session : ~Running(u)
      BY <3>1 DEF Inv, ThreadInv
    <3>3. handler' = [handler EXCEPT ![s] = "session"] /\ accepted' = TRUE
      BY <1>4, <3>1
    <3>4. \A u \in Session : Running(u)' => u = s
      BY <1>3, <3>2, <3>3 DEF Running, TypeOK
    <3>5. handler'[s] = "session" /\ s # NoSession
      BY <1>3, <3>3 DEF TypeOK, Session
    <3> QED BY <1>4, <2>1, <3>3, <3>4, <3>5 DEF ThreadInv
  <2>3. CASE ~IsReady(m)
    <3>1. m.t # "READY" /\ s = seqSes
      BY <1>2, <1>5, <1>8, <2>1, <2>3 DEF IsReady, Owner
    <3>2. handler' = handler /\ seqSes' = seqSes
      BY <1>4, <3>1
    <3>3. accepted => accepted'
      BY <1>4
    <3>4. state' = "READY" => accepted'
      BY <1>4, <3>3 DEF Inv, ThreadInv
    <3> QED BY <1>4, <2>1, <3>2, <3>3, <3>4 DEF Inv, ThreadInv, Running
  <2> QED BY <2>2, <2>3
<1>13. NameInv'
  <2>1. sequence' > 0
    BY <1>2, <1>3, <1>4 DEF Inv, NameInv
  <2>2. \A u \in Session : handler'[u] \in {"url", "state", "done"} =>
                           handler[u] \in {"url", "state", "done"}
    BY <1>3, <1>4 DEF TypeOK
  <2>3. \A i \in 1..Len(inbox') : IsDispatch(inbox'[i]) => inbox'[i].s > 0
    <3>1. \A i \in 1..Len(inbox') : i + 1 \in 1..Len(inbox)
      BY <1>1, <1>3 DEF Received
    <3> QED BY <1>1, <3>1 DEF Inv, NameInv, Received
  <2> HIDE DEF s
  <2> QED BY <1>4, <2>1, <2>2, <2>3 DEF Inv, NameInv, IsDispatch
<1> QED BY <1>7, <1>10, <1>11, <1>12, <1>13 DEF Inv

\* The READY thread stores the session its sequence number belongs to, then
\* the URL, then the state, on the connection that accepted it.
LEMMA ThreadKeeps ==
  ASSUME TypeOK, Inv, NEW s \in Session, ReadyThread(s)
  PROVE  Inv'
<1> USE DEF caller, wire, server, history
<1>1. Running(s) /\ s # NoSession
  BY DEF ReadyThread, StoreSession, StoreUrl, BecomeReady, Running, Session
<1>2. /\ UNCHANGED <<pc, sequence, resuming, url, link, inbox, peer, peerSes, ask,
                     srvSeq, seqSes, delivered, accepted, overtaken, crossed>>
      /\ \A u \in Session : u # s => handler'[u] = handler[u]
      /\ \/ /\ sesId' = s /\ handler[s] = "session" /\ handler'[s] = "url"
            /\ UNCHANGED <<state, resumeUrl>>
         \/ /\ resumeUrl' = TRUE /\ handler[s] = "url" /\ handler'[s] = "state"
            /\ UNCHANGED <<state, sesId>>
         \/ /\ state' = "READY" /\ handler[s] = "state" /\ handler'[s] = "done"
            /\ UNCHANGED <<sesId, resumeUrl>>
  BY DEF ReadyThread, StoreSession, StoreUrl, BecomeReady, TypeOK
<1>3. ConnInv'
  BY <1>2 DEF Inv, ConnInv, Connecting, IsReady, IsDispatch
<1>4. OwnerInv'
  BY <1>2 DEF Inv, OwnerInv, Owner, StartsSession, IsReady, IsDispatch
<1>5. NumberInv'
  BY <1>2 DEF Inv, NumberInv, Base, StartsSession, AllDispatch, IsReady, IsDispatch
<1>6. ThreadInv'
  <2> SUFFICES ASSUME ~overtaken PROVE ThreadInv'
    BY <1>2 DEF ThreadInv
  <2>1. accepted /\ s = seqSes
    BY <1>1 DEF Inv, ThreadInv
  <2>2. \A u \in Session : Running(u)' => Running(u)
    BY <1>1, <1>2 DEF Running
  <2>3. sesId' = seqSes \/ handler'[seqSes] = "session"
    BY <1>1, <1>2, <2>1 DEF Inv, ThreadInv
  <2> QED BY <1>1, <1>2, <2>1, <2>2, <2>3 DEF Inv, ThreadInv
<1>7. NameInv'
  <2>1. sequence > 0
    BY <1>1 DEF Inv, NameInv, Running
  <2>2. sesId' # NoSession \/ (sesId' = sesId /\ handler[s] = "session")
    BY <1>1, <1>2 DEF Inv, NameInv
  <2> QED BY <1>1, <1>2, <2>1 DEF Inv, NameInv, IsDispatch
<1> QED BY <1>3, <1>4, <1>5, <1>6, <1>7 DEF Inv

-----------------------------------------------------------------------------
(* The gateway's steps *)

\* Opening a session: READY is alone in the inbox.
LEMMA IdentifyKeeps ==
  ASSUME TypeOK, Inv, ServerIdentify
  PROVE  Inv'
<1> USE DEF session, caller, history
<1>1. PICK s \in Session : /\ srvSeq[s] = 0
                           /\ srvSeq' = [srvSeq EXCEPT ![s] = 1]
                           /\ peerSes' = s
                           /\ Send(Dispatch("READY", s, 1))
  BY DEF ServerIdentify
<1>2. link = "open" /\ Len(inbox) = 0 /\ ~accepted /\ ~Connecting
  BY DEF ServerIdentify, Inv, ConnInv
<1>3. Sent(Dispatch("READY", s, 1))
  BY <1>1, <1>2, DispatchIsFrame, AppendFacts DEF Send
<1>4. /\ Len(inbox') = 1 /\ inbox'[1] = Dispatch("READY", s, 1)
      /\ peer' = "live"
      /\ UNCHANGED <<state, pc, session, resuming, url, link, ask, history>>
  BY <1>2, <1>3 DEF Sent, ServerIdentify
<1>5. /\ inbox'[1].op = "Dispatch" /\ inbox'[1].t = "READY"
      /\ inbox'[1].ses = s /\ inbox'[1].s = 1
  BY <1>4 DEF Dispatch
<1>6. StartsSession'
  BY <1>4, <1>5 DEF StartsSession, IsReady, IsDispatch
<1>7. srvSeq'[s] = 1 /\ \A u \in Session : u # s => srvSeq'[u] = srvSeq[u]
  BY <1>1 DEF TypeOK
<1>8. ConnInv'
  BY <1>2, <1>4, <1>5, <1>7 DEF ConnInv, Connecting, IsReady, IsDispatch
<1>9. OwnerInv'
  BY <1>1, <1>4, <1>5, <1>6 DEF OwnerInv, Owner, IsDispatch
<1>10. NumberInv'
  BY <1>1, <1>4, <1>5, <1>6, <1>7 DEF Inv, NumberInv, Base, IsDispatch
<1>11. ThreadInv'
  BY <1>4 DEF Inv, ThreadInv, Running
<1>12. NameInv'
  BY <1>4, <1>5 DEF Inv, NameInv
<1> QED BY <1>8, <1>9, <1>10, <1>11, <1>12 DEF Inv

\* A frame that is no dispatch leaves session and numbers alone.
LEMMA NoticeKeeps ==
  ASSUME TypeOK, Inv, NEW m \in Frame, ~IsDispatch(m), Sent(m),
         peer # "gone", peer' \in {"gone", "wait", "live"},
         peer' = "live" => peer = "live",
         Connecting => peer' = "gone",
         m.op = "Close" => peer' = "gone",
         UNCHANGED <<state, pc, session, caller, link, peerSes, ask, srvSeq, history>>
  PROVE  Inv'
<1> USE DEF session, caller, history
<1>1. Len(inbox) \in Nat /\ Len(inbox') = Len(inbox) + 1
  BY DEF Sent
<1>2. \A i \in 1..Len(inbox') : \/ i \in 1..Len(inbox) /\ inbox'[i] = inbox[i]
                                \/ i = Len(inbox') /\ inbox'[i] = m
  <2> TAKE i \in 1..Len(inbox')
  <2>1. CASE i \in 1..Len(inbox)
    BY <2>1 DEF Sent
  <2>2. CASE i \notin 1..Len(inbox)
    <3>1. i = Len(inbox) + 1 /\ i = Len(inbox')
      BY <2>2, <1>1
    <3> QED BY <3>1 DEF Sent
  <2> QED BY <2>1, <2>2
<1>3. ~IsReady(m)
  BY DEF IsReady
<1>4. StartsSession' <=> StartsSession
  BY <1>1, <1>2, <1>3 DEF StartsSession, IsReady, IsDispatch, Sent
<1>5. Owner' = Owner /\ Base' = Base
  BY <1>1, <1>2, <1>4 DEF Owner, Base, StartsSession, Sent
<1>6. ConnInv'
  BY <1>1, <1>2, <1>3 DEF Inv, ConnInv, Connecting, IsReady, IsDispatch
<1>7. OwnerInv'
  BY <1>2, <1>5 DEF Inv, OwnerInv, IsDispatch
<1>8. NumberInv'
  <2> SUFFICES ASSUME ~crossed PROVE NumberInv'
    BY DEF NumberInv
  <2>1. ~AllDispatch(Len(inbox))'
    BY <1>1 DEF AllDispatch, IsDispatch, Sent
  <2>2. ASSUME NEW i \in 1..Len(inbox'), AllDispatch(i)'
        PROVE  inbox'[i].s = Base' + i
    <3>1. i \in 1..Len(inbox) /\ inbox'[i] = inbox[i]
      BY <1>1, <1>2, <2>1, <2>2
    <3>2. AllDispatch(i)
      BY <1>1, <2>2, <3>1 DEF AllDispatch, IsDispatch, Sent
    <3> QED BY <1>5, <3>1, <3>2 DEF Inv, NumberInv
  <2>3. StartsSession' => delivered[inbox'[1].ses] = 0
    BY <1>1, <1>4 DEF Inv, NumberInv, StartsSession, Sent
  <2>4. peer' # "resume"
    OBVIOUS
  <2> QED BY <2>1, <2>2, <2>3, <2>4 DEF Inv, NumberInv
<1>9. ThreadInv'
  BY DEF Inv, ThreadInv, Running
<1>10. NameInv'
  BY <1>2 DEF Inv, NameInv, IsDispatch
<1> QED BY <1>6, <1>7, <1>8, <1>9, <1>10 DEF Inv

\* An event for the attached session carries the next number; one for another
\* session only moves that session on.
LEMMA EventKeeps ==
  ASSUME TypeOK, Inv, NEW s \in Session, ServerEvent(s)
  PROVE  Inv'
<1> USE DEF session, caller, history
<1>1. /\ srvSeq' = [srvSeq EXCEPT ![s] = srvSeq[s] + 1]
      /\ UNCHANGED <<state, pc, session, caller, link, peer, peerSes, ask, history>>
  BY DEF ServerEvent
<1>2. /\ srvSeq[s] \in Nat /\ srvSeq'[s] = srvSeq[s] + 1
      /\ \A u \in Session : u # s => srvSeq'[u] = srvSeq[u]
      /\ \A u \in Session : srvSeq[u] \in Nat
  BY <1>1 DEF TypeOK
<1>3. \A u \in Session : /\ srvSeq[u] > 0 => srvSeq'[u] > 0
                         /\ srvSeq'[u] = 0 => srvSeq[u] = 0
  BY <1>2
<1>4. \A i \in 1..Len(inbox) : IsDispatch(inbox[i]) => inbox[i].ses \in Session
  BY InboxFacts, FrameFields DEF IsDispatch
<1>5. ThreadInv'
  BY <1>1 DEF Inv, ThreadInv, Running
<1>6. CASE peer = "live" /\ peerSes = s
  <2> DEFINE m == Dispatch("EVENT", s, srvSeq[s] + 1)
  <2>1. link = "open" /\ ~Connecting
    BY <1>6 DEF Inv, ConnInv
  <2>2. m \in Frame
    BY <1>2, DispatchIsFrame
  <2>3. Sent(m)
    BY <1>6, <2>1, <2>2, AppendFacts DEF ServerEvent, Send
  <2>4. m.op = "Dispatch" /\ m.t = "EVENT" /\ m.ses = s /\ m.s = srvSeq[s] + 1
    BY DEF Dispatch
  <2>5. IsDispatch(m) /\ ~IsReady(m)
    BY <2>4 DEF IsDispatch, IsReady
  <2> HIDE DEF m
  <2>6. Len(inbox) \in Nat /\ Len(inbox') = Len(inbox) + 1
    BY <2>3 DEF Sent
  <2>7. \A i \in 1..Len(inbox') : \/ i \in 1..Len(inbox) /\ inbox'[i] = inbox[i]
                                  \/ i = Len(inbox') /\ inbox'[i] = m
    <3> TAKE i \in 1..Len(inbox')
    <3>1. CASE i \in 1..Len(inbox)
      BY <3>1, <2>3 DEF Sent
    <3>2. CASE i \notin 1..Len(inbox)
      <4>1. i = Len(inbox) + 1 /\ i = Len(inbox')
        BY <3>2, <2>6
      <4> QED BY <4>1, <2>3 DEF Sent
    <3> QED BY <3>1, <3>2
  <2>8. StartsSession' <=> StartsSession
    BY <2>5, <2>6, <2>7, <2>3 DEF StartsSession, IsReady, IsDispatch, Sent
  <2>9. Owner' = Owner /\ Base' = Base
    BY <1>1, <2>6, <2>8, <2>3 DEF Owner, Base, StartsSession, Sent
  <2>10. ConnInv'
    BY <1>1, <1>2, <1>3, <1>4, <1>6, <2>1, <2>4, <2>5, <2>6, <2>7
       DEF Inv, ConnInv, Connecting, IsReady, IsDispatch
  <2>11. OwnerInv'
    BY <1>1, <1>6, <2>4, <2>7, <2>9 DEF Inv, OwnerInv, IsDispatch
  <2>12. NumberInv'
    <3> SUFFICES ASSUME ~crossed PROVE NumberInv'
      BY <1>1 DEF NumberInv
    <3>1. ASSUME NEW i \in 1..Len(inbox'), AllDispatch(i)'
          PROVE  inbox'[i].s = Base' + i
      <4>1. CASE i \in 1..Len(inbox)
        <5>1. AllDispatch(i)
          BY <2>6, <3>1, <4>1, <2>3 DEF AllDispatch, IsDispatch, Sent
        <5> QED BY <2>9, <4>1, <5>1, <2>3 DEF Inv, NumberInv, Sent
      <4>2. CASE i = Len(inbox')
        <5>1. AllDispatch(Len(inbox))
          BY <2>6, <3>1, <4>2, <2>3 DEF AllDispatch, IsDispatch, Sent
        <5>2. srvSeq[s] = Base + Len(inbox)
          BY <1>6, <5>1 DEF Inv, NumberInv
        <5>3. inbox'[i] = m /\ Base \in Nat
          BY <2>6, <4>2, <2>3 DEF Sent, Base, TypeOK
        <5> QED BY <2>4, <2>6, <2>9, <4>2, <5>2, <5>3
      <4> QED BY <2>6, <4>1, <4>2
    <3>2. ASSUME AllDispatch(Len(inbox))'
          PROVE  srvSeq'[peerSes] = Base' + Len(inbox')
      <4>1. AllDispatch(Len(inbox))
        BY <2>6, <3>2, <2>3 DEF AllDispatch, IsDispatch, Sent
      <4>2. srvSeq[s] = Base + Len(inbox) /\ Base \in Nat
        BY <1>6, <4>1 DEF Inv, NumberInv, Base, TypeOK
      <4> QED BY <1>2, <1>6, <2>6, <2>9, <4>2
    <3>3. StartsSession' => delivered[inbox'[1].ses] = 0
      BY <2>6, <2>8, <2>3 DEF Inv, NumberInv, StartsSession, Sent
    <3> QED BY <1>1, <1>3, <1>6, <3>1, <3>2, <3>3 DEF Inv, NumberInv
  <2>13. NameInv'
    BY <1>1, <1>2, <1>6, <2>4, <2>7 DEF Inv, NameInv, IsDispatch
  <2> QED BY <1>5, <2>10, <2>11, <2>12, <2>13 DEF Inv
<1>7. CASE ~(peer = "live" /\ peerSes = s)
  <2>1. inbox' = inbox
    BY <1>7 DEF ServerEvent
  <2>2. peer = "live" => srvSeq'[peerSes] = srvSeq[peerSes]
    BY <1>1, <1>7 DEF TypeOK
  <2>3. ConnInv'
    BY <1>1, <1>3, <1>4, <2>1 DEF Inv, ConnInv, Connecting, IsReady, IsDispatch
  <2>4. OwnerInv'
    BY <1>1, <2>1 DEF Inv, OwnerInv, Owner, StartsSession, IsReady, IsDispatch
  <2>5. NumberInv'
    BY <1>1, <1>3, <2>1, <2>2 DEF Inv, NumberInv, Base, StartsSession,
                                  AllDispatch, IsReady, IsDispatch
  <2>6. NameInv'
    BY <1>1, <2>1 DEF Inv, NameInv, IsDispatch
  <2> QED BY <1>5, <2>3, <2>4, <2>5, <2>6 DEF Inv
<1> QED BY <1>6, <1>7

\* A replay starts after the sequence number asked for and ends with the last
\* one given out; a session or number not known is answered by a notice.
LEMMA ResumeKeeps ==
  ASSUME TypeOK, Inv, ServerResume
  PROVE  Inv'
<1> USE DEF session, caller, history
<1> DEFINE s == ask.ses
           n == srvSeq[s] + 1 - ask.seq
           replay == [i \in 1..n |->
                       Dispatch(IF ask.seq + i = srvSeq[s] + 1
                                THEN "RESUMED" ELSE "EVENT",
                                s, ask.seq + i)]
<1>1. /\ peer = "resume" /\ link = "open" /\ ~accepted /\ Len(inbox) = 0
      /\ ~Connecting /\ s # NoSession /\ ask.seq > 0 /\ ask.seq \in Nat
  BY DEF ServerResume, Inv, ConnInv, NameInv, TypeOK
<1>2. UNCHANGED <<state, pc, session, caller, link, ask, history>>
  BY DEF ServerResume
<1>3. CASE s \in resumable /\ ask.seq <= srvSeq[s]
  <2>1. s \in Session /\ srvSeq[s] \in Nat /\ n \in Nat /\ n > 0
    BY <1>1, <1>3 DEF TypeOK
  <2>2. /\ srvSeq' = [srvSeq EXCEPT ![s] = srvSeq[s] + 1]
        /\ peerSes' = s /\ peer' = "live" /\ inbox' = inbox \o replay
    BY <1>1, <1>3 DEF ServerResume
  <2>3. /\ srvSeq'[s] = srvSeq[s] + 1
        /\ \A u \in Session : u # s => srvSeq'[u] = srvSeq[u]
    BY <2>1, <2>2 DEF TypeOK
  <2>4. /\ Len(inbox') = n
        /\ \A i \in 1..n : inbox'[i] = replay[i]
    <3>1. inbox = <<>>
      BY <1>1, InboxFacts
    <3>2. replay \in Seq({replay[i] : i \in 1..n}) /\ Len(replay) = n
      <4>1. replay \in [1..n -> {replay[i] : i \in 1..n}]
        OBVIOUS
      <4> HIDE DEF replay, n
      <4> QED BY <2>1, <4>1, SeqDef, LenProperties, SMTT(30)
    <3> HIDE DEF replay, n
    <3>3. inbox' = replay
      BY <2>2, <3>1, <3>2, ConcatEmptySeq
    <3> QED BY <3>2, <3>3
  <2>5. \A i \in 1..Len(inbox') :
          /\ IsDispatch(inbox'[i]) /\ ~IsReady(inbox'[i])
          /\ inbox'[i].op = "Dispatch"
          /\ inbox'[i].ses = s /\ inbox'[i].s = ask.seq + i
    BY <2>4 DEF Dispatch, IsReady, IsDispatch
  <2> HIDE DEF replay
  <2>6. ~StartsSession' /\ Owner' = seqSes /\ Base' = sequence
    BY <1>2, <2>1, <2>4, <2>5 DEF StartsSession, Owner, Base
  <2>7. ConnInv'
    <3>1. link' = "open" /\ peer' = "live" /\ ~Connecting' /\ srvSeq'[s] > 0
      BY <1>1, <1>2, <2>1, <2>2, <2>3 DEF Connecting
    <3> HIDE DEF n, s
    <3> QED BY <2>5, <3>1 DEF ConnInv, Connecting, IsReady, IsDispatch
  <2>8. OwnerInv'
    BY <1>1, <1>2, <2>2, <2>5, <2>6 DEF Inv, OwnerInv
  <2>9. NumberInv'
    <3> SUFFICES ASSUME ~crossed PROVE NumberInv'
      BY <1>2 DEF NumberInv
    <3>1. ask.seq = sequence
      BY <1>1 DEF Inv, NumberInv
    <3>2. srvSeq'[peerSes'] = Base' + Len(inbox')
      <4>1. n = srvSeq[s] + 1 - sequence /\ sequence \in Nat
        BY <1>1, <3>1
      <4> HIDE DEF n, s
      <4> QED BY <2>1, <2>2, <2>3, <2>4, <2>6, <4>1
    <3>3. \A u \in Session : srvSeq'[u] = 0 => srvSeq[u] = 0
      BY <2>1, <2>3
    <3> HIDE DEF n, s
    <3> QED BY <1>2, <2>2, <2>5, <2>6, <3>1, <3>2, <3>3 DEF Inv, NumberInv
  <2>10. ThreadInv'
    BY <1>2 DEF Inv, ThreadInv, Running
  <2>11. NameInv'
    BY <1>1, <1>2, <2>2, <2>4, <2>5, <2>1 DEF Inv, NameInv, Connecting
  <2> QED BY <2>7, <2>8, <2>9, <2>10, <2>11 DEF Inv
<1>4. CASE ~(s \in resumable /\ ask.seq <= srvSeq[s])
  <2> DEFINE m == [op |-> "InvalidSession", d |-> FALSE]
  <2>1. m \in Frame /\ m.op = "InvalidSession"
    BY DEF Frame
  <2>2. inbox' = Append(inbox, m) /\ peer' = "wait" /\ UNCHANGED <<srvSeq, peerSes>>
    BY <1>1, <1>4 DEF ServerResume, Send
  <2>3. Sent(m)
    BY <2>1, <2>2, AppendFacts
  <2> HIDE DEF m, s
  <2> QED BY <1>1, <1>2, <2>1, <2>2, <2>3, NoticeKeeps DEF IsDispatch
<1> QED BY <1>3, <1>4

\* What the server says unasked is a notice.
LEMMA InterruptsKeeps ==
  ASSUME TypeOK, Inv, ServerInterrupts
  PROVE  Inv'
<1>1. /\ link = "open" /\ peer # "gone"
      /\ UNCHANGED <<state, pc, session, caller, link, peerSes, ask, srvSeq, history>>
  BY DEF ServerInterrupts
<1>2. PICK m \in Frame : /\ m.op # "Dispatch"
                         /\ inbox' = Append(inbox, m)
                         /\ \/ peer = "live" /\ peer' = "live" /\ m.op # "Close"
                            \/ peer' = "gone"
  <2>1. CASE /\ peer = "live" /\ UNCHANGED peer
             /\ Send([op |-> "Reconnect"])
    <3>1. [op |-> "Reconnect"] \in Frame
      BY DEF Frame
    <3> WITNESS [op |-> "Reconnect"] \in Frame
    <3> QED BY <1>1, <2>1 DEF Send
  <2>2. ASSUME NEW d \in BOOLEAN, peer = "live", UNCHANGED peer,
               Send([op |-> "InvalidSession", d |-> d])
        PROVE  \E m \in Frame : /\ m.op # "Dispatch"
                                /\ inbox' = Append(inbox, m)
                                /\ peer' = "live" /\ m.op # "Close"
    <3>1. [op |-> "InvalidSession", d |-> d] \in Frame
      BY DEF Frame
    <3> WITNESS [op |-> "InvalidSession", d |-> d] \in Frame
    <3> QED BY <1>1, <2>2 DEF Send
  <2>3. ASSUME NEW c \in CloseCodes, peer' = "gone",
               Send([op |-> "Close", code |-> c])
        PROVE  \E m \in Frame : m.op # "Dispatch" /\ inbox' = Append(inbox, m)
    <3>1. [op |-> "Close", code |-> c] \in Frame
      BY DEF Frame
    <3> WITNESS [op |-> "Close", code |-> c] \in Frame
    <3> QED BY <1>1, <2>3 DEF Send
  <2> QED BY <2>1, <2>2, <2>3 DEF ServerInterrupts
<1>3. Sent(m)
  BY <1>2, AppendFacts
<1>4. Connecting => peer # "live"
  BY DEF Inv, ConnInv
<1>5. /\ peer' \in {"gone", "wait", "live"}
      /\ peer' = "live" => peer = "live"
      /\ Connecting => peer' = "gone"
      /\ m.op = "Close" => peer' = "gone"
      /\ ~IsDispatch(m)
  BY <1>2, <1>4 DEF IsDispatch
<1> QED BY <1>1, <1>3, <1>5, NoticeKeeps

\* So is the close of a connection that never authenticates.
LEMMA AuthTimeoutKeeps ==
  ASSUME TypeOK, Inv, ServerAuthTimeout
  PROVE  Inv'
<1> DEFINE m == [op |-> "Close", code |-> 4009]
<1>1. m \in Frame /\ m.op = "Close"
  BY DEF Frame
<1>2. /\ peer # "gone" /\ peer' = "gone" /\ inbox' = Append(inbox, m)
      /\ UNCHANGED <<state, pc, session, caller, link, peerSes, ask, srvSeq, history>>
  BY DEF ServerAuthTimeout, Send, server
<1> HIDE DEF m
<1>3. Sent(m)
  BY <1>1, <1>2, AppendFacts
<1> QED BY <1>1, <1>2, <1>3, NoticeKeeps DEF IsDispatch

\* A break leaves a prefix of what travelled.
LEMMA LinkBreaksKeeps ==
  ASSUME TypeOK, Inv, LinkBreaks
  PROVE  Inv'
<1> USE DEF session, caller, server, history
<1>1. /\ peer' = "gone"
      /\ UNCHANGED <<state, stop, pc, session, caller, ask, server, history>>
  BY DEF LinkBreaks
<1>2. Len(inbox) \in Nat
  BY InboxFacts
<1>3. PICK k \in 0..Len(inbox) : inbox' = SubSeq(inbox, 1, k)
  BY DEF LinkBreaks
<1>4. /\ Len(inbox') = k /\ k \in Nat /\ k <= Len(inbox)
      /\ \A i \in 1..k : i \in 1..Len(inbox) /\ inbox'[i] = inbox[i]
  BY <1>2, <1>3, PrefixFacts
<1>5. k > 0 => /\ StartsSession' <=> StartsSession
               /\ Owner' = Owner /\ Base' = Base
  BY <1>1, <1>4 DEF StartsSession, Owner, Base, IsReady, IsDispatch
<1>6. ConnInv'
  <2>1. \A i \in 1..k : inbox'[i].op = "Close" => i = k
    BY <1>4 DEF Inv, ConnInv
  <2> QED BY <1>1, <1>4, <2>1 DEF Inv, ConnInv, Connecting, IsReady, IsDispatch
<1>7. OwnerInv'
  BY <1>1, <1>4, <1>5 DEF Inv, OwnerInv, IsDispatch
<1>8. NumberInv'
  <2> SUFFICES ASSUME ~crossed PROVE NumberInv'
    BY <1>1 DEF NumberInv
  <2>1. ASSUME NEW i \in 1..k, AllDispatch(i)'
        PROVE  inbox'[i].s = Base' + i
    <3>1. AllDispatch(i)
      BY <1>4, <2>1 DEF AllDispatch, IsDispatch
    <3>2. k > 0
      BY <1>4
    <3> QED BY <1>4, <1>5, <3>1, <3>2 DEF Inv, NumberInv
  <2>2. StartsSession' => delivered[inbox'[1].ses] = 0
    BY <1>4, <1>5 DEF Inv, NumberInv, StartsSession
  <2> QED BY <1>1, <1>4, <2>1, <2>2 DEF Inv, NumberInv
<1>9. ThreadInv'
  BY <1>1 DEF Inv, ThreadInv, Running
<1>10. NameInv'
  BY <1>1, <1>4 DEF Inv, NameInv, IsDispatch
<1> QED BY <1>6, <1>7, <1>8, <1>9, <1>10 DEF Inv

-----------------------------------------------------------------------------
(* The theorems *)

\* Every step of the listen thread keeps the invariant.
LEMMA ListenKeeps ==
  ASSUME TypeOK, Inv, Listen
  PROVE  Inv'
<1>1. ASSUME \/ ConnectFails \/ ConnectGivesUp \/ HelloOk \/ HelloFails
             \/ AuthDropped \/ LoopExit \/ LoopTurn \/ RecvNothing
      PROVE  Inv'
  <2>1. Local
    BY <1>1 DEF ConnectFails, ConnectGivesUp, HelloOk, HelloFails, AuthDropped,
                LoopExit, LoopTurn, RecvNothing, Local, caller
  <2> QED BY <2>1, LocalKeeps
<1>2. CASE AuthThrows
  <2>1. CASE call = "loop"
    BY <1>2, <2>1, CaughtKeeps DEF AuthThrows
  <2>2. CASE call # "loop"
    BY <1>2, <2>2, LocalKeeps DEF AuthThrows, Local, caller
  <2> QED BY <2>1, <2>2
<1>3. CASE AckTimeout
  BY <1>3, ReconnectKeeps DEF AckTimeout
<1>4. CASE RecvThrows \/ RecvFails
  BY <1>4, CaughtKeeps DEF RecvThrows, RecvFails
<1>5. CASE RecvClose
  <2>1. (Received /\ inbox[1].op = "Close") \/ inbox' # Tail(inbox)
    BY <1>5, TailFacts DEF RecvClose
  <2>2. CASE stop
    BY <1>5, <2>2, LocalKeeps DEF RecvClose, Local, caller
  <2>3. ASSUME NEW r \in BOOLEAN, Reconnect(r, "loop")
        PROVE  Inv'
    BY <2>3, ReconnectKeeps
  <2>4. CASE /\ pc' = "loop" /\ inbox' = Tail(inbox)
             /\ UNCHANGED <<state, session, caller, link, peer, peerSes, ask,
                            server, history>>
    BY <2>1, <2>4, FatalCloseKeeps
  <2> QED BY <1>5, <2>2, <2>3, <2>4 DEF RecvClose
<1>6. CASE RecvReconnect
  BY <1>6, ReconnectKeeps DEF RecvReconnect
<1>7. CASE RecvInvalidSession
  <2>1. Head(inbox) \in Frame
    BY <1>7, HeadTailProperties DEF RecvInvalidSession, TypeOK
  <2>2. Head(inbox).d \in BOOLEAN
    BY <1>7, <2>1, FrameFields DEF RecvInvalidSession
  <2> QED BY <1>7, <2>2, ReconnectKeeps DEF RecvInvalidSession
<1> QED BY <1>1, <1>2, <1>3, <1>4, <1>5, <1>6, <1>7, ConnectOkKeeps,
           AuthSentKeeps, DispatchKeeps DEF Listen

\* The invariant is inductive, given the types.
LEMMA InitInv == Init => Inv
BY EmptySeq DEF Init, Inv, ConnInv, OwnerInv, NumberInv, ThreadInv, NameInv,
   StartsSession, Running, Connecting, Session

LEMMA StepInv ==
  ASSUME TypeOK, Inv, [Next]_vars
  PROVE  Inv'
<1>1. CASE Stop
  BY <1>1, LocalKeeps DEF Stop, Local, caller
<1>2. CASE UNCHANGED vars
  BY <1>2, LocalKeeps DEF vars, Local, caller
<1>3. CASE Gateway
  BY <1>3, IdentifyKeeps, ResumeKeeps, InterruptsKeeps, AuthTimeoutKeeps,
     LinkBreaksKeeps, EventKeeps DEF Gateway
<1> QED BY <1>1, <1>2, <1>3, ListenKeeps, ThreadKeeps DEF Next

\* The inductive invariant holds throughout.
THEOREM ShardInv == Spec => []Inv
<1>1. TypeOK /\ Inv /\ [Next]_vars => Inv'
  BY StepInv
<1> QED BY <1>1, InitInv, ShardTypeOK, PTL DEF Spec

\* No dispatch is skipped or routed twice across breaks, resumes and replays,
\* as long as every Resume named the session of its sequence number.
THEOREM ShardExactlyOnce == Spec => []ExactlyOnce
<1>1. Inv => ExactlyOnce
  BY DEF Inv, NumberInv, ExactlyOnce
<1> QED BY <1>1, ShardInv, PTL

\* A Resume names the session of its sequence number unless a reconnect
\* overtook the thread that stores the session id.
THEOREM ShardResumeMatchesSequence == Spec => []ResumeMatchesSequence
<1>1. Inv => ResumeMatchesSequence
  BY DEF Inv, ThreadInv, ResumeMatchesSequence
<1> QED BY <1>1, ShardInv, PTL

\* The shard is READY only on a connection the server accepted, unless a
\* reconnect overtook the thread that says so.
THEOREM ShardReadyMeansAccepted == Spec => []ReadyMeansAccepted
<1>1. Inv => ReadyMeansAccepted
  BY DEF Inv, ThreadInv, ReadyMeansAccepted
<1> QED BY <1>1, ShardInv, PTL

\* Every Resume names a session.
THEOREM ShardResumeNamesSession == Spec => []ResumeNamesSession
<1>1. Inv => ResumeNamesSession
  BY DEF Inv, NameInv, ResumeNamesSession
<1> QED BY <1>1, ShardInv, PTL
=============================================================================
