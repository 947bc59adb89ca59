----------------------------- MODULE VoiceProofs -----------------------------
(***************************************************************************)
(* What TLAPS proves of VoiceConnection and VoiceSender, for all sizes of  *)
(* the counters and all numbers of servers, frames and packets of silence. *)
(***************************************************************************)
EXTENDS VoiceConnection, FiniteSetTheorems, TLAPS

Servers == 0..MaxServers
Infos == [Kinds -> Servers]
Packet == [item : Nat, seq : Nat, nonce : Nat, ssrc : Servers, key : Servers]
Sending == [packet : Packet, to : Servers, known : Servers]
States == {"DISCONNECTED", "CONNECTED", "READY", "CHANGING_VOICE_SERVER"}
Api == [stop : BOOLEAN, state : States, udpInterrupt : BOOLEAN, silenceSent : BOOLEAN,
        rtpSeq : Nat, pNonce : Nat, ssrc : Servers, dest : Servers, secretKey : Servers]

QueueTypes ==
  api \in Api /\ voiceDataQueue \in Seq(Nat) /\ sendDataQueue \in Seq(Packet) /\ wire \in Seq(Sending)

ThreadTypes ==
  /\ uth \in {"none", "top", "woken", "blocking", "waiting", "send", "prepare", "end"}
  /\ app \in {"free", "connect", "send", "flush", "close"}
  /\ flush \in {"none", "blocking", "waiting", "woken"}
  /\ toSend \in Nat /\ (app = "send" => toSend > 0) /\ frames \in Nat
  /\ lost \subseteq {"uth", "flush"} /\ described \in Servers

ConnectionTypes ==
  /\ task \in Infos \cup {None} /\ voiceinfo \in Infos /\ connectedWith \in Infos \cup {None}
  /\ {bot, dave, voiceServerUpdateFlag, hp, raced, early} \subseteq BOOLEAN
  /\ co \in {"none", "asked", "suspending", "suspended", "body", "done"}
  /\ handler \in [Kinds -> {"idle", "check", "update", "resume", "resuming"}]
  /\ th \in {"none", "loop", "discovery", "identify", "resume", "changing", "end"}
  /\ closer \in [Closers -> {"out", "erase", "join th", "join uth", "silence", "closed"}]
  /\ server \in 1..MaxServers /\ updates \subseteq Kinds
  /\ conn \in Servers

SenderTypes == QueueTypes /\ ThreadTypes

TypeInv == SenderTypes /\ ConnectionTypes

-----------------------------------------------------------------------------
(* The invariants *)

\* Places of a handler: past the check of the task, and with what it said.
Past(place) == place \in {"update", "resume", "resuming"}
Took(place) == place \in {"resume", "resuming"}

\* What is still to be told has not been taken.
ToldInv ==
  /\ co = "none" => updates = {} /\ ~voiceServerUpdateFlag /\ \A k \in Kinds : handler[k] = "idle"
  /\ \A k \in Kinds : handler[k] # "idle" => k \notin updates
  /\ \A k \in Kinds : Past(handler[k]) => updates = {}
  /\ voiceServerUpdateFlag \/ co \in {"body", "done"} => updates = {}
  /\ \A k \in Kinds : task # None /\ task[k] # 0 => k \notin updates

\* Only one handler takes the information, and takes it whole.
TakenInv ==
  /\ (\A k \in Kinds : Past(handler[k])) => raced
  /\ \A k \in Kinds : Took(handler[k]) => raced \/ task \in {Blank, None}
  /\ \A k \in Kinds : handler[k] = "update" => raced \/ task = None \/ Whole(task)
  /\ \A k \in Kinds : Took(handler[k]) => raced \/ Whole(voiceinfo)
  /\ voiceServerUpdateFlag \/ co = "body" => raced \/ Whole(voiceinfo)

\* The handle is there while the coroutine is suspended and until who resumed it is back.
HandleInv ==
  /\ co = "suspended" => hp
  /\ hp /\ co # "suspended" => \E k \in Kinds : handler[k] = "resuming"
  /\ co \in {"asked", "suspending"} /\ voiceServerUpdateFlag => early

ConnectInv == ToldInv /\ TakenInv /\ HandleInv /\ ConnectsOnce

\* Who closes has stopped the connection, and a flush is woken by the UDP
\* thread before that sleeps again.
ForgetInv ==
  /\ \A c \in Closers : closer[c] # "out" => api.stop
  /\ flush \in {"blocking", "waiting"} /\ voiceDataQueue = <<>> /\ uth \in {"blocking", "waiting", "woken"}
       => "flush" \in lost
  /\ NobodyForgotten

\* The packet of the frame i.
Nth(packet, i) ==
  /\ packet.item = i
  /\ packet.seq = (i - 1) % SeqSize
  /\ packet.nonce = (FirstNonce + (i - 1)) % NonceSize

\* Frames become packets in their order, and those in the queue are next.
Counted ==
  /\ \A i \in 1..Len(wire) : Nth(wire[i].packet, i)
  /\ \A i \in 1..Len(sendDataQueue) : Nth(sendDataQueue[i], Len(wire) + i)
  /\ \A i \in 1..Len(voiceDataQueue) : voiceDataQueue[i] = Len(wire) + Len(sendDataQueue) + i
  /\ Len(wire) + Len(sendDataQueue) + Len(voiceDataQueue) <= frames /\ frames <= MaxFrames
  /\ api.rtpSeq = (Len(wire) + Len(sendDataQueue)) % SeqSize
  /\ api.pNonce = (FirstNonce + (Len(wire) + Len(sendDataQueue))) % NonceSize

\* The UDP thread has at most one packet in hand.
HandInv ==
  /\ Len(sendDataQueue) <= 1
  /\ uth = "prepare" => sendDataQueue = <<>>
  /\ uth = "send" => sendDataQueue # <<>>

\* A packet the server could not decrypt.
Stale(i) == wire[i].packet.key # wire[i].known

\* A connection that only connects and is closed: it makes no packet but silence.
Unused ==
  /\ frames = MaxFrames /\ app # "send" /\ voiceDataQueue = <<>> /\ sendDataQueue = <<>>
  /\ uth \notin {"send", "prepare"}
  /\ \A i \in 1..Len(wire) : ~Stale(i)

\* One that is connected: servers come in order, and whoever closes has joined
\* the threads before the silence,
Settled ==
  /\ co = "done" /\ updates = {} /\ \A k \in Kinds : handler[k] = "idle"
  /\ voiceinfo.server <= server /\ conn <= voiceinfo.server /\ described <= conn
  /\ \A c \in Closers : closer[c] \in {"join uth", "silence"} => th = "none"
  /\ \A c \in Closers : closer[c] = "silence" => uth = "none"
  /\ api.silenceSent => th = "none" /\ uth = "none"

\* and the packet in hand is the only one whose key may be old.
Speaks ==
  /\ app = "send" => frames + toSend <= MaxFrames
  /\ ~api.silenceSent => frames = Len(wire) + Len(sendDataQueue) + Len(voiceDataQueue)
  /\ \A i \in 1..Len(wire) : wire[i].known <= described
  /\ \A i \in 1..Len(wire) : Stale(i) /\ wire[i].known = described =>
       \A j \in 1..Len(sendDataQueue) : sendDataQueue[j].key = described

CountInv == ~api.silenceSent => Counted

KeyInv ==
  /\ api.secretKey = described
  /\ \A i, j \in 1..Len(wire) : Stale(i) /\ Stale(j) /\ wire[i].known = wire[j].known => i = j

SendInv == HandInv /\ CountInv /\ KeyInv /\ (Unused \/ (Settled /\ Speaks))

-----------------------------------------------------------------------------
(* Types *)

\* A packet, and the counters after some.
LEMMA Frames ==
  ASSUME NEW info \in Api, NEW item \in Nat, NEW n \in Nat
  PROVE  /\ FrameRtp(item, info) \in Packet
         /\ Framed(info, n) \in Api
         /\ Framed(info, n).rtpSeq = (info.rtpSeq + n) % SeqSize
         /\ Framed(info, n).pNonce = (info.pNonce + n) % NonceSize
         /\ Framed(info, n).secretKey = info.secretKey
         /\ Framed(info, n).stop = info.stop
         /\ Framed(info, n).silenceSent = info.silenceSent
<1>1. /\ info.rtpSeq \in Nat /\ info.pNonce \in Nat /\ info.ssrc \in Servers /\ info.secretKey \in Servers
      /\ SeqSize \in Nat \ {0} /\ NonceSize \in Nat \ {0}
  BY SenderAssumption DEF Api
<1>2. FrameRtp(item, info) \in Packet
  BY <1>1 DEF FrameRtp, Packet
<1>3. (info.rtpSeq + n) % SeqSize \in Nat /\ (info.pNonce + n) % NonceSize \in Nat
  BY <1>1
<1> QED BY <1>2, <1>3 DEF Framed, Api

\* The front of the queue becomes the packet in hand.
LEMMA FrontTypes ==
  ASSUME SenderTypes, voiceDataQueue # <<>>, FrameFront
  PROVE  /\ api' \in Api /\ voiceDataQueue' \in Seq(Nat) /\ sendDataQueue' \in Seq(Packet)
<1>1. api \in Api /\ Head(voiceDataQueue) \in Nat /\ Tail(voiceDataQueue) \in Seq(Nat)
  BY DEF SenderTypes, QueueTypes, ThreadTypes
<1>2. FrameRtp(Head(voiceDataQueue), api) \in Packet /\ Framed(api, 1) \in Api
  BY <1>1, Frames
<1> QED BY <1>1, <1>2 DEF FrameFront

\* What goes out with the packets of silence.
LEMMA SilenceTypes ==
  ASSUME SenderTypes, SendSilence
  PROVE  api' \in Api /\ sendDataQueue' \in Seq(Packet) /\ wire' \in Seq(Sending)
<1> DEFINE begin == IF sendDataQueue = <<>> THEN api ELSE [api EXCEPT !.rtpSeq = Head(sendDataQueue).seq]
           quiet == [i \in 1..Silence |-> Sent(FrameRtp(0, Framed(begin, i - 1)))]
<1>1. api \in Api /\ wire \in Seq(Sending) /\ Silence \in Nat /\ described \in Servers /\ api.dest \in Servers
  BY SenderAssumption DEF SenderTypes, QueueTypes, ThreadTypes, Api
<1>2. begin \in Api
  <2>1. CASE sendDataQueue # <<>>
    <3>1. Head(sendDataQueue) \in Packet
      BY <2>1 DEF SenderTypes, QueueTypes, ThreadTypes
    <3>2. Head(sendDataQueue).seq \in Nat
      BY <3>1 DEF Packet
    <3> QED BY <1>1, <3>2 DEF Api
  <2> QED BY <1>1, <2>1
<1> HIDE DEF begin
<1>3. ASSUME NEW i \in 1..Silence
      PROVE  Sent(FrameRtp(0, Framed(begin, i - 1))) \in Sending
  <2>1. Framed(begin, i - 1) \in Api
    BY <1>1, <1>2, Frames
  <2>2. FrameRtp(0, Framed(begin, i - 1)) \in Packet
    BY <2>1, Frames
  <2> QED BY <1>1, <2>2 DEF Sent, Sending
<1>4. quiet \in Seq(Sending)
  BY <1>1, <1>3
<1>5. Framed(begin, Silence) \in Api
  BY <1>1, <1>2, Frames
<1>6. [Framed(begin, Silence) EXCEPT !.silenceSent = TRUE] \in Api
  BY <1>5 DEF Api
<1> HIDE DEF quiet
<1>7. \/ UNCHANGED <<api, sendDataQueue, wire>>
      \/ /\ sendDataQueue' = <<>> /\ wire' = wire \o quiet
         /\ api' = [Framed(begin, Silence) EXCEPT !.silenceSent = TRUE]
  BY DEF SendSilence, SilenceFrom, begin, quiet
<1>8. CASE UNCHANGED <<api, sendDataQueue, wire>>
  BY <1>8 DEF SenderTypes, QueueTypes
<1>9. CASE sendDataQueue' = <<>> /\ wire' = wire \o quiet
           /\ api' = [Framed(begin, Silence) EXCEPT !.silenceSent = TRUE]
  BY <1>1, <1>4, <1>6, <1>9
<1> QED BY <1>7, <1>8, <1>9

\* The application and the UDP thread keep the types.
LEMMA SenderStepTypes ==
  ASSUME TypeInv, HandInv,
         (\E n \in 1..MaxFrames : SendPcmData(n)) \/ AppReturns \/ UdpLoop, UNCHANGED connectionVars
  PROVE  TypeInv'
<1>1. ConnectionTypes'
  BY DEF TypeInv, ConnectionTypes, connectionVars, infoVars, discordVars, socketVars, historyVars
<1>2. SenderTypes
  BY DEF TypeInv
<1>3. ASSUME NEW n \in 1..MaxFrames, SendPcmData(n)
      PROVE  SenderTypes'
  <2>1. QueueTypes'
    BY <1>2, <1>3 DEF SenderTypes, QueueTypes, SendPcmData
  <2>2. ThreadTypes'
    BY <1>2, <1>3 DEF SenderTypes, ThreadTypes, SendPcmData
  <2> QED BY <2>1, <2>2 DEF SenderTypes
<1>4. CASE SendOpusData
  <2>1. QueueTypes'
    <3>1. voiceDataQueue' = voiceDataQueue \/ voiceDataQueue' = Append(voiceDataQueue, frames + 1)
      BY <1>4 DEF SendOpusData
    <3>2. voiceDataQueue' \in Seq(Nat)
      <4>1. voiceDataQueue \in Seq(Nat) /\ frames + 1 \in Nat
        BY <1>2 DEF SenderTypes, QueueTypes, ThreadTypes
      <4> QED BY <3>1, <4>1
    <3> QED BY <1>2, <1>4, <3>2 DEF SenderTypes, QueueTypes, SendOpusData
  <2>2. ThreadTypes'
    BY <1>2, <1>4 DEF SenderTypes, ThreadTypes, SendOpusData, Woken
  <2> QED BY <1>1, <2>1, <2>2 DEF SenderTypes, TypeInv
<1>5. CASE Flush
  <2>1. QueueTypes'
    BY <1>2, <1>5 DEF SenderTypes, QueueTypes, Flush
  <2>2. ThreadTypes'
    BY <1>2, <1>5 DEF SenderTypes, ThreadTypes, Flush
  <2> QED BY <1>1, <2>1, <2>2 DEF SenderTypes, TypeInv
<1>6. CASE FlushBlocks
  <2>1. QueueTypes'
    BY <1>2, <1>6 DEF SenderTypes, QueueTypes, FlushBlocks
  <2>2. ThreadTypes'
    BY <1>2, <1>6 DEF SenderTypes, ThreadTypes, FlushBlocks
  <2> QED BY <1>1, <2>1, <2>2 DEF SenderTypes, TypeInv
<1>7. CASE UdpTake
  <2>1. QueueTypes'
    <3>1. CASE FrameFront /\ voiceDataQueue # <<>>
      BY <1>2, <1>7, <3>1, FrontTypes DEF SenderTypes, QueueTypes, UdpTake
    <3>2. CASE UNCHANGED <<api, voiceDataQueue, sendDataQueue>>
      BY <1>2, <1>7, <3>2 DEF SenderTypes, QueueTypes, UdpTake
    <3> QED BY <1>7, <3>1, <3>2 DEF UdpTake, SomethingToSend
  <2>2. ThreadTypes'
    BY <1>2, <1>7 DEF SenderTypes, ThreadTypes, UdpTake, Woken, Missed
  <2> QED BY <1>1, <2>1, <2>2 DEF SenderTypes, TypeInv
<1>8. CASE UdpBlocks
  <2>1. QueueTypes'
    BY <1>2, <1>8 DEF SenderTypes, QueueTypes, UdpBlocks
  <2>2. ThreadTypes'
    BY <1>2, <1>8 DEF SenderTypes, ThreadTypes, UdpBlocks
  <2> QED BY <1>1, <2>1, <2>2 DEF SenderTypes, TypeInv
<1>9. CASE UdpSend
  <2>1. QueueTypes'
    <3>1. sendDataQueue # <<>>
      BY <1>9 DEF UdpSend, HandInv
    <3>2. api \in Api /\ Head(sendDataQueue) \in Packet /\ described \in Servers /\ wire \in Seq(Sending)
      BY <1>2, <3>1 DEF SenderTypes, QueueTypes, ThreadTypes
    <3>3. Sent(Head(sendDataQueue)) \in Sending
      BY <3>2 DEF Api, Sent, Sending
    <3>4. wire' = Append(wire, Sent(Head(sendDataQueue))) /\ sendDataQueue' = <<>>
      BY <1>9 DEF UdpSend
    <3>5. wire' \in Seq(Sending) /\ sendDataQueue' \in Seq(Packet)
      BY <3>2, <3>3, <3>4
    <3> QED BY <1>2, <1>9, <3>5 DEF SenderTypes, QueueTypes, UdpSend
  <2>2. ThreadTypes'
    BY <1>2, <1>9 DEF SenderTypes, ThreadTypes, UdpSend
  <2> QED BY <1>1, <2>1, <2>2 DEF SenderTypes, TypeInv
<1>10. CASE UdpPrepare
  <2>1. QueueTypes'
    <3>1. CASE FrameFront /\ voiceDataQueue # <<>>
      BY <1>2, <1>10, <3>1, FrontTypes DEF SenderTypes, QueueTypes, UdpPrepare
    <3>2. CASE UNCHANGED <<api, voiceDataQueue, sendDataQueue>>
      BY <1>2, <1>10, <3>2 DEF SenderTypes, QueueTypes, UdpPrepare
    <3> QED BY <1>10, <3>1, <3>2 DEF UdpPrepare
  <2>2. ThreadTypes'
    BY <1>2, <1>10 DEF SenderTypes, ThreadTypes, UdpPrepare
  <2> QED BY <1>1, <2>1, <2>2 DEF SenderTypes, TypeInv
<1> QED BY <1>1, <1>3, <1>4, <1>5, <1>6, <1>7, <1>8, <1>9, <1>10 DEF TypeInv, AppReturns, UdpLoop

\* Where to connect.
LEMMA InfoTypes ==
  /\ Blank \in Infos /\ {"state", "server"} \subseteq Kinds
  /\ \A info \in Infos, k \in Kinds, s \in Servers :
       [info EXCEPT ![k] = s] \in Infos /\ [info EXCEPT !.server = s] \in Infos /\ info.server \in Servers
  /\ \A s \in Servers : [state |-> 1, server |-> s] \in Infos
BY ConnectionAssumption DEF Blank, Infos, Kinds, Servers

\* The coroutine and the move to another server keeps the types.
LEMMA ConnectStepTypes ==
  ASSUME TypeInv, Running,
         Connect \/ AwaitReady \/ AwaitSuspend \/ ConnectBody \/ Move
  PROVE  TypeInv'
<1>1. /\ QueueTypes /\ ThreadTypes /\ ConnectionTypes /\ MaxServers \in Nat \ {0}
      /\ api \in Api
  BY ConnectionAssumption DEF TypeInv, SenderTypes, QueueTypes
<1>2. CASE Connect
  <2>1. api' \in Api
    BY <1>1, <1>2 DEF ConnectionTypes, Api, States, Servers, Connect, senderVars
  <2>2. QueueTypes'
    BY <1>1, <1>2, <2>1 DEF QueueTypes, Connect, senderVars
  <2>3. ThreadTypes'
    BY <1>1, <1>2 DEF ThreadTypes, ConnectionTypes, Connect, senderVars
  <2>4. ConnectionTypes'
    BY <1>1, <1>2, InfoTypes DEF ConnectionTypes, Servers, Connect, infoVars, discordVars, socketVars,
       historyVars
  <2> QED BY <2>2, <2>3, <2>4 DEF TypeInv, SenderTypes
<1>3. CASE AwaitReady
  <2>1. api' \in Api
    BY <1>1, <1>3 DEF ConnectionTypes, Api, States, Servers, AwaitReady, senderVars
  <2>2. QueueTypes'
    BY <1>1, <1>3, <2>1 DEF QueueTypes, AwaitReady, senderVars
  <2>3. ThreadTypes'
    BY <1>1, <1>3 DEF ThreadTypes, ConnectionTypes, AwaitReady, senderVars
  <2>4. ConnectionTypes'
    BY <1>1, <1>3, InfoTypes DEF ConnectionTypes, Servers, AwaitReady, infoVars, discordVars, socketVars,
       historyVars
  <2> QED BY <2>2, <2>3, <2>4 DEF TypeInv, SenderTypes
<1>4. CASE AwaitSuspend
  <2>1. api' \in Api
    BY <1>1, <1>4 DEF ConnectionTypes, Api, States, Servers, AwaitSuspend, senderVars
  <2>2. QueueTypes'
    BY <1>1, <1>4, <2>1 DEF QueueTypes, AwaitSuspend, senderVars
  <2>3. ThreadTypes'
    BY <1>1, <1>4 DEF ThreadTypes, ConnectionTypes, AwaitSuspend, senderVars
  <2>4. ConnectionTypes'
    BY <1>1, <1>4, InfoTypes DEF ConnectionTypes, Servers, AwaitSuspend, infoVars, discordVars, socketVars,
       historyVars
  <2> QED BY <2>2, <2>3, <2>4 DEF TypeInv, SenderTypes
<1>5. CASE ConnectBody
  <2>1. api' \in Api
    BY <1>1, <1>5 DEF ConnectionTypes, Api, States, Servers, ConnectBody, NoHello, senderVars
  <2>2. QueueTypes'
    BY <1>1, <1>5, <2>1 DEF QueueTypes, ConnectBody, NoHello, senderVars
  <2>3. ThreadTypes'
    BY <1>1, <1>5 DEF ThreadTypes, ConnectionTypes, ConnectBody, NoHello, senderVars
  <2>5. voiceinfo \in Infos /\ voiceinfo.server \in Servers
    BY <1>1, InfoTypes DEF ConnectionTypes
  <2>4. ConnectionTypes'
    BY <1>1, <1>5, <2>5 DEF ConnectionTypes, Servers, ConnectBody, NoHello, infoVars, discordVars,
       socketVars, historyVars
  <2> QED BY <2>2, <2>3, <2>4 DEF TypeInv, SenderTypes
<1>6. CASE Move
  <2>1. api' \in Api
    BY <1>1, <1>6 DEF ConnectionTypes, Api, States, Servers, Move, senderVars
  <2>2. QueueTypes'
    BY <1>1, <1>6, <2>1 DEF QueueTypes, Move, senderVars
  <2>3. ThreadTypes'
    BY <1>1, <1>6 DEF ThreadTypes, ConnectionTypes, Move, senderVars
  <2>5. server' \in 1..MaxServers /\ task' \in Infos /\ voiceinfo' \in Infos
    <3>1. /\ server' = server + 1 /\ server' \in 1..MaxServers /\ server' \in Servers
          /\ task \in Infos /\ voiceinfo \in Infos
      <4>1. server \in 1..MaxServers /\ voiceinfo \in Infos /\ task = Blank
        BY <1>1, <1>6 DEF Move, ConnectionTypes
      <4>2. server' = server + 1 /\ server < MaxServers
        BY <1>6 DEF Move
      <4> QED BY <1>1, <4>1, <4>2, InfoTypes DEF Servers
    <3>2. (task' = [task EXCEPT !.server = server'] /\ voiceinfo' = voiceinfo)
          \/ (voiceinfo' = [state |-> 1, server |-> server'] /\ task' = task)
      BY <1>6 DEF Move, infoVars
    <3>3. [task EXCEPT !.server = server'] \in Infos /\ [state |-> 1, server |-> server'] \in Infos
      BY <3>1, InfoTypes
    <3> QED BY <3>1, <3>2, <3>3
  <2>4. ConnectionTypes'
    BY <1>1, <1>6, <2>5 DEF ConnectionTypes, Servers, Move, infoVars, discordVars, socketVars, historyVars
  <2> QED BY <2>2, <2>3, <2>4 DEF TypeInv, SenderTypes
<1> QED BY <1>2, <1>3, <1>4, <1>5, <1>6

\* A dispatch handler keeps the types.
LEMMA HandlerStepTypes ==
  ASSUME TypeInv, NEW k \in Kinds, Running,
         SetInfo(k) \/ CheckReady(k) \/ TakeInfo(k) \/ Resume(k) \/ Resumed(k)
  PROVE  TypeInv'
<1>1. /\ QueueTypes /\ ThreadTypes /\ ConnectionTypes /\ MaxServers \in Nat \ {0}
      /\ api \in Api
  BY ConnectionAssumption DEF TypeInv, SenderTypes, QueueTypes
<1>2. CASE SetInfo(k)
  <2>1. api' \in Api
    BY <1>1, <1>2 DEF ConnectionTypes, Api, States, Servers, SetInfo, UnchangedByHandlers, senderVars
  <2>2. QueueTypes'
    BY <1>1, <1>2, <2>1 DEF QueueTypes, SetInfo, UnchangedByHandlers, senderVars
  <2>3. ThreadTypes'
    BY <1>1, <1>2 DEF ThreadTypes, ConnectionTypes, SetInfo, UnchangedByHandlers, senderVars
  <2>5. task' \in Infos \cup {None}
    <3>1. CASE task = None
      BY <1>2, <3>1 DEF SetInfo
    <3>2. CASE task # None
      <4>1. task \in Infos /\ k \in Kinds /\ 1 \in Servers /\ server \in Servers
        <5>1. task \in Infos \cup {None} /\ server \in 1..MaxServers
          BY <1>1 DEF ConnectionTypes
        <5> QED BY <1>1, <3>2, <5>1 DEF Servers
      <4>2. [task EXCEPT ![k] = 1] \in Infos /\ [task EXCEPT ![k] = server] \in Infos
        BY <4>1, InfoTypes
      <4>3. task' = [task EXCEPT ![k] = 1] \/ task' = [task EXCEPT ![k] = server]
        BY <1>2, <3>2 DEF SetInfo
      <4> QED BY <4>2, <4>3
    <3> QED BY <3>1, <3>2
  <2>4. ConnectionTypes'
    BY <1>1, <1>2, <2>5 DEF ConnectionTypes, Servers, SetInfo, UnchangedByHandlers, infoVars, discordVars,
       socketVars, historyVars
  <2> QED BY <2>2, <2>3, <2>4 DEF TypeInv, SenderTypes
<1>3. CASE CheckReady(k)
  <2>1. api' \in Api
    BY <1>1, <1>3 DEF ConnectionTypes, Api, States, Servers, CheckReady, UnchangedByHandlers, senderVars
  <2>2. QueueTypes'
    BY <1>1, <1>3, <2>1 DEF QueueTypes, CheckReady, UnchangedByHandlers, senderVars
  <2>3. ThreadTypes'
    BY <1>1, <1>3 DEF ThreadTypes, ConnectionTypes, CheckReady, UnchangedByHandlers, senderVars
  <2>4. ConnectionTypes'
    BY <1>1, <1>3, InfoTypes DEF ConnectionTypes, Servers, CheckReady, UnchangedByHandlers, infoVars,
       discordVars, socketVars, historyVars
  <2> QED BY <2>2, <2>3, <2>4 DEF TypeInv, SenderTypes
<1>4. CASE TakeInfo(k)
  <2>1. api' \in Api
    BY <1>1, <1>4 DEF ConnectionTypes, Api, States, Servers, TakeInfo, UnchangedByHandlers, senderVars
  <2>2. QueueTypes'
    BY <1>1, <1>4, <2>1 DEF QueueTypes, TakeInfo, UnchangedByHandlers, senderVars
  <2>3. ThreadTypes'
    BY <1>1, <1>4 DEF ThreadTypes, ConnectionTypes, TakeInfo, UnchangedByHandlers, senderVars
  <2>4. ConnectionTypes'
    BY <1>1, <1>4, InfoTypes DEF ConnectionTypes, Servers, TakeInfo, UnchangedByHandlers, infoVars,
       discordVars, socketVars, historyVars
  <2> QED BY <2>2, <2>3, <2>4 DEF TypeInv, SenderTypes
<1>5. CASE Resume(k)
  <2>1. api' \in Api
    BY <1>1, <1>5 DEF ConnectionTypes, Api, States, Servers, Resume, UnchangedByHandlers, senderVars
  <2>2. QueueTypes'
    BY <1>1, <1>5, <2>1 DEF QueueTypes, Resume, UnchangedByHandlers, senderVars
  <2>3. ThreadTypes'
    BY <1>1, <1>5 DEF ThreadTypes, ConnectionTypes, Resume, UnchangedByHandlers, senderVars
  <2>4. ConnectionTypes'
    BY <1>1, <1>5, InfoTypes DEF ConnectionTypes, Servers, Resume, UnchangedByHandlers, infoVars,
       discordVars, socketVars, historyVars
  <2> QED BY <2>2, <2>3, <2>4 DEF TypeInv, SenderTypes
<1>6. CASE Resumed(k)
  <2>1. api' \in Api
    BY <1>1, <1>6 DEF ConnectionTypes, Api, States, Servers, Resumed, UnchangedByHandlers, senderVars
  <2>2. QueueTypes'
    BY <1>1, <1>6, <2>1 DEF QueueTypes, Resumed, UnchangedByHandlers, senderVars
  <2>3. ThreadTypes'
    BY <1>1, <1>6 DEF ThreadTypes, ConnectionTypes, Resumed, UnchangedByHandlers, senderVars
  <2>4. ConnectionTypes'
    BY <1>1, <1>6, InfoTypes DEF ConnectionTypes, Servers, Resumed, UnchangedByHandlers, infoVars,
       discordVars, socketVars, historyVars
  <2> QED BY <2>2, <2>3, <2>4 DEF TypeInv, SenderTypes
<1> QED BY <1>2, <1>3, <1>4, <1>5, <1>6

\* The listen thread keeps the types.
LEMMA ListenStepTypes ==
  ASSUME TypeInv, Running,
         ListenReady \/ IpDiscovery \/ HandleSessionDescription \/ ListenClosed \/ ListenResumes
         \/ ListenChanged \/ ListenReconnect \/ ListenEnds
  PROVE  TypeInv'
<1>1. /\ QueueTypes /\ ThreadTypes /\ ConnectionTypes /\ MaxServers \in Nat \ {0}
      /\ api \in Api
  BY ConnectionAssumption DEF TypeInv, SenderTypes, QueueTypes
<1>2. CASE ListenReady
  <2>1. api' \in Api
    BY <1>1, <1>2 DEF ConnectionTypes, Api, States, Servers, ListenReady, Gets, Listens, Quiet,
       UnchangedByListen, senderVars
  <2>2. QueueTypes'
    BY <1>1, <1>2, <2>1 DEF QueueTypes, ListenReady, Gets, Listens, Quiet, UnchangedByListen, senderVars
  <2>3. ThreadTypes'
    BY <1>1, <1>2 DEF ThreadTypes, ConnectionTypes, ListenReady, Gets, Listens, Quiet, UnchangedByListen,
       senderVars
  <2>4. ConnectionTypes'
    BY <1>1, <1>2, InfoTypes DEF ConnectionTypes, Servers, ListenReady, Gets, Listens, Quiet,
       UnchangedByListen, infoVars, discordVars, socketVars, historyVars
  <2> QED BY <2>2, <2>3, <2>4 DEF TypeInv, SenderTypes
<1>3. CASE IpDiscovery
  <2>1. api' \in Api
    BY ZenonT(60), <1>1, <1>3 DEF ConnectionTypes, Api, States, Servers, IpDiscovery, Quiet, UnchangedByListen,
       NotifyUdp, Woken, Missed, senderVars
  <2>2. QueueTypes'
    BY <1>1, <1>3, <2>1 DEF QueueTypes, IpDiscovery, Quiet, UnchangedByListen, NotifyUdp, Woken, Missed,
       senderVars
  <2>3. ThreadTypes'
    BY <1>1, <1>3 DEF ThreadTypes, ConnectionTypes, IpDiscovery, Quiet, UnchangedByListen, NotifyUdp,
       Woken, Missed, senderVars
  <2>4. ConnectionTypes'
    BY <1>1, <1>3, InfoTypes DEF ConnectionTypes, Servers, IpDiscovery, Quiet, UnchangedByListen,
       NotifyUdp, Woken, Missed, infoVars, discordVars, socketVars, historyVars
  <2> QED BY <2>2, <2>3, <2>4 DEF TypeInv, SenderTypes
<1>4. CASE HandleSessionDescription
  <2>1. api' \in Api
    BY <1>1, <1>4 DEF ConnectionTypes, Api, States, Servers, HandleSessionDescription, Gets, Listens,
       Quiet, UnchangedByListen, senderVars
  <2>2. QueueTypes'
    BY <1>1, <1>4, <2>1 DEF QueueTypes, HandleSessionDescription, Gets, Listens, Quiet, UnchangedByListen,
       senderVars
  <2>3. ThreadTypes'
    BY <1>1, <1>4 DEF ThreadTypes, ConnectionTypes, HandleSessionDescription, Gets, Listens, Quiet,
       UnchangedByListen, senderVars
  <2>4. ConnectionTypes'
    BY <1>1, <1>4, InfoTypes DEF ConnectionTypes, Servers, HandleSessionDescription, Gets, Listens, Quiet,
       UnchangedByListen, infoVars, discordVars, socketVars, historyVars
  <2> QED BY <2>2, <2>3, <2>4 DEF TypeInv, SenderTypes
<1>5. CASE ListenClosed
  <2>1. api' \in Api
    BY ZenonT(60), <1>1, <1>5 DEF ConnectionTypes, Api, States, Servers, ListenClosed, Listens, Fails, Quiet,
       UnchangedByListen, NotifyFlush, Woken, Missed, senderVars
  <2>2. QueueTypes'
    BY <1>1, <1>5, <2>1 DEF QueueTypes, ListenClosed, Listens, Fails, Quiet, UnchangedByListen,
       NotifyFlush, Woken, Missed, senderVars
  <2>3. ThreadTypes'
    BY <1>1, <1>5 DEF ThreadTypes, ConnectionTypes, ListenClosed, Listens, Fails, Quiet, UnchangedByListen,
       NotifyFlush, Woken, Missed, senderVars
  <2>4. ConnectionTypes'
    BY <1>1, <1>5, InfoTypes DEF ConnectionTypes, Servers, ListenClosed, Listens, Fails, Quiet,
       UnchangedByListen, NotifyFlush, Woken, Missed, infoVars, discordVars, socketVars, historyVars
  <2> QED BY <2>2, <2>3, <2>4 DEF TypeInv, SenderTypes
<1>6. CASE ListenResumes
  <2>1. api' \in Api
    BY <1>1, <1>6 DEF ConnectionTypes, Api, States, Servers, ListenResumes, Listens, Fails, Quiet,
       UnchangedByListen, senderVars
  <2>2. QueueTypes'
    BY <1>1, <1>6, <2>1 DEF QueueTypes, ListenResumes, Listens, Fails, Quiet, UnchangedByListen, senderVars
  <2>3. ThreadTypes'
    BY <1>1, <1>6 DEF ThreadTypes, ConnectionTypes, ListenResumes, Listens, Fails, Quiet,
       UnchangedByListen, senderVars
  <2>4. ConnectionTypes'
    BY <1>1, <1>6, InfoTypes DEF ConnectionTypes, Servers, ListenResumes, Listens, Fails, Quiet,
       UnchangedByListen, infoVars, discordVars, socketVars, historyVars
  <2> QED BY <2>2, <2>3, <2>4 DEF TypeInv, SenderTypes
<1>7. CASE ListenChanged
  <2>1. api' \in Api
    BY <1>1, <1>7 DEF ConnectionTypes, Api, States, Servers, ListenChanged, Quiet, UnchangedByListen,
       senderVars
  <2>2. QueueTypes'
    BY <1>1, <1>7, <2>1 DEF QueueTypes, ListenChanged, Quiet, UnchangedByListen, senderVars
  <2>3. ThreadTypes'
    BY <1>1, <1>7 DEF ThreadTypes, ConnectionTypes, ListenChanged, Quiet, UnchangedByListen, senderVars
  <2>4. ConnectionTypes'
    BY <1>1, <1>7, InfoTypes DEF ConnectionTypes, Servers, ListenChanged, Quiet, UnchangedByListen,
       infoVars, discordVars, socketVars, historyVars
  <2> QED BY <2>2, <2>3, <2>4 DEF TypeInv, SenderTypes
<1>8. CASE ListenReconnect
  <2>1. api' \in Api
    BY <1>1, <1>8 DEF ConnectionTypes, Api, States, Servers, ListenReconnect, NoHello, Quiet,
       UnchangedByListen, senderVars
  <2>2. QueueTypes'
    BY <1>1, <1>8, <2>1 DEF QueueTypes, ListenReconnect, NoHello, Quiet, UnchangedByListen, senderVars
  <2>3. ThreadTypes'
    BY <1>1, <1>8 DEF ThreadTypes, ConnectionTypes, ListenReconnect, NoHello, Quiet, UnchangedByListen,
       senderVars
  <2>5. voiceinfo.server \in Servers
    BY <1>1, InfoTypes DEF ConnectionTypes
  <2>4. ConnectionTypes'
    BY <1>1, <1>8, <2>5 DEF ConnectionTypes, Servers, ListenReconnect, NoHello, Quiet, UnchangedByListen,
       infoVars, discordVars, socketVars, historyVars
  <2> QED BY <2>2, <2>3, <2>4 DEF TypeInv, SenderTypes
<1>9. CASE ListenEnds
  <2>1. api' \in Api
    BY <1>1, <1>9 DEF ConnectionTypes, Api, States, Servers, ListenEnds, Quiet, UnchangedByListen,
       NotifyFlush, Woken, Missed, senderVars
  <2>2. QueueTypes'
    BY <1>1, <1>9, <2>1 DEF QueueTypes, ListenEnds, Quiet, UnchangedByListen, NotifyFlush, Woken, Missed,
       senderVars
  <2>3. ThreadTypes'
    BY <1>1, <1>9 DEF ThreadTypes, ConnectionTypes, ListenEnds, Quiet, UnchangedByListen, NotifyFlush,
       Woken, Missed, senderVars
  <2>4. ConnectionTypes'
    BY <1>1, <1>9, InfoTypes DEF ConnectionTypes, Servers, ListenEnds, Quiet, UnchangedByListen,
       NotifyFlush, Woken, Missed, infoVars, discordVars, socketVars, historyVars
  <2> QED BY <2>2, <2>3, <2>4 DEF TypeInv, SenderTypes
<1> QED BY <1>2, <1>3, <1>4, <1>5, <1>6, <1>7, <1>8, <1>9

\* Who closes keeps the types.
LEMMA CloseStepTypes ==
  ASSUME TypeInv, NEW c \in Closers, Running,
         CloseStops(c) \/ CloseNotifies(c) \/ CloseJoinsListen(c) \/ CloseJoinsUdp(c)
  PROVE  TypeInv'
<1>1. /\ QueueTypes /\ ThreadTypes /\ ConnectionTypes /\ MaxServers \in Nat \ {0}
      /\ api \in Api
  BY ConnectionAssumption DEF TypeInv, SenderTypes, QueueTypes
<1>2. CASE CloseStops(c)
  <2>1. api' \in Api
    BY <1>1, <1>2 DEF ConnectionTypes, Api, States, Servers, CloseStops, UnchangedByClose, senderVars
  <2>2. QueueTypes'
    BY <1>1, <1>2, <2>1 DEF QueueTypes, CloseStops, UnchangedByClose, senderVars
  <2>3. ThreadTypes'
    BY <1>1, <1>2 DEF ThreadTypes, ConnectionTypes, CloseStops, UnchangedByClose, senderVars
  <2>4. ConnectionTypes'
    BY <1>1, <1>2, InfoTypes DEF ConnectionTypes, Servers, CloseStops, UnchangedByClose, infoVars,
       discordVars, socketVars, historyVars
  <2> QED BY <2>2, <2>3, <2>4 DEF TypeInv, SenderTypes
<1>3. CASE CloseNotifies(c)
  <2>1. api' \in Api
    BY <1>1, <1>3 DEF ConnectionTypes, Api, States, Servers, CloseNotifies, At, UnchangedByClose, Woken,
       Missed, senderVars
  <2>2. QueueTypes'
    BY <1>1, <1>3, <2>1 DEF QueueTypes, CloseNotifies, At, UnchangedByClose, Woken, Missed, senderVars
  <2>3. ThreadTypes'
    BY <1>1, <1>3 DEF ThreadTypes, ConnectionTypes, CloseNotifies, At, UnchangedByClose, Woken, Missed,
       senderVars
  <2>4. ConnectionTypes'
    BY <1>1, <1>3, InfoTypes DEF ConnectionTypes, Servers, CloseNotifies, At, UnchangedByClose, Woken,
       Missed, infoVars, discordVars, socketVars, historyVars
  <2> QED BY <2>2, <2>3, <2>4 DEF TypeInv, SenderTypes
<1>4. CASE CloseJoinsListen(c)
  <2>1. api' \in Api
    BY <1>1, <1>4 DEF ConnectionTypes, Api, States, Servers, CloseJoinsListen, At, UnchangedByClose,
       senderVars
  <2>2. QueueTypes'
    BY <1>1, <1>4, <2>1 DEF QueueTypes, CloseJoinsListen, At, UnchangedByClose, senderVars
  <2>3. ThreadTypes'
    BY <1>1, <1>4 DEF ThreadTypes, ConnectionTypes, CloseJoinsListen, At, UnchangedByClose, senderVars
  <2>4. ConnectionTypes'
    BY <1>1, <1>4, InfoTypes DEF ConnectionTypes, Servers, CloseJoinsListen, At, UnchangedByClose,
       infoVars, discordVars, socketVars, historyVars
  <2> QED BY <2>2, <2>3, <2>4 DEF TypeInv, SenderTypes
<1>5. CASE CloseJoinsUdp(c)
  <2>1. api' \in Api
    BY <1>1, <1>5 DEF ConnectionTypes, Api, States, Servers, CloseJoinsUdp, At, UnchangedByClose, senderVars
  <2>2. QueueTypes'
    BY <1>1, <1>5, <2>1 DEF QueueTypes, CloseJoinsUdp, At, UnchangedByClose, senderVars
  <2>3. ThreadTypes'
    BY <1>1, <1>5 DEF ThreadTypes, ConnectionTypes, CloseJoinsUdp, At, UnchangedByClose, senderVars
  <2>4. ConnectionTypes'
    BY <1>1, <1>5, InfoTypes DEF ConnectionTypes, Servers, CloseJoinsUdp, At, UnchangedByClose, infoVars,
       discordVars, socketVars, historyVars
  <2> QED BY <2>2, <2>3, <2>4 DEF TypeInv, SenderTypes
<1> QED BY <1>2, <1>3, <1>4, <1>5

\* The end of a close keeps the types.
LEMMA SilenceStepTypes ==
  ASSUME TypeInv, NEW c \in Closers, CloseSendsSilence(c)
  PROVE  TypeInv'
<1>1. QueueTypes /\ ThreadTypes /\ ConnectionTypes /\ SenderTypes
  BY DEF TypeInv, SenderTypes
<1>2. QueueTypes'
  <2>1. api' \in Api /\ sendDataQueue' \in Seq(Packet) /\ wire' \in Seq(Sending)
    <3>1. CASE SendSilence
      BY <1>1, <3>1, SilenceTypes
    <3>2. CASE UNCHANGED <<api, sendDataQueue, wire>>
      BY <1>1, <3>2 DEF QueueTypes
    <3> QED BY <3>1, <3>2 DEF CloseSendsSilence
  <2> QED BY <1>1, <2>1 DEF QueueTypes, CloseSendsSilence, UnchangedByClose
<1>3. ThreadTypes'
  BY <1>1 DEF ThreadTypes, CloseSendsSilence, UnchangedByClose
<1>4. ConnectionTypes'
  BY <1>1 DEF ConnectionTypes, CloseSendsSilence, UnchangedByClose, At, infoVars, discordVars, socketVars,
     historyVars
<1> QED BY <1>2, <1>3, <1>4 DEF TypeInv, SenderTypes

\* Every step keeps the types.
LEMMA StepTypes ==
  ASSUME TypeInv, HandInv, [Next]_vars
  PROVE  TypeInv'
<1>1. CASE UNCHANGED vars
  <2>1. QueueTypes' /\ ThreadTypes'
    BY <1>1 DEF TypeInv, SenderTypes, QueueTypes, ThreadTypes, vars, senderVars
  <2>2. ConnectionTypes'
    BY <1>1 DEF TypeInv, ConnectionTypes, vars, infoVars, discordVars, socketVars, historyVars
  <2> QED BY <2>1, <2>2 DEF TypeInv, SenderTypes
<1>2. CASE Next
  <2>1. Running
    BY <1>2 DEF Next
  <2>2. CASE Connect \/ ConnectStep \/ Move
    BY <2>1, <2>2, ConnectStepTypes DEF ConnectStep
  <2>3. ASSUME NEW k \in Kinds, HandlerStep(k)
        PROVE  TypeInv'
    BY <2>1, <2>3, HandlerStepTypes DEF HandlerStep
  <2>4. CASE ListenReady \/ HandleSessionDescription \/ ListenClosed \/ ListenResumes \/ ListenStep
    BY <2>1, <2>4, ListenStepTypes DEF ListenStep
  <2>5. ASSUME NEW c \in Closers, CloseStops(c) \/ CloseStep(c)
        PROVE  TypeInv'
    BY <2>1, <2>5, CloseStepTypes, SilenceStepTypes DEF CloseStep
  <2>6. CASE ((\E n \in 1..MaxFrames : SendPcmData(n)) \/ AppReturns \/ UdpLoop) /\ UNCHANGED connectionVars
    BY <2>6, SenderStepTypes
  <2> QED BY <1>2, <2>2, <2>3, <2>4, <2>5, <2>6 DEF Next
<1> QED BY <1>1, <1>2

\* And so do the initial states.
LEMMA InitTypes ==
  ASSUME Init
  PROVE  TypeInv
<1>0. Blank \in Infos /\ [k \in Kinds |-> 1] \in Infos /\ MaxServers \in Nat \ {0}
  BY ConnectionAssumption DEF Blank, Infos, Kinds, Servers
<1>1. QueueTypes
  <2>1. api \in Api
    <3>1. FirstNonce \in Nat /\ 0 \in Servers
      BY <1>0, SenderAssumption DEF Servers
    <3>2. CASE New
      BY <3>1, <3>2 DEF New, Api, States
    <3>3. CASE Connected
      BY <3>1, <3>3 DEF Connected, Api, States
    <3> QED BY <3>2, <3>3 DEF Init
  <2> QED BY <2>1 DEF Init, QueueTypes
<1>2. ThreadTypes
  BY <1>0, SenderAssumption DEF Init, New, Connected, ThreadTypes, Servers
<1>3. ConnectionTypes
  <2>1. 0 \in Servers /\ 1 \in Servers /\ 1 \in 1..MaxServers /\ MaxServers \in 1..MaxServers
    BY <1>0 DEF Servers
  <2>2. /\ task \in Infos \cup {None} /\ voiceinfo \in Infos /\ connectedWith \in Infos \cup {None}
        /\ dave \in BOOLEAN /\ co \in {"none", "done"} /\ th \in {"none", "loop"}
        /\ server \in 1..MaxServers /\ conn \in Servers
    <3>1. CASE New
      BY <1>0, <2>1, <3>1 DEF New
    <3>2. CASE Connected
      BY <1>0, <2>1, <3>2 DEF Connected
    <3> QED BY <3>1, <3>2 DEF Init
  <2>3. /\ {bot, voiceServerUpdateFlag, hp, raced, early} \subseteq BOOLEAN /\ updates \subseteq Kinds
        /\ handler \in [Kinds -> {"idle", "check", "update", "resume", "resuming"}]
        /\ closer \in [Closers -> {"out", "erase", "join th", "join uth", "silence", "closed"}]
    BY DEF Init
  <2> QED BY <2>2, <2>3 DEF ConnectionTypes
<1> QED BY <1>1, <1>2, <1>3 DEF TypeInv, SenderTypes

-----------------------------------------------------------------------------
(* Connecting *)

\* What is whole and what is not.
LEMMA WholeIs ==
  /\ ~Whole(Blank) /\ \A k \in Kinds : Blank[k] = 0
  /\ \A s : s # 0 => Whole([state |-> 1, server |-> s])
BY DEF Whole, Blank, Kinds


\* All that the coroutine and the handlers do not do leaves their agreement alone.
LEMMA ConnectKept ==
  ASSUME ConnectInv, task' = task \/ task' = None, voiceServerUpdateFlag' => voiceServerUpdateFlag,
         UNCHANGED <<voiceinfo, hp, co, handler, updates, historyVars>>, died' = died \/ died' # "resumed"
  PROVE  ConnectInv'
<1>1. ToldInv'
  BY DEF ConnectInv, ToldInv
<1>2. TakenInv'
  BY DEF ConnectInv, TakenInv, historyVars
<1>3. HandleInv' /\ ConnectsOnce'
  BY DEF ConnectInv, HandleInv, ConnectsOnce, historyVars
<1> QED BY <1>1, <1>2, <1>3 DEF ConnectInv

\* The listen thread, who closes and who sends are such.
LEMMA OthersConnect ==
  ASSUME ConnectInv, Running,
         \/ ListenReady \/ HandleSessionDescription \/ ListenClosed \/ ListenResumes \/ ListenStep
         \/ \E c \in Closers : CloseStops(c) \/ CloseStep(c)
         \/ UNCHANGED connectionVars
         \/ UNCHANGED vars
  PROVE  ConnectInv'
<1>0. /\ "hello" # "resumed" /\ "bot" # "resumed" /\ "dave" # "resumed" /\ "assert" # "resumed"
      /\ died # "resumed" /\ None # "resumed"
  BY ConnectionAssumption DEF Running
<1>1. CASE ListenReady
  BY <1>0, <1>1, ConnectKept DEF ListenReady, Gets, Listens, Quiet, UnchangedByListen, infoVars, discordVars
<1>2. CASE HandleSessionDescription
  BY <1>0, <1>2, ConnectKept DEF HandleSessionDescription, Gets, Listens, Quiet, UnchangedByListen,
     infoVars, discordVars
<1>3. CASE ListenClosed
  BY <1>0, <1>3, ConnectKept DEF ListenClosed, Listens, Fails, Quiet, UnchangedByListen, infoVars,
     discordVars
<1>4. CASE ListenResumes
  BY <1>0, <1>4, ConnectKept DEF ListenResumes, Listens, Fails, Quiet, UnchangedByListen, infoVars,
     discordVars
<1>5. CASE IpDiscovery
  BY <1>0, <1>5, ConnectKept DEF IpDiscovery, Quiet, UnchangedByListen, infoVars, discordVars
<1>6. CASE ListenChanged
  BY <1>0, <1>6, ConnectKept DEF ListenChanged, Quiet, UnchangedByListen, infoVars, discordVars
<1>7. CASE ListenReconnect
  BY <1>0, <1>7, ConnectKept DEF ListenReconnect, NoHello, Quiet, UnchangedByListen, infoVars, discordVars
<1>8. CASE ListenEnds
  BY <1>0, <1>8, ConnectKept DEF ListenEnds, Quiet, UnchangedByListen, infoVars, discordVars
<1>9. ASSUME NEW c \in Closers, CloseStops(c)
      PROVE  ConnectInv'
  BY <1>0, <1>9, ConnectKept DEF CloseStops, At, UnchangedByClose, infoVars, discordVars, historyVars
<1>10. ASSUME NEW c \in Closers, CloseNotifies(c)
      PROVE  ConnectInv'
  BY <1>0, <1>10, ConnectKept DEF CloseNotifies, At, UnchangedByClose, infoVars, discordVars, historyVars
<1>11. ASSUME NEW c \in Closers, CloseJoinsListen(c)
      PROVE  ConnectInv'
  BY <1>0, <1>11, ConnectKept DEF CloseJoinsListen, At, UnchangedByClose, infoVars, discordVars, historyVars
<1>12. ASSUME NEW c \in Closers, CloseJoinsUdp(c)
      PROVE  ConnectInv'
  BY <1>0, <1>12, ConnectKept DEF CloseJoinsUdp, At, UnchangedByClose, infoVars, discordVars, historyVars
<1>13. ASSUME NEW c \in Closers, CloseSendsSilence(c)
      PROVE  ConnectInv'
  BY <1>0, <1>13, ConnectKept DEF CloseSendsSilence, At, UnchangedByClose, infoVars, discordVars,
     historyVars
<1>14. CASE UNCHANGED connectionVars
  BY <1>14, ConnectKept DEF connectionVars, infoVars, discordVars
<1>15. CASE UNCHANGED vars
  BY <1>15, ConnectKept DEF vars, infoVars, discordVars
<1> QED BY <1>1, <1>2, <1>3, <1>4, <1>5, <1>6, <1>7, <1>8, <1>9, <1>10, <1>11, <1>12, <1>13, <1>14,
           <1>15 DEF ListenStep, CloseStep

\* The coroutine keeps the agreement.
LEMMA CoroutineConnects ==
  ASSUME TypeInv, ConnectInv, Running, Connect \/ ConnectStep \/ Move
  PROVE  ConnectInv'
<1>0. /\ ConnectionTypes /\ ToldInv /\ TakenInv /\ HandleInv /\ ConnectsOnce /\ died # "resumed"
      /\ MaxServers \in Nat /\ None # "resumed"
  BY ConnectionAssumption DEF TypeInv, ConnectInv, Running
<1>1. CASE Connect
  <2>1. ToldInv'
    BY <1>0, <1>1, WholeIs DEF ConnectionTypes, ToldInv, Past, Connect, infoVars, discordVars, historyVars
  <2>2. TakenInv'
    BY <1>0, <1>1, WholeIs DEF ConnectionTypes, TakenInv, ToldInv, Past, Took, Connect, infoVars,
       discordVars, historyVars
  <2>3. HandleInv'
    BY <1>0, <1>1, WholeIs DEF ConnectionTypes, HandleInv, ToldInv, Connect, infoVars, discordVars,
       historyVars
  <2>4. ConnectsOnce'
    BY <1>0, <1>1, WholeIs DEF ConnectionTypes, ConnectsOnce, ToldInv, TakenInv, HandleInv, Connect,
       infoVars, discordVars, historyVars
  <2> QED BY <2>1, <2>2, <2>3, <2>4 DEF ConnectInv
<1>2. CASE AwaitReady
  <2>1. ToldInv'
    BY <1>0, <1>2, WholeIs DEF ConnectionTypes, ToldInv, Past, AwaitReady, infoVars, discordVars,
       historyVars
  <2>2. TakenInv'
    BY <1>0, <1>2, WholeIs DEF ConnectionTypes, TakenInv, ToldInv, Past, Took, AwaitReady, infoVars,
       discordVars, historyVars
  <2>3. HandleInv'
    BY <1>0, <1>2, WholeIs DEF ConnectionTypes, HandleInv, ToldInv, AwaitReady, infoVars, discordVars,
       historyVars
  <2>4. ConnectsOnce'
    BY <1>0, <1>2, WholeIs DEF ConnectionTypes, ConnectsOnce, ToldInv, TakenInv, HandleInv, AwaitReady,
       infoVars, discordVars, historyVars
  <2> QED BY <2>1, <2>2, <2>3, <2>4 DEF ConnectInv
<1>3. CASE AwaitSuspend
  <2>1. ToldInv'
    BY <1>0, <1>3, WholeIs DEF ConnectionTypes, ToldInv, Past, AwaitSuspend, infoVars, discordVars,
       historyVars
  <2>2. TakenInv'
    BY <1>0, <1>3, WholeIs DEF ConnectionTypes, TakenInv, ToldInv, Past, Took, AwaitSuspend, infoVars,
       discordVars, historyVars
  <2>3. HandleInv'
    BY <1>0, <1>3, WholeIs DEF ConnectionTypes, HandleInv, ToldInv, AwaitSuspend, infoVars, discordVars,
       historyVars
  <2>4. ConnectsOnce'
    BY <1>0, <1>3, WholeIs DEF ConnectionTypes, ConnectsOnce, ToldInv, TakenInv, HandleInv, AwaitSuspend,
       infoVars, discordVars, historyVars
  <2> QED BY <2>1, <2>2, <2>3, <2>4 DEF ConnectInv
<1>4. CASE ConnectBody
  <2>1. ToldInv'
    BY <1>0, <1>4, WholeIs DEF ConnectionTypes, ToldInv, Past, ConnectBody, NoHello, infoVars, discordVars,
       historyVars
  <2>2. TakenInv'
    BY <1>0, <1>4, WholeIs DEF ConnectionTypes, TakenInv, ToldInv, Past, Took, ConnectBody, NoHello,
       infoVars, discordVars, historyVars
  <2>3. HandleInv'
    BY <1>0, <1>4, WholeIs DEF ConnectionTypes, HandleInv, ToldInv, ConnectBody, NoHello, infoVars,
       discordVars, historyVars
  <2>4. ConnectsOnce'
    BY <1>0, <1>4, WholeIs DEF ConnectionTypes, ConnectsOnce, ToldInv, TakenInv, HandleInv, ConnectBody,
       NoHello, infoVars, discordVars, historyVars
  <2> QED BY <2>1, <2>2, <2>3, <2>4 DEF ConnectInv
<1>5. CASE Move
  <2>1. ToldInv'
    BY <1>0, <1>5, WholeIs DEF ConnectionTypes, ToldInv, Past, Move, infoVars, discordVars, historyVars
  <2>5. UNCHANGED infoVars \/ Whole(voiceinfo')
    <3>0. server \in 1..MaxServers
      BY <1>0 DEF ConnectionTypes
    <3>1. server' # 0
      BY <1>0, <1>5, <3>0 DEF Move
    <3>2. Whole([state |-> 1, server |-> server'])
      BY <3>1, WholeIs
    <3> QED BY <1>5, <3>2 DEF Move, infoVars
  <2>6. (\A l \in Kinds : handler[l] = "idle") /\ UNCHANGED <<handler, co, raced>>
        /\ co = "done"
    BY <1>5 DEF Move, historyVars
  <2>2. TakenInv'
    BY <1>0, <2>5, <2>6 DEF TakenInv, Past, Took, infoVars
  <2>3. HandleInv'
    BY <1>0, <1>5, WholeIs DEF ConnectionTypes, HandleInv, ToldInv, Move, infoVars, discordVars, historyVars
  <2>4. ConnectsOnce'
    BY <1>0, <1>5, WholeIs DEF ConnectionTypes, ConnectsOnce, ToldInv, TakenInv, HandleInv, Move, infoVars,
       discordVars, historyVars
  <2> QED BY <2>1, <2>2, <2>3, <2>4 DEF ConnectInv
<1> QED BY <1>1, <1>2, <1>3, <1>4, <1>5 DEF ConnectStep

\* The handlers keep it.
LEMMA HandlersConnect ==
  ASSUME TypeInv, ConnectInv, Running, NEW k \in Kinds, HandlerStep(k)
  PROVE  ConnectInv'
<1>0. /\ ConnectionTypes /\ ToldInv /\ TakenInv /\ HandleInv /\ ConnectsOnce /\ died # "resumed"
      /\ MaxServers \in Nat /\ None # "resumed"
  BY ConnectionAssumption DEF TypeInv, ConnectInv, Running
<1> DEFINE o == Other(k)
<1>1. o \in Kinds /\ o # k /\ \A l \in Kinds : l = k \/ l = o
  BY DEF Other, Kinds
<1> HIDE DEF o
<1>2. CASE SetInfo(k)
  <2>5. ASSUME task # None
        PROVE  \A l \in Kinds : l = k \/ (task'[l] = task[l] /\ handler'[l] = handler[l])
    <3>1. task \in [Kinds -> Servers] /\ handler' = [handler EXCEPT ![k] = "check"]
      BY <1>0, <1>2, <2>5 DEF ConnectionTypes, Infos, SetInfo
    <3> QED BY <1>0, <1>2, <2>5, <3>1 DEF ConnectionTypes, SetInfo
  <2>6. /\ k \in updates /\ updates' = updates \ {k} /\ handler[k] = "idle"
        /\ handler'[k] \in {"idle", "check"} /\ (task = None => UNCHANGED <<task, handler>>)
        /\ co' = co /\ voiceServerUpdateFlag' = voiceServerUpdateFlag
    BY <1>0, <1>2 DEF ConnectionTypes, SetInfo, infoVars
  <2>7. ~Past(handler[k]) /\ ~Past(handler'[k]) /\ updates # {} /\ updates' \subseteq updates
        /\ k \notin updates' /\ (\A l \in Kinds : handler'[l] # handler[l] => l = k)
        /\ (task' # None => task # None /\ \A l \in Kinds : l # k => task'[l] = task[l])
    <3>1. CASE task = None
      BY <2>6, <3>1 DEF Past
    <3>2. CASE task # None
      BY <2>5, <2>6, <3>2 DEF Past
    <3> QED BY <3>1, <3>2
  <2>1. ToldInv'
    <3>1. co # "none" /\ ~voiceServerUpdateFlag /\ co \notin {"body", "done"}
      BY <1>0, <2>7 DEF ToldInv
    <3>2. \A l \in Kinds : handler'[l] # "idle" => l \notin updates'
      BY <1>0, <2>7 DEF ToldInv
    <3>3. \A l \in Kinds : ~Past(handler'[l])
      BY <1>0, <2>7 DEF ToldInv
    <3>4. \A l \in Kinds : task' # None /\ task'[l] # 0 => l \notin updates'
      BY <1>0, <2>7 DEF ToldInv
    <3> QED BY <2>6, <3>1, <3>2, <3>3, <3>4 DEF ToldInv
  <2>2. TakenInv'
    BY ZenonT(60), <1>0, <1>1, <1>2, WholeIs DEF ConnectionTypes, TakenInv, ToldInv, Past, Took, SetInfo, o,
       UnchangedByHandlers, infoVars
  <2>3. HandleInv'
    BY <1>0, <1>1, <1>2, WholeIs DEF ConnectionTypes, HandleInv, SetInfo, o, UnchangedByHandlers, infoVars
  <2>4. ConnectsOnce'
    BY <1>0, <1>1, <1>2, WholeIs DEF ConnectionTypes, ConnectsOnce, TakenInv, HandleInv, Past, SetInfo, o,
       UnchangedByHandlers, infoVars
  <2> QED BY <2>1, <2>2, <2>3, <2>4 DEF ConnectInv
<1>3. CASE CheckReady(k)
  <2>5. task # None /\ Whole(task) => updates = {}
    BY <1>0 DEF ConnectionTypes, ToldInv, Whole
  <2>1. ToldInv'
    BY <1>0, <1>1, <1>3, <2>5 DEF ConnectionTypes, ToldInv, Past, CheckReady, o, UnchangedByHandlers,
       infoVars
  <2>2. TakenInv'
    BY <1>0, <1>1, <1>3, WholeIs DEF ConnectionTypes, TakenInv, ToldInv, Past, Took, CheckReady, o,
       UnchangedByHandlers, infoVars
  <2>3. HandleInv'
    BY <1>0, <1>1, <1>3, WholeIs DEF ConnectionTypes, HandleInv, CheckReady, o, UnchangedByHandlers,
       infoVars
  <2>4. ConnectsOnce'
    BY <1>0, <1>1, <1>3, WholeIs DEF ConnectionTypes, ConnectsOnce, TakenInv, HandleInv, Past, CheckReady,
       o, UnchangedByHandlers, infoVars
  <2> QED BY <2>1, <2>2, <2>3, <2>4 DEF ConnectInv
<1>4. CASE TakeInfo(k)
  <2>1. ToldInv'
    BY <1>0, <1>1, <1>4, WholeIs DEF ConnectionTypes, ToldInv, Past, TakeInfo, o, UnchangedByHandlers,
       infoVars
  <2>2. TakenInv'
    BY <1>0, <1>1, <1>4, WholeIs DEF ConnectionTypes, TakenInv, ToldInv, Past, Took, TakeInfo, o,
       UnchangedByHandlers, infoVars
  <2>3. HandleInv'
    BY <1>0, <1>1, <1>4, WholeIs DEF ConnectionTypes, HandleInv, TakeInfo, o, UnchangedByHandlers, infoVars
  <2>4. ConnectsOnce'
    BY <1>0, <1>1, <1>4, WholeIs DEF ConnectionTypes, ConnectsOnce, TakenInv, HandleInv, Past, TakeInfo, o,
       UnchangedByHandlers, infoVars
  <2> QED BY <2>1, <2>2, <2>3, <2>4 DEF ConnectInv
<1>5. CASE Resume(k)
  <2>1. ToldInv'
    BY <1>0, <1>1, <1>5, WholeIs DEF ConnectionTypes, ToldInv, Past, Resume, o, UnchangedByHandlers,
       infoVars
  <2>2. TakenInv'
    BY <1>0, <1>1, <1>5, WholeIs DEF ConnectionTypes, TakenInv, ToldInv, Past, Took, Resume, o,
       UnchangedByHandlers, infoVars
  <2>3. HandleInv'
    BY <1>0, <1>1, <1>5, WholeIs DEF ConnectionTypes, HandleInv, Resume, o, UnchangedByHandlers, infoVars
  <2>4. ConnectsOnce'
    BY <1>0, <1>1, <1>5, WholeIs DEF ConnectionTypes, ConnectsOnce, TakenInv, HandleInv, Past, Resume, o,
       UnchangedByHandlers, infoVars
  <2> QED BY <2>1, <2>2, <2>3, <2>4 DEF ConnectInv
<1>6. CASE Resumed(k)
  <2>1. ToldInv'
    BY <1>0, <1>1, <1>6, WholeIs DEF ConnectionTypes, ToldInv, Past, Resumed, o, UnchangedByHandlers,
       infoVars
  <2>2. TakenInv'
    BY <1>0, <1>1, <1>6, WholeIs DEF ConnectionTypes, TakenInv, ToldInv, Past, Took, Resumed, o,
       UnchangedByHandlers, infoVars
  <2>3. HandleInv'
    BY <1>0, <1>1, <1>6, WholeIs DEF ConnectionTypes, HandleInv, Resumed, o, UnchangedByHandlers, infoVars
  <2>4. ConnectsOnce'
    BY <1>0, <1>1, <1>6, WholeIs DEF ConnectionTypes, ConnectsOnce, TakenInv, HandleInv, Past, Resumed, o,
       UnchangedByHandlers, infoVars
  <2> QED BY <2>1, <2>2, <2>3, <2>4 DEF ConnectInv
<1> QED BY <1>2, <1>3, <1>4, <1>5, <1>6 DEF HandlerStep

\* Every step keeps the agreement of the coroutine and the handlers.
LEMMA ConnectInductive ==
  ASSUME TypeInv, ConnectInv, [Next]_vars
  PROVE  ConnectInv'
<1>1. CASE UNCHANGED vars
  BY <1>1, ConnectKept DEF vars, infoVars, discordVars
<1>2. CASE Next
  <2>1. Running
    BY <1>2 DEF Next
  <2>2. CASE Connect \/ ConnectStep \/ Move
    BY <2>1, <2>2, CoroutineConnects
  <2>3. ASSUME NEW k \in Kinds, HandlerStep(k)
        PROVE  ConnectInv'
    BY <2>1, <2>3, HandlersConnect
  <2>4. CASE \/ ListenReady \/ HandleSessionDescription \/ ListenClosed \/ ListenResumes \/ ListenStep
             \/ \E c \in Closers : CloseStops(c) \/ CloseStep(c)
             \/ UNCHANGED connectionVars
    BY <2>1, <2>4, OthersConnect
  <2> QED BY <1>2, <2>2, <2>3, <2>4 DEF Next
<1> QED BY <1>1, <1>2

\* A connection begins in agreement.
LEMMA InitConnects ==
  ASSUME Init
  PROVE  ConnectInv
<1>0. None # "resumed" /\ ~Whole(Blank) /\ Whole([k \in Kinds |-> 1]) /\ \A k \in Kinds : Blank[k] = 0
  BY ConnectionAssumption DEF Whole, Blank, Kinds
<1>1. ToldInv
  BY <1>0 DEF Init, New, Connected, ToldInv, Past
<1>2. TakenInv
  <2>1. \E k \in Kinds : ~Past(handler[k]) /\ ~Took(handler[k])
    BY DEF Init, Past, Took, Kinds
  <2>2. \A k \in Kinds : handler[k] = "idle"
    BY DEF Init
  <2> QED BY <2>1, <2>2 DEF Init, New, Connected, TakenInv, Took
<1>3. HandleInv
  BY DEF Init, New, Connected, HandleInv
<1>4. ConnectsOnce
  BY <1>0 DEF Init, New, Connected, ConnectsOnce
<1> QED BY <1>1, <1>2, <1>3, <1>4 DEF ConnectInv

-----------------------------------------------------------------------------
(* Waiting *)

\* Silence stops nothing and starts nothing.
LEMMA SilenceStops ==
  ASSUME SenderTypes, SendSilence
  PROVE  api'.stop = api.stop
<1>1. api \in Api /\ Silence \in Nat
  BY SenderAssumption DEF SenderTypes, QueueTypes
<1> DEFINE begin == IF sendDataQueue = <<>> THEN api ELSE [api EXCEPT !.rtpSeq = Head(sendDataQueue).seq]
<1>2. begin \in Api /\ begin.stop = api.stop
  <2>1. CASE sendDataQueue # <<>>
    <3>1. Head(sendDataQueue) \in Packet
      BY <2>1 DEF SenderTypes, QueueTypes
    <3>2. Head(sendDataQueue).seq \in Nat
      BY <3>1 DEF Packet
    <3> QED BY <1>1, <2>1, <3>2 DEF Api
  <2> QED BY <1>1, <2>1
<1>3. SilenceFrom(begin)
  BY DEF SendSilence
<1> HIDE DEF begin
<1>4. Framed(begin, Silence) \in Api /\ Framed(begin, Silence).stop = begin.stop
  BY <1>1, <1>2, Frames
<1>5. CASE api.silenceSent
  BY <1>3, <1>5 DEF SilenceFrom
<1>6. CASE ~api.silenceSent
  BY <1>2, <1>3, <1>4, <1>6 DEF SilenceFrom, Api
<1> QED BY <1>5, <1>6

\* Who connects and who handles a dispatch has nobody waiting.
LEMMA ForgetKept ==
  ASSUME ForgetInv, UNCHANGED <<voiceDataQueue, uth, flush, lost, closer>>,
         api'.stop => api.stop,
         api.stop => api'.stop,
         th' \in {"none", "end"} => th \in {"none", "end"}
  PROVE  ForgetInv'
BY DEF ForgetInv, NobodyForgotten

\* Every step keeps who is told of what.
LEMMA ForgetInductive ==
  ASSUME TypeInv, ForgetInv, [Next]_vars
  PROVE  ForgetInv'
<1>0. /\ api \in Api /\ voiceDataQueue \in Seq(Nat) /\ SenderTypes /\ ThreadTypes /\ ConnectionTypes
  BY DEF TypeInv, SenderTypes, QueueTypes
<1>1. CASE Connect
  BY <1>0, <1>1, ForgetKept DEF Connect
<1>2. CASE AwaitReady
  BY <1>0, <1>2, ForgetKept DEF AwaitReady, senderVars
<1>3. CASE AwaitSuspend
  BY <1>0, <1>3, ForgetKept DEF AwaitSuspend
<1>4. CASE ConnectBody
  BY <1>0, <1>4, ForgetKept DEF ConnectBody, NoHello, Api
<1>5. CASE Move
  BY <1>0, <1>5, ForgetKept DEF Move, senderVars
<1>6. ASSUME NEW k \in Kinds, HandlerStep(k)
      PROVE  ForgetInv'
  BY <1>6, ForgetKept DEF HandlerStep, SetInfo, CheckReady, TakeInfo, Resume, Resumed, UnchangedByHandlers,
     senderVars
<1>7. CASE ListenReady
  BY <1>0, <1>7, ForgetKept DEF ListenReady, Gets, Listens, Quiet, UnchangedByListen, Api
<1>8. CASE ListenResumes
  BY <1>0, <1>8, ForgetKept DEF ListenResumes, Listens, Fails, Quiet, UnchangedByListen, Api
<1>9. CASE HandleSessionDescription
  BY <1>0, <1>9 DEF ForgetInv, NobodyForgotten, HandleSessionDescription, Gets, Listens, UnchangedByListen,
     Api
<1>10. CASE ListenClosed
  BY <1>0, <1>10 DEF ForgetInv, NobodyForgotten, ListenClosed, Listens, Quiet, NotifyFlush, Woken, Missed,
     UnchangedByListen, Api
<1>11. CASE IpDiscovery
  BY <1>0, <1>11 DEF ForgetInv, NobodyForgotten, IpDiscovery, NotifyUdp, Woken, Missed, UnchangedByListen,
     Api
<1>12. CASE ListenChanged
  BY <1>0, <1>12 DEF ForgetInv, NobodyForgotten, ListenChanged, Quiet, UnchangedByListen, Api
<1>13. CASE ListenReconnect
  BY <1>0, <1>13 DEF ForgetInv, NobodyForgotten, ListenReconnect, NoHello, Quiet, UnchangedByListen, Api
<1>14. CASE ListenEnds
  BY <1>0, <1>14 DEF ForgetInv, NobodyForgotten, ListenEnds, NotifyFlush, Woken, Missed, UnchangedByListen
<1>15. ASSUME NEW c \in Closers, CloseStops(c)
      PROVE  ForgetInv'
  BY <1>0, <1>15 DEF ForgetInv, NobodyForgotten, ConnectionTypes, CloseStops, Api, UnchangedByClose
<1>16. ASSUME NEW c \in Closers, CloseNotifies(c)
      PROVE  ForgetInv'
  BY <1>0, <1>16 DEF ForgetInv, NobodyForgotten, ConnectionTypes, CloseNotifies, At, Woken, Missed,
     UnchangedByClose
<1>17. ASSUME NEW c \in Closers, CloseJoinsListen(c)
      PROVE  ForgetInv'
  BY <1>0, <1>17 DEF ForgetInv, NobodyForgotten, ConnectionTypes, CloseJoinsListen, At, senderVars,
     UnchangedByClose
<1>18. ASSUME NEW c \in Closers, CloseJoinsUdp(c)
      PROVE  ForgetInv'
  BY <1>0, <1>18 DEF ForgetInv, NobodyForgotten, ConnectionTypes, CloseJoinsUdp, At, UnchangedByClose
<1>19. ASSUME NEW c \in Closers, CloseSendsSilence(c)
      PROVE  ForgetInv'
  <2>1. api'.stop = api.stop
    BY <1>0, <1>19, SilenceStops DEF CloseSendsSilence
  <2> QED BY <1>0, <1>19, <2>1 DEF ForgetInv, NobodyForgotten, ConnectionTypes, CloseSendsSilence, At,
             UnchangedByClose
<1>20. ASSUME NEW m \in 1..MaxFrames, SendPcmData(m), UNCHANGED connectionVars
      PROVE  ForgetInv'
  BY <1>20, ForgetKept DEF SendPcmData, connectionVars
<1>21. CASE SendOpusData /\ UNCHANGED connectionVars
  <2>1. Append(voiceDataQueue, frames + 1) # <<>>
    BY <1>0
  <2>2. UNCHANGED <<voiceDataQueue, uth>> \/ (voiceDataQueue' # <<>> /\ uth # "blocking" /\ uth' = Woken(uth))
    BY <1>21, <2>1 DEF SendOpusData
  <2> QED BY <1>0, <1>21, <2>2 DEF ForgetInv, NobodyForgotten, SendOpusData, Woken, connectionVars
<1>22. CASE Flush /\ UNCHANGED connectionVars
  BY <1>0, <1>22 DEF ForgetInv, NobodyForgotten, Flush, connectionVars
<1>23. CASE FlushBlocks /\ UNCHANGED connectionVars
  BY <1>0, <1>23 DEF ForgetInv, NobodyForgotten, FlushBlocks, connectionVars
<1>24. CASE UdpBlocks /\ UNCHANGED connectionVars
  BY <1>0, <1>24 DEF ForgetInv, NobodyForgotten, UdpBlocks, connectionVars
<1>25. CASE UdpSend /\ UNCHANGED connectionVars
  BY <1>0, <1>25 DEF ForgetInv, NobodyForgotten, UdpSend, connectionVars
<1>26. CASE UdpTake /\ UNCHANGED connectionVars
  <2>1. api'.stop = api.stop
    BY <1>0, <1>26, Frames DEF UdpTake, FrameFront
  <2> QED BY <1>0, <1>26, <2>1 DEF ForgetInv, NobodyForgotten, UdpTake, SomethingToSend, Woken, Missed,
             connectionVars
<1>27. CASE UdpPrepare /\ UNCHANGED connectionVars
  <2>1. api'.stop = api.stop
    BY <1>0, <1>27, Frames DEF UdpPrepare, FrameFront
  <2> QED BY <1>0, <1>27, <2>1 DEF ForgetInv, NobodyForgotten, UdpPrepare, connectionVars
<1>28. CASE UNCHANGED vars
  BY <1>28, ForgetKept DEF vars, senderVars
<1> QED BY <1>1, <1>2, <1>3, <1>4, <1>5, <1>6, <1>7, <1>8, <1>9, <1>10, <1>11, <1>12, <1>13, <1>14, <1>15,
           <1>16, <1>17, <1>18, <1>19, <1>20, <1>21, <1>22, <1>23, <1>24, <1>25, <1>26, <1>27, <1>28
        DEF Next, ConnectStep, ListenStep, CloseStep, AppReturns, UdpLoop

\* A connection begins with nobody waiting.
LEMMA InitForgets ==
  ASSUME Init
  PROVE  ForgetInv
BY DEF Init, ForgetInv, NobodyForgotten

-----------------------------------------------------------------------------
(* Counting *)

\* What a quotient and a remainder are.
LEMMA Division ==
  ASSUME NEW d \in Nat \ {0}, NEW n \in Nat
  PROVE  /\ n \div d \in Nat /\ n % d \in 0..(d - 1)
         /\ d * (n \div d) <= n /\ n < d * (n \div d) + d
         /\ n - d * (n \div d) = n % d
<1>1. n \div d \in Nat /\ n % d \in 0..(d - 1)
  OBVIOUS
<1>2. d * (n \div d) <= n
  OBVIOUS
<1>3. n < d * (n \div d) + d
  OBVIOUS
<1>4. ASSUME NEW q, q = n \div d
      PROVE  n - d * q = n % d
  BY <1>4
<1> QED BY <1>1, <1>2, <1>3, <1>4

\* And that there is only one remainder.
LEMMA OneRemainder ==
  ASSUME NEW d \in Nat \ {0}, NEW n \in Nat, NEW q \in Nat, NEW r \in 0..(d - 1), n = d * q + r
  PROVE  n % d = r
OBVIOUS

\* A remainder that is counted on.
LEMMA RemainderOn ==
  ASSUME NEW d \in Nat \ {0}, NEW n \in Nat, NEW b \in Nat
  PROVE  ((n % d) + b) % d = (n + b) % d
<1> DEFINE q == n \div d
           r == n % d
           p == (r + b) \div d
           s == (r + b) % d
<1>1. q \in Nat /\ r \in 0..(d - 1) /\ n - d * q = r
  BY Division
<1>2. r + b \in Nat
  BY <1>1
<1>3. p \in Nat /\ s \in 0..(d - 1) /\ (r + b) - d * p = s
  <2> HIDE DEF r
  <2> QED BY <1>2, Division
<1> HIDE DEF q, r, p, s
<1>4. d * (q + p) = d * q + d * p /\ d * q \in Nat /\ d * p \in Nat /\ q + p \in Nat
  BY <1>1, <1>3
<1>5. n + b \in Nat /\ n + b = d * (q + p) + s
  BY <1>1, <1>3, <1>4
<1>6. (n + b) % d = s
  <2> DEFINE w == q + p
             m == n + b
  <2>1. w \in Nat /\ m \in Nat /\ m = d * w + s
    BY <1>4, <1>5
  <2> HIDE DEF w, m
  <2>2. m % d = s
    BY <1>3, <2>1, OneRemainder
  <2> QED BY <2>2 DEF m
<1> QED BY <1>6 DEF s, r

\* Numbers that are less than d apart have different remainders.
LEMMA RemaindersApart ==
  ASSUME NEW d \in Nat \ {0}, NEW a \in Nat, NEW b \in Nat, a < b, b < a + d
  PROVE  a % d # b % d
<1> DEFINE p == a \div d
           q == b \div d
<1>1. p \in Nat /\ a - d * p = a % d
  BY Division
<1>2. q \in Nat /\ b - d * q = b % d
  BY Division
<1> HIDE DEF p, q
<1>3. SUFFICES ASSUME a % d = b % d
               PROVE  FALSE
  OBVIOUS
<1>4. b - a = d * q - d * p /\ d * q \in Nat /\ d * p \in Nat
  BY <1>1, <1>2, <1>3
<1>5. CASE q <= p
  <2>1. d * q <= d * p
    BY <1>1, <1>2, <1>5
  <2> QED BY <1>4, <2>1
<1>6. CASE q >= p + 1
  <2>1. d * q >= d * (p + 1) /\ d * (p + 1) = d * p + d
    BY <1>1, <1>2, <1>6
  <2> QED BY <1>4, <2>1
<1> QED BY <1>1, <1>2, <1>5, <1>6

-----------------------------------------------------------------------------
(* Sending *)

\* The front of the queue becomes the packet that is next.
LEMMA FrontCounts ==
  ASSUME TypeInv, CountInv, api.secretKey = described, sendDataQueue = <<>>, voiceDataQueue # <<>>,
         FrameFront, UNCHANGED <<wire, frames, described>>
  PROVE  /\ CountInv' /\ Len(sendDataQueue') = 1 /\ Len(voiceDataQueue') = Len(voiceDataQueue) - 1
         /\ \A j \in 1..Len(sendDataQueue') : sendDataQueue'[j].key = described
         /\ api'.silenceSent = api.silenceSent /\ api'.secretKey = described
<1> DEFINE item == Head(voiceDataQueue)
           packet == FrameRtp(item, api)
           len == Len(wire)
           one == 1
<1>1. /\ api \in Api /\ voiceDataQueue \in Seq(Nat) /\ wire \in Seq(Sending) /\ frames \in Nat
      /\ len \in Nat /\ MaxFrames \in Nat
  BY SenderAssumption DEF TypeInv, SenderTypes, QueueTypes, ThreadTypes
<1>2. /\ item \in Nat /\ item = voiceDataQueue[1] /\ Len(voiceDataQueue) \in Nat \ {0}
      /\ Len(Tail(voiceDataQueue)) = Len(voiceDataQueue) - 1
      /\ \A i \in 1..Len(Tail(voiceDataQueue)) :
           /\ Tail(voiceDataQueue)[i] = voiceDataQueue[i + 1] /\ i + 1 \in 1..Len(voiceDataQueue)
  BY <1>1
<1>3. /\ packet.item = item /\ packet.seq = api.rtpSeq /\ packet.nonce = api.pNonce
      /\ packet.key = api.secretKey
  BY DEF FrameRtp
<1>4. /\ api' = Framed(api, one) /\ sendDataQueue' = <<packet>>
      /\ voiceDataQueue' = Tail(voiceDataQueue) /\ one \in Nat
  BY DEF FrameFront
<1> HIDE DEF item, packet, one
<1>5. /\ api'.rtpSeq = (api.rtpSeq + one) % SeqSize /\ api'.pNonce = (api.pNonce + one) % NonceSize
      /\ api'.secretKey = api.secretKey /\ api'.silenceSent = api.silenceSent
  BY <1>1, <1>2, <1>4, Frames
<1>6. Len(sendDataQueue') = 1 /\ sendDataQueue'[1] = packet
  BY <1>4
<1>7. CountInv'
  <2>1. SUFFICES ASSUME ~api.silenceSent
                 PROVE  Counted'
    BY <1>5 DEF CountInv
  <2>2. Counted /\ Len(sendDataQueue) = 0
    BY <2>1 DEF CountInv
  <2>3. api.rtpSeq = len % SeqSize /\ api.pNonce = (FirstNonce + len) % NonceSize
    BY <1>1, <2>2 DEF Counted
  <2>4. \A i \in 1..Len(wire') : Nth(wire'[i].packet, i)
    BY <2>2 DEF Counted
  <2>5. Nth(packet, len + 1)
    <3>1. item = len + 1
      BY <1>1, <1>2, <2>2 DEF Counted
    <3>2. (len + 1) - 1 = len
      BY <1>1
    <3> QED BY <1>3, <2>3, <3>1, <3>2 DEF Nth
  <2>6. \A i \in 1..Len(sendDataQueue') : Nth(sendDataQueue'[i], Len(wire') + i)
    BY <1>6, <2>5
  <2>7. \A i \in 1..Len(voiceDataQueue') : voiceDataQueue'[i] = Len(wire') + Len(sendDataQueue') + i
    <3>1. \A i \in 1..Len(voiceDataQueue) : voiceDataQueue[i] = len + i
      BY SMTT(30), <1>1, <2>2 DEF Counted
    <3>2. ASSUME NEW i \in 1..Len(Tail(voiceDataQueue))
          PROVE  Tail(voiceDataQueue)[i] = len + 1 + i
      <4> DEFINE next == i + 1
      <4>1. next \in 1..Len(voiceDataQueue) /\ Tail(voiceDataQueue)[i] = voiceDataQueue[next]
        BY <1>2
      <4> HIDE DEF next
      <4>2. voiceDataQueue[next] = len + next
        BY <3>1, <4>1
      <4> QED BY <1>1, <4>1, <4>2 DEF next
    <3> HIDE DEF len
    <3>3. Len(wire') = len
      BY DEF len
    <3> QED BY <1>4, <1>6, <3>2, <3>3
  <2>8. Len(wire') + Len(sendDataQueue') + Len(voiceDataQueue') <= frames' /\ frames' <= MaxFrames
    BY <1>1, <1>2, <1>4, <1>6, <2>2 DEF Counted
  <2>9. api'.rtpSeq = (len + 1) % SeqSize /\ api'.pNonce = (FirstNonce + (len + 1)) % NonceSize
    <3>1. SeqSize \in Nat \ {0} /\ NonceSize \in Nat \ {0} /\ FirstNonce \in Nat
      BY SenderAssumption
    <3> DEFINE far == FirstNonce + len
    <3>2. far \in Nat /\ far + 1 = FirstNonce + (len + 1)
      BY <1>1, <3>1
    <3> HIDE DEF far, len
    <3>3. ((len % SeqSize) + one) % SeqSize = (len + one) % SeqSize
      BY <1>1, <1>4, <3>1, RemainderOn
    <3>4. ((far % NonceSize) + one) % NonceSize = (far + one) % NonceSize
      BY <1>4, <3>1, <3>2, RemainderOn
    <3> QED BY <1>5, <2>3, <3>2, <3>3, <3>4 DEF one, far
  <2>10. Len(wire') + Len(sendDataQueue') = len + 1
    BY <1>6
  <2> HIDE DEF len
  <2> QED BY <2>4, <2>6, <2>7, <2>8, <2>9, <2>10 DEF Counted
<1>8. \A j \in 1..Len(sendDataQueue') : sendDataQueue'[j].key = described
  BY <1>3, <1>6
<1> QED BY <1>2, <1>4, <1>5, <1>6, <1>7, <1>8

\* What neither makes, sends nor queues a packet, nor changes the key.
Still ==
  /\ UNCHANGED <<voiceDataQueue, sendDataQueue, wire, frames, described>>
  /\ api'.silenceSent = api.silenceSent /\ api'.secretKey = api.secretKey
  /\ api'.rtpSeq = api.rtpSeq /\ api'.pNonce = api.pNonce
  /\ app' = "send" => (app = "send" /\ toSend' = toSend) \/ (toSend' > 0 /\ frames + toSend' <= MaxFrames)
  /\ uth' \in {"send", "prepare"} => uth' = uth \/ (uth' = "send" /\ sendDataQueue # <<>>)

\* Such a step keeps what is sent.
LEMMA StillSends ==
  ASSUME TypeInv, SendInv, Still, Settled => Settled', TypeInv'
  PROVE  SendInv'
<1>1. HandInv'
  BY DEF SendInv, HandInv, Still
<1>2. CountInv'
  BY DEF SendInv, CountInv, Counted, Still
<1>3. KeyInv'
  BY DEF SendInv, KeyInv, Stale, Still
<1>4. Unused => Unused'
  <2>1. MaxFrames \in Nat /\ toSend' \in Nat
    BY SenderAssumption DEF TypeInv, SenderTypes, ThreadTypes
  <2>2. Unused => app' # "send"
    <3>0. ASSUME NEW left \in Nat
          PROVE  ~(left > 0 /\ MaxFrames + left <= MaxFrames)
      BY <2>1
    <3>1. frames = MaxFrames => ~(toSend' > 0 /\ frames + toSend' <= MaxFrames)
      BY <2>1, <3>0
    <3> QED BY <3>1 DEF Unused, Still
  <2> QED BY <2>2 DEF Unused, Stale, Still
<1>5. Speaks => Speaks'
  BY DEF Speaks, Stale, Still
<1> QED BY <1>1, <1>2, <1>3, <1>4, <1>5 DEF SendInv

\* The numbers and records of which the steps speak.
LEMMA Typed ==
  ASSUME TypeInv
  PROVE  /\ api \in Api /\ toSend \in Nat /\ frames \in Nat /\ MaxFrames \in Nat
         /\ voiceinfo.server \in Nat /\ server \in Nat /\ conn \in Nat /\ described \in Nat
         /\ closer \in [Closers -> {"out", "erase", "join th", "join uth", "silence", "closed"}]
         /\ ThreadTypes /\ voiceDataQueue \in Seq(Nat) /\ sendDataQueue \in Seq(Packet) /\ wire \in Seq(Sending)
<1>1. voiceinfo.server \in Servers /\ MaxServers \in Nat
  BY InfoTypes, ConnectionAssumption DEF TypeInv, ConnectionTypes, Kinds
<1>2. server \in 1..MaxServers /\ conn \in Servers /\ described \in Servers
  BY DEF TypeInv, SenderTypes, ThreadTypes, ConnectionTypes
<1>3. voiceinfo.server \in Nat /\ server \in Nat /\ conn \in Nat /\ described \in Nat
  BY <1>1, <1>2 DEF Servers
<1> QED BY <1>3, SenderAssumption DEF TypeInv, SenderTypes, QueueTypes, ThreadTypes, ConnectionTypes

\* The coroutine, the dispatch handlers and the listen thread, but for the
\* session description, send nothing.
LEMMA ConnectionSends ==
  ASSUME TypeInv, SendInv, TypeInv',
         \/ Connect \/ ConnectStep \/ Move \/ \E k \in Kinds : HandlerStep(k)
         \/ ListenReady \/ ListenClosed \/ ListenResumes \/ ListenStep \/ UNCHANGED vars
  PROVE  SendInv'
<1>0. /\ api \in Api /\ voiceinfo.server \in Nat /\ server \in Nat /\ conn \in Nat /\ described \in Nat
  BY Typed
<1>1. CASE Connect
  <2>1. Still
    BY <1>0, <1>1 DEF Still, Api, Connect, senderVars
  <2>2. Settled => Settled'
    BY <1>0, <1>1 DEF Settled, Api, Connect, infoVars, discordVars, senderVars
  <2> QED BY <2>1, <2>2, StillSends
<1>2. CASE AwaitReady
  <2>1. Still
    BY <1>0, <1>2 DEF Still, Api, AwaitReady, senderVars
  <2>2. Settled => Settled'
    BY <1>0, <1>2 DEF Settled, Api, AwaitReady, infoVars, discordVars, senderVars
  <2> QED BY <2>1, <2>2, StillSends
<1>3. CASE AwaitSuspend
  <2>1. Still
    BY <1>0, <1>3 DEF Still, Api, AwaitSuspend, senderVars
  <2>2. Settled => Settled'
    BY <1>0, <1>3 DEF Settled, Api, AwaitSuspend, infoVars, discordVars, senderVars
  <2> QED BY <2>1, <2>2, StillSends
<1>4. CASE ConnectBody
  <2>1. Still
    BY <1>0, <1>4 DEF Still, Api, ConnectBody, NoHello, senderVars
  <2>2. Settled => Settled'
    BY <1>0, <1>4 DEF Settled, Api, ConnectBody, NoHello, infoVars, discordVars, senderVars
  <2> QED BY <2>1, <2>2, StillSends
<1>5. CASE Move
  <2>1. Still
    BY <1>0, <1>5 DEF Still, Api, Move, senderVars
  <2>3. conn <= voiceinfo.server /\ voiceinfo.server <= server =>
          conn <= voiceinfo'.server /\ voiceinfo'.server <= server'
    <3>1. server' = server + 1 /\ (voiceinfo' = voiceinfo \/ voiceinfo'.server = server')
      BY <1>5 DEF Move, infoVars
    <3>2. voiceinfo'.server \in Nat /\ server' \in Nat
      BY <1>0, <3>1
    <3> QED BY <1>0, <3>1, <3>2
  <2>2. Settled => Settled'
    BY <1>0, <1>5, <2>3 DEF Settled, Api, Move, infoVars, discordVars, senderVars, socketVars
  <2> QED BY <2>1, <2>2, StillSends
<1>6. ASSUME NEW k \in Kinds, HandlerStep(k)
      PROVE  SendInv'
  <2>1. Still
    BY <1>0, <1>6 DEF Still, Api, HandlerStep, SetInfo, CheckReady, TakeInfo, Resume, Resumed,
       UnchangedByHandlers, senderVars
  <2>2. Settled => Settled'
    BY <1>0, <1>6 DEF Settled, Api, HandlerStep, SetInfo, CheckReady, TakeInfo, Resume, Resumed,
       UnchangedByHandlers, infoVars, discordVars, senderVars, socketVars
  <2> QED BY <2>1, <2>2, StillSends
<1>7. CASE ListenReady
  <2>1. Still
    BY <1>0, <1>7 DEF Still, Api, ListenReady, Gets, Listens, Quiet, UnchangedByListen, senderVars
  <2>2. Settled => Settled'
    BY <1>0, <1>7 DEF Settled, Api, ListenReady, Gets, Listens, Quiet, UnchangedByListen, discordVars,
       infoVars, socketVars
  <2> QED BY <2>1, <2>2, StillSends
<1>8. CASE IpDiscovery
  <2>1. Still
    BY <1>0, <1>8 DEF Still, Api, IpDiscovery, NotifyUdp, Woken, UnchangedByListen, senderVars
  <2>2. Settled => Settled'
    BY <1>0, <1>8 DEF Settled, Api, IpDiscovery, NotifyUdp, Woken, UnchangedByListen, discordVars,
       infoVars, socketVars
  <2> QED BY <2>1, <2>2, StillSends
<1>9. CASE ListenClosed
  <2>1. Still
    BY <1>0, <1>9 DEF Still, Api, ListenClosed, Listens, Quiet, NotifyFlush, UnchangedByListen, senderVars
  <2>2. Settled => Settled'
    BY <1>0, <1>9 DEF Settled, Api, ListenClosed, Listens, Quiet, NotifyFlush, UnchangedByListen,
       discordVars, infoVars, socketVars
  <2> QED BY <2>1, <2>2, StillSends
<1>10. CASE ListenResumes
  <2>1. Still
    BY <1>0, <1>10 DEF Still, Api, ListenResumes, Listens, Quiet, UnchangedByListen, senderVars
  <2>2. Settled => Settled'
    BY <1>0, <1>10 DEF Settled, Api, ListenResumes, Listens, Quiet, UnchangedByListen, discordVars,
       infoVars, socketVars
  <2> QED BY <2>1, <2>2, StillSends
<1>11. CASE ListenChanged
  <2>1. Still
    BY <1>0, <1>11 DEF Still, Api, ListenChanged, Quiet, UnchangedByListen, senderVars
  <2>2. Settled => Settled'
    BY <1>0, <1>11 DEF Settled, Api, ListenChanged, Quiet, UnchangedByListen, discordVars, infoVars,
       socketVars
  <2> QED BY <2>1, <2>2, StillSends
<1>12. CASE ListenReconnect
  <2>1. Still
    BY <1>0, <1>12 DEF Still, Api, ListenReconnect, NoHello, Quiet, UnchangedByListen, senderVars
  <2>3. described <= conn /\ conn <= voiceinfo.server => described <= conn' /\ conn' <= voiceinfo.server
    <3>1. conn' = conn \/ conn' = voiceinfo.server
      BY <1>12 DEF ListenReconnect
    <3> QED BY <1>0, <3>1
  <2>2. Settled => Settled'
    BY <1>0, <1>12, <2>3 DEF Settled, Api, ListenReconnect, NoHello, Quiet, UnchangedByListen, discordVars,
       infoVars, socketVars
  <2> QED BY <2>1, <2>2, StillSends
<1>13. CASE ListenEnds
  <2>1. Still
    BY <1>0, <1>13 DEF Still, Api, ListenEnds, NotifyFlush, UnchangedByListen, senderVars
  <2>2. Settled => Settled'
    BY <1>0, <1>13 DEF Settled, Api, ListenEnds, NotifyFlush, UnchangedByListen, discordVars, infoVars,
       socketVars
  <2> QED BY <2>1, <2>2, StillSends
<1>14. CASE UNCHANGED vars
  <2>1. Still
    BY <1>0, <1>14 DEF Still, Api, vars, senderVars
  <2>2. Settled => Settled'
    BY <1>0, <1>14 DEF Settled, Api, vars, discordVars, infoVars, socketVars, senderVars
  <2> QED BY <2>1, <2>2, StillSends
<1> QED BY <1>1, <1>2, <1>3, <1>4, <1>5, <1>6, <1>7, <1>8, <1>9, <1>10, <1>11, <1>12, <1>13,
           <1>14 DEF ConnectStep, ListenStep

\* Nor does who closes, before the silence, nor the application, before it has
\* queued a frame.
LEMMA ClosingSends ==
  ASSUME TypeInv, SendInv, TypeInv',
         \/ \E c \in Closers : CloseStops(c) \/ CloseNotifies(c) \/ CloseJoinsListen(c) \/ CloseJoinsUdp(c)
         \/ /\ (\E m \in 1..MaxFrames : SendPcmData(m)) \/ Flush \/ FlushBlocks \/ UdpBlocks
            /\ UNCHANGED connectionVars
  PROVE  SendInv'
<1>0. /\ api \in Api /\ voiceinfo.server \in Nat /\ server \in Nat /\ conn \in Nat /\ described \in Nat
      /\ closer \in [Closers -> {"out", "erase", "join th", "join uth", "silence", "closed"}]
      /\ frames \in Nat /\ MaxFrames \in Nat
  BY Typed
<1>1. ASSUME NEW c \in Closers, CloseStops(c)
      PROVE  SendInv'
  <2>1. Still
    BY <1>0, <1>1 DEF Still, Api, CloseStops, UnchangedByClose, senderVars
  <2>2. Settled => Settled'
    BY <1>0, <1>1 DEF Settled, Api, CloseStops, UnchangedByClose, discordVars, infoVars, socketVars,
       senderVars
  <2> QED BY <2>1, <2>2, StillSends
<1>2. ASSUME NEW c \in Closers, CloseNotifies(c)
      PROVE  SendInv'
  <2>1. Still
    BY <1>0, <1>2 DEF Still, Api, CloseNotifies, At, Woken, UnchangedByClose, senderVars
  <2>2. Settled => Settled'
    BY <1>0, <1>2 DEF Settled, Api, CloseNotifies, At, Woken, UnchangedByClose, discordVars, infoVars,
       socketVars, senderVars
  <2> QED BY <2>1, <2>2, StillSends
<1>3. ASSUME NEW c \in Closers, CloseJoinsListen(c)
      PROVE  SendInv'
  <2>1. Still
    BY <1>0, <1>3 DEF Still, Api, CloseJoinsListen, At, UnchangedByClose, senderVars
  <2>2. Settled => Settled'
    BY <1>0, <1>3 DEF Settled, Api, CloseJoinsListen, At, UnchangedByClose, discordVars, infoVars,
       socketVars, senderVars
  <2> QED BY <2>1, <2>2, StillSends
<1>4. ASSUME NEW c \in Closers, CloseJoinsUdp(c)
      PROVE  SendInv'
  <2>1. Still
    BY <1>0, <1>4 DEF Still, Api, CloseJoinsUdp, At, UnchangedByClose, senderVars
  <2>2. Settled => Settled'
    BY <1>0, <1>4 DEF Settled, Api, CloseJoinsUdp, At, UnchangedByClose, discordVars, infoVars, socketVars,
       senderVars
  <2> QED BY <2>1, <2>2, StillSends
<1>5. ASSUME NEW some \in 1..MaxFrames, SendPcmData(some), UNCHANGED connectionVars
      PROVE  SendInv'
  <2>3. toSend' > 0 /\ frames + toSend' <= MaxFrames
    <3>1. frames + some <= MaxFrames /\ toSend' = some
      BY <1>5 DEF SendPcmData
    <3>2. some > 0
      OBVIOUS
    <3> QED BY <3>1, <3>2
  <2>1. Still
    BY <1>0, <1>5, <2>3 DEF Still, Api, SendPcmData, connectionVars, senderVars
  <2>2. Settled => Settled'
    BY <1>0, <1>5 DEF Settled, Api, SendPcmData, connectionVars, discordVars, infoVars, socketVars
  <2> QED BY <2>1, <2>2, StillSends
<1>6. CASE Flush /\ UNCHANGED connectionVars
  <2>1. Still
    BY <1>0, <1>6 DEF Still, Api, Flush, connectionVars, senderVars
  <2>2. Settled => Settled'
    BY <1>0, <1>6 DEF Settled, Api, Flush, connectionVars, discordVars, infoVars, socketVars
  <2> QED BY <2>1, <2>2, StillSends
<1>7. CASE FlushBlocks /\ UNCHANGED connectionVars
  <2>1. Still
    BY <1>0, <1>7 DEF Still, Api, FlushBlocks, connectionVars, senderVars
  <2>2. Settled => Settled'
    BY <1>0, <1>7 DEF Settled, Api, FlushBlocks, connectionVars, discordVars, infoVars, socketVars
  <2> QED BY <2>1, <2>2, StillSends
<1>8. CASE UdpBlocks /\ UNCHANGED connectionVars
  <2>1. Still
    BY <1>0, <1>8 DEF Still, Api, UdpBlocks, connectionVars, senderVars
  <2>2. Settled => Settled'
    BY <1>0, <1>8 DEF Settled, Api, UdpBlocks, connectionVars, discordVars, infoVars, socketVars
  <2> QED BY <2>1, <2>2, StillSends
<1> QED BY <1>1, <1>2, <1>3, <1>4, <1>5, <1>6, <1>7, <1>8

\* Nor does the session description, which brings another key.
LEMMA DescriptionSends ==
  ASSUME TypeInv, SendInv, TypeInv', HandleSessionDescription
  PROVE  SendInv'
<1>0. /\ api \in Api /\ conn \in Nat /\ described \in Nat /\ wire \in Seq(Sending)
      /\ \A i \in 1..Len(wire) : wire[i].known \in Nat
  <2>1. \A i \in 1..Len(wire) : wire[i] \in Sending
    <3>1. wire \in Seq(Sending)
      BY Typed
    <3> QED BY <3>1
  <2>2. Servers \subseteq Nat
    BY ConnectionAssumption DEF Servers
  <2> QED BY <2>1, <2>2, Typed DEF Sending
<1>1. UNCHANGED <<voiceDataQueue, sendDataQueue, uth, app, toSend, frames, wire, co, updates, handler,
                  voiceinfo, server, conn, closer, th>>
  BY DEF HandleSessionDescription, Gets, UnchangedByListen, discordVars
<1>2. CASE described' = described /\ api' = [api EXCEPT !.stop = TRUE]
  <2>1. Still
    BY <1>0, <1>1, <1>2 DEF Still, Api
  <2>2. Settled => Settled'
    BY <1>0, <1>1, <1>2 DEF Settled, Api
  <2> QED BY <2>1, <2>2, StillSends
<1>3. CASE described' = conn /\ api' = [api EXCEPT !.secretKey = conn]
  <2>1. /\ api'.secretKey = conn /\ api'.silenceSent = api.silenceSent
        /\ api'.rtpSeq = api.rtpSeq /\ api'.pNonce = api.pNonce
    BY <1>0, <1>3 DEF Api
  <2>2. HandInv' /\ CountInv'
    BY <1>1, <2>1 DEF SendInv, HandInv, CountInv, Counted
  <2>3. KeyInv'
    BY <1>1, <1>3, <2>1 DEF SendInv, KeyInv, Stale
  <2>4. Unused => Unused'
    BY <1>1 DEF Unused, Stale
  <2>5. Settled => Settled'
    <3>1. conn <= conn
      BY <1>0
    <3> QED BY <1>1, <1>3, <2>1, <3>1 DEF Settled
  <2>6. Settled /\ Speaks => Speaks'
    <3>1. SUFFICES ASSUME Settled, Speaks
                   PROVE  Speaks'
      OBVIOUS
    <3>2. ASSUME NEW i \in 1..Len(wire)
          PROVE  wire[i].known <= conn /\ (wire[i].known = conn => described = conn)
      <4>1. wire[i].known <= described /\ described <= conn
        BY <3>1 DEF Settled, Speaks
      <4> QED BY <1>0, <4>1
    <3> QED BY <1>1, <1>3, <2>1, <3>1, <3>2 DEF Speaks, Stale
  <2> QED BY <2>2, <2>3, <2>4, <2>5, <2>6 DEF SendInv
<1> QED BY <1>2, <1>3 DEF HandleSessionDescription

\* A frame is queued.
LEMMA OpusSends ==
  ASSUME TypeInv, SendInv, TypeInv', SendOpusData, UNCHANGED connectionVars
  PROVE  SendInv'
<1>0. /\ api \in Api /\ toSend \in Nat /\ toSend > 0 /\ frames \in Nat /\ MaxFrames \in Nat
      /\ voiceDataQueue \in Seq(Nat) /\ Len(wire) \in Nat /\ Len(sendDataQueue) \in Nat
  <2>1. voiceDataQueue \in Seq(Nat) /\ sendDataQueue \in Seq(Packet) /\ wire \in Seq(Sending)
    BY Typed
  <2>2. Len(wire) \in Nat /\ Len(sendDataQueue) \in Nat
    BY <2>1
  <2> QED BY <2>1, <2>2, Typed DEF ThreadTypes, SendOpusData
<1>1. UNCHANGED <<api, sendDataQueue, wire, described, co, updates, handler, voiceinfo, server, conn,
                  closer, th>>
  BY DEF SendOpusData, connectionVars, infoVars, discordVars, socketVars
<1>2. CASE app' = "free" /\ UNCHANGED <<voiceDataQueue, uth, frames>>
  <2>1. Still
    BY <1>1, <1>2 DEF Still
  <2>2. Settled => Settled'
    BY <1>1, <1>2 DEF Settled
  <2> QED BY <2>1, <2>2, StillSends
<1>3. CASE /\ voiceDataQueue' = Append(voiceDataQueue, frames + 1) /\ frames' = frames + 1
           /\ uth' = Woken(uth) /\ toSend' = toSend - 1 /\ app' \in {"free", "send"}
  <2>1. Settled /\ Speaks /\ CountInv /\ KeyInv /\ HandInv
    BY DEF SendInv, Unused, SendOpusData
  <2>2. frames + toSend <= MaxFrames
    BY <2>1 DEF Speaks, SendOpusData
  <2>3. HandInv'
    BY <1>1, <1>3, <2>1 DEF HandInv, Woken
  <2>4. KeyInv'
    BY <1>1, <2>1 DEF KeyInv, Stale
  <2>5. /\ Len(voiceDataQueue') = Len(voiceDataQueue) + 1 /\ Len(voiceDataQueue) \in Nat
        /\ \A i \in 1..Len(voiceDataQueue) : voiceDataQueue'[i] = voiceDataQueue[i]
        /\ voiceDataQueue'[Len(voiceDataQueue) + 1] = frames + 1
    BY <1>0, <1>3
  <2>6. Settled'
    BY <1>1, <1>3, <2>1 DEF Settled, Woken
  <2>7. CountInv'
    <3>1. SUFFICES ASSUME ~api.silenceSent
                   PROVE  Counted'
      BY <1>1 DEF CountInv
    <3>2. Counted /\ frames = Len(wire) + Len(sendDataQueue) + Len(voiceDataQueue)
      BY <2>1, <3>1 DEF CountInv, Speaks
    <3>3. \A i \in 1..Len(voiceDataQueue') : voiceDataQueue'[i] = Len(wire') + Len(sendDataQueue') + i
      <4>1. \A i \in 1..Len(voiceDataQueue) : voiceDataQueue[i] = Len(wire) + Len(sendDataQueue) + i
        BY <3>2 DEF Counted
      <4>2. ASSUME NEW i \in 1..Len(voiceDataQueue')
            PROVE  i \in 1..Len(voiceDataQueue) \/ i = Len(voiceDataQueue) + 1
        BY <2>5
      <4>3. frames + 1 = Len(wire) + Len(sendDataQueue) + (Len(voiceDataQueue) + 1)
        BY <1>0, <2>5, <3>2
      <4> QED BY <1>1, <2>5, <4>1, <4>2, <4>3
    <3>4. Len(wire') + Len(sendDataQueue') + Len(voiceDataQueue') <= frames' /\ frames' <= MaxFrames
      BY <1>0, <1>1, <1>3, <2>2, <2>5, <3>2
    <3> QED BY <1>1, <3>2, <3>3, <3>4 DEF Counted
  <2>8. Speaks'
    <3>1. app' = "send" => frames' + toSend' <= MaxFrames
      BY <1>0, <1>3, <2>2
    <3>2. ~api.silenceSent => frames' = Len(wire) + Len(sendDataQueue) + Len(voiceDataQueue')
      BY <1>0, <1>3, <2>1, <2>5 DEF Speaks
    <3> QED BY <1>1, <2>1, <3>1, <3>2 DEF Speaks, Stale
  <2> QED BY <2>3, <2>4, <2>6, <2>7, <2>8 DEF SendInv
<1> QED BY <1>2, <1>3 DEF SendOpusData

\* A packet is made.
LEMMA FrontSends ==
  ASSUME TypeInv, SendInv, sendDataQueue = <<>>, voiceDataQueue # <<>>, FrameFront,
         uth # "none", uth' # "prepare", uth' # "none",
         UNCHANGED <<wire, frames, described, app, toSend, connectionVars>>
  PROVE  SendInv'
<1>0. /\ Settled /\ Speaks /\ CountInv /\ KeyInv /\ api.secretKey = described /\ ~api.silenceSent
  BY DEF SendInv, Unused, KeyInv, Settled
<1>1. /\ CountInv' /\ Len(sendDataQueue') = 1 /\ Len(voiceDataQueue') = Len(voiceDataQueue) - 1
      /\ \A j \in 1..Len(sendDataQueue') : sendDataQueue'[j].key = described
      /\ api'.silenceSent = api.silenceSent /\ api'.secretKey = described
  BY <1>0, FrontCounts
<1>2. HandInv'
  BY <1>1 DEF HandInv, FrameFront
<1>3. KeyInv'
  BY <1>0, <1>1 DEF KeyInv, Stale
<1>4. Settled'
  BY <1>0, <1>1 DEF Settled, connectionVars, infoVars, discordVars, socketVars
<1>5. Speaks'
  <2>1. Len(wire) \in Nat /\ Len(voiceDataQueue) \in Nat /\ Len(sendDataQueue) = 0
    <3>1. voiceDataQueue \in Seq(Nat) /\ wire \in Seq(Sending)
      BY Typed
    <3> QED BY <3>1
  <2>2. frames = Len(wire) + Len(sendDataQueue') + Len(voiceDataQueue')
    BY <1>0, <1>1, <2>1 DEF Speaks
  <2> QED BY <1>0, <1>1, <2>2 DEF Speaks, Stale
<1> QED BY <1>1, <1>2, <1>3, <1>4, <1>5 DEF SendInv

\* A packet is sent.
LEMMA UdpSends ==
  ASSUME TypeInv, SendInv, UdpSend, UNCHANGED connectionVars
  PROVE  SendInv'
<1> DEFINE len == Len(wire)
           sent == Sent(Head(sendDataQueue))
<1>0. /\ Settled /\ Speaks /\ CountInv /\ KeyInv /\ HandInv /\ api.secretKey = described /\ ~api.silenceSent
      /\ sendDataQueue # <<>>
  BY DEF SendInv, Unused, KeyInv, Settled, UdpSend, HandInv
<1>1. /\ wire \in Seq(Sending) /\ sendDataQueue \in Seq(Packet) /\ len \in Nat /\ Len(voiceDataQueue) \in Nat
      /\ described \in Nat
  <2>1. /\ wire \in Seq(Sending) /\ sendDataQueue \in Seq(Packet) /\ voiceDataQueue \in Seq(Nat)
        /\ described \in Nat
    BY Typed
  <2> QED BY <2>1
<1>2. Len(sendDataQueue) = 1 /\ Head(sendDataQueue) = sendDataQueue[1]
  <2>1. Len(sendDataQueue) <= 1
    BY <1>0 DEF HandInv
  <2>2. Len(sendDataQueue) \in Nat /\ Len(sendDataQueue) # 0
    BY <1>0, <1>1
  <2>3. Len(sendDataQueue) = 1
    BY <2>1, <2>2
  <2> QED BY <1>1, <2>3
<1>3. sent.packet = sendDataQueue[1] /\ sent.known = described
  BY <1>2 DEF Sent
<1>4. /\ wire' = Append(wire, sent) /\ sendDataQueue' = <<>> /\ uth' = "prepare"
      /\ UNCHANGED <<api, voiceDataQueue, app, toSend, frames, described>>
  BY DEF UdpSend
<1> HIDE DEF sent
<1>5. /\ Len(wire') = len + 1 /\ wire'[len + 1] = sent /\ Len(sendDataQueue') = 0
      /\ \A i \in 1..len : wire'[i] = wire[i]
      /\ \A i \in 1..Len(wire') : i \in 1..len \/ i = len + 1
  BY <1>1, <1>4
<1>6. HandInv'
  BY <1>4, <1>5 DEF HandInv
<1>7. CountInv'
  <2>1. Counted
    BY <1>0 DEF CountInv
  <2>2. \A i \in 1..Len(wire') : Nth(wire'[i].packet, i)
    <3>1. Nth(sendDataQueue[1], len + 1)
      BY <1>2, <2>1 DEF Counted
    <3>2. \A i \in 1..len : Nth(wire[i].packet, i)
      BY <2>1 DEF Counted
    <3> QED BY <1>3, <1>5, <3>1, <3>2
  <2>3. Len(wire') + Len(sendDataQueue') = len + Len(sendDataQueue)
    BY <1>1, <1>2, <1>5
  <2>4. /\ \A i \in 1..Len(voiceDataQueue) : voiceDataQueue[i] = len + Len(sendDataQueue) + i
        /\ len + Len(sendDataQueue) + Len(voiceDataQueue) <= frames /\ frames <= MaxFrames
        /\ api.rtpSeq = (len + Len(sendDataQueue)) % SeqSize
        /\ api.pNonce = (FirstNonce + (len + Len(sendDataQueue))) % NonceSize
    BY <2>1 DEF Counted
  <2>5. \A i \in 1..Len(sendDataQueue') : FALSE
    BY <1>5
  <2> HIDE DEF len
  <2> QED BY <1>4, <2>2, <2>3, <2>4, <2>5 DEF Counted, CountInv
<1>8. \A i \in 1..len : Stale(i)' <=> Stale(i)
  BY <1>5 DEF Stale
<1>9. ASSUME NEW i \in 1..len, Stale(i), wire[i].known = described
      PROVE  sent.packet.key = sent.known
  <2>1. sendDataQueue[1].key = described
    BY <1>0, <1>2, <1>9 DEF Speaks
  <2> QED BY <1>3, <2>1
<1>10. KeyInv'
  <2>1. ASSUME NEW i \in 1..Len(wire'), NEW j \in 1..Len(wire'), Stale(i)', Stale(j)',
  wire'[i].known = wire'[j].known
        PROVE  i = j
    <3>1. CASE i \in 1..len /\ j \in 1..len
      BY <1>0, <1>5, <1>8, <2>1, <3>1 DEF KeyInv
    <3>2. CASE i \in 1..len /\ j = len + 1
      <4>1. Stale(i) /\ wire[i].known = described /\ sent.packet.key # sent.known
        BY <1>3, <1>5, <1>8, <2>1, <3>2 DEF Stale
      <4> QED BY <1>9, <3>2, <4>1
    <3>3. CASE i = len + 1 /\ j \in 1..len
      <4>1. Stale(j) /\ wire[j].known = described /\ sent.packet.key # sent.known
        BY <1>3, <1>5, <1>8, <2>1, <3>3 DEF Stale
      <4> QED BY <1>9, <3>3, <4>1
    <3> QED BY <1>5, <3>1, <3>2, <3>3
  <2> QED BY <1>0, <1>4, <2>1 DEF KeyInv
<1>11. Settled'
  BY <1>0, <1>4 DEF UdpSend, Settled, connectionVars, infoVars, discordVars, socketVars
<1>12. Speaks'
  <2>1. frames = Len(wire') + Len(sendDataQueue') + Len(voiceDataQueue)
    BY <1>0, <1>1, <1>2, <1>5 DEF Speaks
  <2>2. \A i \in 1..Len(wire') : wire'[i].known <= described
    BY <1>0, <1>1, <1>3, <1>5 DEF Speaks
  <2>3. \A i \in 1..Len(sendDataQueue') : FALSE
    BY <1>5
  <2> QED BY <1>0, <1>4, <2>1, <2>2, <2>3 DEF Speaks
<1> QED BY <1>6, <1>7, <1>10, <1>11, <1>12 DEF SendInv

\* The UDP thread's round.
LEMMA UdpLoopSends ==
  ASSUME TypeInv, SendInv, TypeInv', UdpLoop, UNCHANGED connectionVars
  PROVE  SendInv'
<1>1. CASE UdpTake
  <2>1. uth \in {"top", "woken"} /\ UNCHANGED <<app, toSend, frames, wire, described>>
    BY <1>1 DEF UdpTake
  <2>2. CASE /\ uth' \in {"end", "blocking"} \/ (uth' = "send" /\ sendDataQueue # <<>>)
             /\ UNCHANGED <<api, voiceDataQueue, sendDataQueue>>
    <3>1. Still
      BY <2>1, <2>2 DEF Still
    <3>2. Settled => Settled'
      BY <2>1, <2>2 DEF Settled, connectionVars, infoVars, discordVars, socketVars
    <3> QED BY <3>1, <3>2, StillSends
  <2>3. CASE uth' = "send" /\ sendDataQueue = <<>> /\ voiceDataQueue # <<>> /\ FrameFront
    BY <2>1, <2>3, FrontSends
  <2> QED BY <1>1, <2>2, <2>3 DEF UdpTake, SomethingToSend
<1>2. CASE UdpBlocks
  BY <1>2, ClosingSends
<1>3. CASE UdpSend
  BY <1>3, UdpSends
<1>4. CASE UdpPrepare
  <2>1. uth = "prepare" /\ uth' = "top" /\ sendDataQueue = <<>> /\ UNCHANGED <<app, toSend, frames, wire, described>>
    BY <1>4 DEF UdpPrepare, SendInv, HandInv
  <2>2. CASE UNCHANGED <<api, voiceDataQueue, sendDataQueue>>
    <3>1. Still
      BY <2>1, <2>2 DEF Still
    <3>2. Settled => Settled'
      BY <2>1, <2>2 DEF Settled, connectionVars, infoVars, discordVars, socketVars
    <3> QED BY <3>1, <3>2, StillSends
  <2>3. CASE voiceDataQueue # <<>> /\ FrameFront
    BY <2>1, <2>3, FrontSends
  <2> QED BY <1>4, <2>2, <2>3 DEF UdpPrepare
<1> QED BY <1>1, <1>2, <1>3, <1>4 DEF UdpLoop

\* What silence sends: its packets count on, and are encrypted with the last key.
LEMMA SilenceSays ==
  ASSUME TypeInv, SendSilence, ~api.silenceSent,
         NEW begin,
         begin = IF sendDataQueue = <<>> THEN api ELSE [api EXCEPT !.rtpSeq = Head(sendDataQueue).seq]
  PROVE  /\ sendDataQueue' = <<>> /\ Len(wire') = Len(wire) + Silence
         /\ api'.silenceSent /\ api'.secretKey = api.secretKey
         /\ api'.rtpSeq = (begin.rtpSeq + Silence) % SeqSize
         /\ begin.rtpSeq \in Nat
         /\ \A i \in 1..Len(wire) : wire'[i] = wire[i]
         /\ \A i \in 1..Len(wire') : i \in 1..Len(wire) \/ (i - Len(wire)) \in 1..Silence
         /\ \A i \in 1..Len(wire') : (i - Len(wire)) \in 1..Silence =>
              /\ wire'[i].known = described /\ wire'[i].packet.key = api.secretKey /\ wire'[i].packet.item = 0
              /\ wire'[i].packet.seq = (begin.rtpSeq + ((i - Len(wire)) - 1)) % SeqSize
              /\ wire'[i].packet.nonce = (api.pNonce + ((i - Len(wire)) - 1)) % NonceSize
<1> DEFINE quiet == [i \in 1..Silence |-> Sent(FrameRtp(0, Framed(begin, i - 1)))]
           len == Len(wire)
<1>1. /\ api \in Api /\ wire \in Seq(Sending) /\ len \in Nat /\ Silence \in Nat /\ described \in Servers
      /\ api.dest \in Servers
  <2>1. api \in Api /\ wire \in Seq(Sending) /\ described \in Servers /\ Silence \in Nat
    BY SenderAssumption DEF TypeInv, SenderTypes, QueueTypes, ThreadTypes
  <2> QED BY <2>1 DEF Api
<1>2. begin \in Api /\ begin.secretKey = api.secretKey /\ begin.pNonce = api.pNonce
  <2>1. CASE sendDataQueue # <<>>
    <3>1. sendDataQueue \in Seq(Packet)
      BY Typed
    <3>2. Head(sendDataQueue) \in Packet
      BY <2>1, <3>1
    <3>3. Head(sendDataQueue).seq \in Nat
      BY <3>2 DEF Packet
    <3> QED BY <1>1, <2>1, <3>3 DEF Api
  <2> QED BY <1>1, <2>1
<1>3. /\ sendDataQueue' = <<>> /\ wire' = wire \o quiet
      /\ api' = [Framed(begin, Silence) EXCEPT !.silenceSent = TRUE]
  BY DEF SendSilence, SilenceFrom
<1>4. /\ Framed(begin, Silence) \in Api
      /\ Framed(begin, Silence).rtpSeq = (begin.rtpSeq + Silence) % SeqSize
      /\ Framed(begin, Silence).secretKey = begin.secretKey
  BY <1>1, <1>2, Frames
<1>5. api'.silenceSent /\ api'.secretKey = api.secretKey /\ api'.rtpSeq = (begin.rtpSeq + Silence) % SeqSize
  BY <1>2, <1>3, <1>4 DEF Api
<1>6. ASSUME NEW i \in 1..Silence
      PROVE  /\ quiet[i] \in Sending
             /\ quiet[i].known = described /\ quiet[i].packet.key = api.secretKey
             /\ quiet[i].packet.item = 0
             /\ quiet[i].packet.seq = (begin.rtpSeq + (i - 1)) % SeqSize
             /\ quiet[i].packet.nonce = (api.pNonce + (i - 1)) % NonceSize
  <2> DEFINE n == i - 1
             zero == 0
  <2>1. n \in Nat /\ zero \in Nat
    BY <1>1
  <2>2. quiet[i] = Sent(FrameRtp(zero, Framed(begin, n)))
    OBVIOUS
  <2> HIDE DEF n, quiet, zero
  <2>3. /\ FrameRtp(zero, Framed(begin, n)) \in Packet
        /\ Framed(begin, n).rtpSeq = (begin.rtpSeq + n) % SeqSize
        /\ Framed(begin, n).pNonce = (begin.pNonce + n) % NonceSize
        /\ Framed(begin, n).secretKey = begin.secretKey
    BY <1>2, <2>1, Frames
  <2>4. quiet[i] \in Sending
    BY <1>1, <2>2, <2>3 DEF Sent, Sending
  <2> QED BY <1>2, <2>2, <2>3, <2>4 DEF Sent, FrameRtp, n, zero
<1>7. quiet \in Seq(Sending) /\ Len(quiet) = Silence
  <2>1. quiet \in [1..Silence -> Sending]
    BY <1>6
  <2> QED BY <1>1, <2>1
<1> HIDE DEF quiet, len
<1>8. /\ Len(wire') = len + Silence /\ \A i \in 1..len : wire'[i] = wire[i]
      /\ \A i \in 1..(len + Silence) : i \in 1..len \/ (i - len) \in 1..Silence
      /\ \A i \in 1..(len + Silence) : (i - len) \in 1..Silence => wire'[i] = quiet[i - len]
  <2>1. Len(wire') = Len(wire) + Silence /\ \A i \in 1..Len(wire) : wire'[i] = wire[i]
    <3>1. Len(wire \o quiet) = Len(wire) + Silence
      BY <1>1, <1>7
    <3>2. \A i \in 1..Len(wire) : (wire \o quiet)[i] = wire[i]
      BY <1>1, <1>7
    <3> QED BY <1>3, <3>1, <3>2
  <2>2. \A i \in 1..(len + Silence) : i \in 1..len \/ (i - len) \in 1..Silence
    BY <1>1
  <2>3. ASSUME NEW i \in 1..(len + Silence), (i - len) \in 1..Silence
        PROVE  wire'[i] = quiet[i - len]
    <3>1. i \in 1..(Len(wire) + Silence) /\ i > Len(wire)
      BY <1>1, <2>3 DEF len
    <3> QED BY <1>1, <1>3, <1>7, <3>1 DEF len
  <2> QED BY <2>1, <2>2, <2>3 DEF len
<1>9. ASSUME NEW i \in 1..(len + Silence), (i - len) \in 1..Silence
      PROVE  /\ wire'[i].known = described /\ wire'[i].packet.key = api.secretKey /\ wire'[i].packet.item = 0
             /\ wire'[i].packet.seq = (begin.rtpSeq + ((i - len) - 1)) % SeqSize
             /\ wire'[i].packet.nonce = (api.pNonce + ((i - len) - 1)) % NonceSize
  <2> DEFINE m == i - len
  <2>1. wire'[i] = quiet[m] /\ m \in 1..Silence
    BY <1>8, <1>9
  <2> HIDE DEF m
  <2>2. /\ quiet[m].known = described /\ quiet[m].packet.key = api.secretKey /\ quiet[m].packet.item = 0
        /\ quiet[m].packet.seq = (begin.rtpSeq + (m - 1)) % SeqSize
        /\ quiet[m].packet.nonce = (api.pNonce + (m - 1)) % NonceSize
    BY <1>6, <2>1
  <2> QED BY <2>1, <2>2 DEF m
<1>10. begin.rtpSeq \in Nat
  BY <1>2 DEF Api
<1> QED BY <1>3, <1>5, <1>8, <1>9, <1>10 DEF len

\* The silence keeps what is sent.
LEMMA SilenceSends ==
  ASSUME TypeInv, SendInv, TypeInv', NEW c \in Closers, CloseSendsSilence(c)
  PROVE  SendInv'
<1>1. /\ closer[c] = "silence" /\ closer' = [closer EXCEPT ![c] = "closed"] /\ (app' = "free" \/ app' = app)
      /\ UNCHANGED <<uth, th, voiceDataQueue, toSend, frames, described, co, updates, handler, voiceinfo,
                     server, conn>>
  BY DEF CloseSendsSilence, At, UnchangedByClose, infoVars, discordVars, socketVars
<1>2. closer \in [Closers -> {"out", "erase", "join th", "join uth", "silence", "closed"}]
  BY Typed
<1>3. CASE UNCHANGED <<api, sendDataQueue, wire>>
  <2>1. Still
    BY <1>1, <1>3 DEF Still
  <2>2. Settled => Settled'
    BY <1>1, <1>2, <1>3 DEF Settled
  <2> QED BY <2>1, <2>2, StillSends
<1>4. CASE SendSilence /\ ~api.silenceSent
  <2> DEFINE begin == IF sendDataQueue = <<>> THEN api ELSE [api EXCEPT !.rtpSeq = Head(sendDataQueue).seq]
  <2>1. /\ sendDataQueue' = <<>> /\ api'.silenceSent /\ api'.secretKey = api.secretKey
        /\ \A i \in 1..Len(wire) : wire'[i] = wire[i]
        /\ \A i \in 1..Len(wire') : i \in 1..Len(wire) \/ (i - Len(wire)) \in 1..Silence
        /\ \A i \in 1..Len(wire') : (i - Len(wire)) \in 1..Silence =>
             wire'[i].known = described /\ wire'[i].packet.key = api.secretKey
    BY <1>4, SilenceSays
  <2>2. HandInv /\ KeyInv /\ described \in Nat
    BY Typed DEF SendInv
  <2>3. \A i \in 1..Len(wire') : \/ ~Stale(i)' /\ wire'[i].known = described
                                 \/ i \in 1..Len(wire) /\ wire'[i] = wire[i]
    BY <2>1, <2>2 DEF Stale, KeyInv
  <2>4. KeyInv'
    <3>1. api'.secretKey = described'
      BY <1>1, <2>1, <2>2 DEF KeyInv
    <3> QED BY <2>2, <2>3, <3>1 DEF KeyInv, Stale
  <2>5. HandInv' /\ CountInv'
    <3>1. uth' \notin {"send", "prepare"}
      BY <1>1 DEF SendInv, Unused, Settled
    <3>2. Len(sendDataQueue') = 0
      BY <2>1
    <3> QED BY <2>1, <3>1, <3>2 DEF HandInv, CountInv
  <2>6. Unused => Unused'
    BY <1>1, <2>1, <2>3 DEF Unused, Stale
  <2>7. Settled => Settled'
    BY <1>1, <1>2, <2>1 DEF Settled
  <2>8. Speaks => Speaks'
    <3>1. \A i \in 1..Len(wire') : Speaks => wire'[i].known <= described
      BY <2>2, <2>3 DEF Speaks
    <3>2. \A i \in 1..Len(sendDataQueue') : FALSE
      BY <2>1
    <3> QED BY <1>1, <2>1, <3>1, <3>2 DEF Speaks
  <2> QED BY <2>4, <2>5, <2>6, <2>7, <2>8 DEF SendInv
<1> QED BY <1>3, <1>4 DEF CloseSendsSilence, SendSilence, SilenceFrom

\* Every step keeps what is sent.
LEMMA SendInductive ==
  ASSUME TypeInv, SendInv, [Next]_vars
  PROVE  TypeInv' /\ SendInv'
<1>0. TypeInv'
  BY StepTypes DEF SendInv
<1>1. CASE UNCHANGED vars
  BY <1>0, <1>1, ConnectionSends
<1>2. CASE Next
  <2>1. ASSUME NEW k \in Kinds, HandlerStep(k)
        PROVE  SendInv'
    BY <1>0, <2>1, ConnectionSends
  <2>2. CASE Connect \/ ConnectStep \/ Move \/ ListenReady \/ ListenClosed \/ ListenResumes \/ ListenStep
    BY <1>0, <2>2, ConnectionSends
  <2>3. CASE HandleSessionDescription
    BY <1>0, <2>3, DescriptionSends
  <2>4. ASSUME NEW c \in Closers, CloseStops(c) \/ CloseStep(c)
        PROVE  SendInv'
    BY <1>0, <2>4, ClosingSends, SilenceSends DEF CloseStep
  <2>5. ASSUME NEW some \in 1..MaxFrames, SendPcmData(some), UNCHANGED connectionVars
        PROVE  SendInv'
    BY <1>0, <2>5, ClosingSends
  <2>6. CASE AppReturns /\ UNCHANGED connectionVars
    BY <1>0, <2>6, ClosingSends, OpusSends DEF AppReturns
  <2>7. CASE UdpLoop /\ UNCHANGED connectionVars
    BY <1>0, <2>7, UdpLoopSends
  <2> QED BY <1>0, <1>2, <2>1, <2>2, <2>3, <2>4, <2>5, <2>6, <2>7 DEF Next
<1> QED BY <1>0, <1>1, <1>2

\* A connection begins with nothing sent.
LEMMA InitSends ==
  ASSUME Init
  PROVE  SendInv
<1>0. MaxFrames \in Nat /\ SeqSize \in Nat \ {0} /\ FirstNonce \in 0..(NonceSize - 1) /\ NonceSize \in Nat \ {0}
  BY SenderAssumption
<1>1. /\ Len(wire) = 0 /\ Len(sendDataQueue) = 0 /\ Len(voiceDataQueue) = 0
      /\ frames \in {0, MaxFrames} /\ api.rtpSeq = 0 /\ api.pNonce = FirstNonce
      /\ api.secretKey = 0 /\ ~api.silenceSent /\ described = 0
  BY DEF Init, New, Connected
<1>2. HandInv
  BY <1>1 DEF Init, HandInv
<1>3. CountInv
  <2>1. (FirstNonce + (0 + 0)) % NonceSize = FirstNonce /\ (0 + 0) % SeqSize = 0
    BY <1>0
  <2> QED BY <1>0, <1>1, <2>1 DEF CountInv, Counted
<1>4. KeyInv
  BY <1>1 DEF KeyInv
<1>5. New => Unused
  BY <1>1 DEF Init, New, Unused
<1>6. Connected => Settled /\ Speaks
  <2>1. Connected => voiceinfo.server = 1 /\ server = 1 /\ conn = 1 /\ frames = 0
    BY DEF Connected, Kinds
  <2> QED BY <1>0, <1>1, <2>1 DEF Init, Connected, Settled, Speaks
<1> QED BY <1>2, <1>3, <1>4, <1>5, <1>6 DEF Init, SendInv

-----------------------------------------------------------------------------
(* The order of the packets *)

\* Once silence is sent nothing more is, and only silence makes it so.
LEMMA SilenceAlone ==
  ASSUME TypeInv, SendInv, [Next]_vars
  PROVE  /\ api.silenceSent => UNCHANGED <<wire, sendDataQueue>> /\ api'.rtpSeq = api.rtpSeq
         /\ ~api.silenceSent /\ api'.silenceSent => SendSilence
<1> DEFINE Mute == /\ UNCHANGED <<wire, sendDataQueue>>
                   /\ api'.rtpSeq = api.rtpSeq /\ api'.silenceSent = api.silenceSent
           Goal == /\ api.silenceSent => UNCHANGED <<wire, sendDataQueue>> /\ api'.rtpSeq = api.rtpSeq
                   /\ ~api.silenceSent /\ api'.silenceSent => SendSilence
<1>0. Mute => Goal
  OBVIOUS
<1> HIDE DEF Goal
<1>1. api \in Api
  BY Typed
<1>2. CASE Connect \/ AwaitReady \/ AwaitSuspend \/ ConnectBody \/ Move \/ UNCHANGED vars
  <2>1. Mute
    BY <1>1, <1>2 DEF Connect, AwaitReady, AwaitSuspend, ConnectBody, Move, NoHello, Api, senderVars, vars
  <2> QED BY <1>0, <2>1 DEF Goal
<1>3. ASSUME NEW k \in Kinds, HandlerStep(k)
      PROVE  Goal
  BY <1>0, <1>3 DEF HandlerStep, SetInfo, CheckReady, TakeInfo, Resume, Resumed, UnchangedByHandlers,
     senderVars
<1>4. CASE ListenReady \/ HandleSessionDescription \/ ListenClosed \/ ListenResumes
  <2>1. Mute
    BY <1>1, <1>4 DEF ListenReady, HandleSessionDescription, ListenClosed, ListenResumes, Gets, Listens,
       Quiet,
                      UnchangedByListen, Api
  <2> QED BY <1>0, <2>1 DEF Goal
<1>5. CASE ListenStep
  <2>1. Mute
    BY <1>1, <1>5 DEF ListenStep, IpDiscovery, ListenChanged, ListenReconnect, ListenEnds, NoHello, Quiet,
                      UnchangedByListen, Api
  <2> QED BY <1>0, <2>1 DEF Goal
<1>6. ASSUME NEW c \in Closers, CloseStops(c) \/ CloseNotifies(c) \/ CloseJoinsListen(c) \/ CloseJoinsUdp(c)
      PROVE  Goal
  BY <1>0, <1>1, <1>6 DEF CloseStops, CloseNotifies, CloseJoinsListen, CloseJoinsUdp, UnchangedByClose, At,
     Api,
                          senderVars
<1>7. ASSUME NEW c \in Closers, CloseSendsSilence(c)
      PROVE  Goal
  BY <1>7 DEF CloseSendsSilence, SendSilence, SilenceFrom, Goal
<1>8. ASSUME NEW some \in 1..MaxFrames, SendPcmData(some)
      PROVE  Goal
  BY <1>0, <1>8 DEF SendPcmData
<1>9. CASE AppReturns \/ UdpBlocks
  BY <1>0, <1>9 DEF AppReturns, SendOpusData, Flush, FlushBlocks, UdpBlocks
<1>10. CASE UdpTake \/ UdpSend \/ UdpPrepare
  <2>1. api.silenceSent => Mute
    BY <1>10 DEF UdpTake, UdpSend, UdpPrepare, SomethingToSend, SendInv, Unused, Settled
  <2>2. api'.silenceSent = api.silenceSent
    BY <1>1, <1>10, Frames DEF UdpTake, UdpSend, UdpPrepare, FrameFront
  <2> QED BY <2>1, <2>2 DEF Goal
<1>11. CASE Next
  <2>1. CASE Connect \/ ConnectStep \/ Move
    BY <1>2, <2>1 DEF ConnectStep
  <2>2. CASE ListenReady \/ HandleSessionDescription \/ ListenClosed \/ ListenResumes \/ ListenStep
    BY <1>4, <1>5, <2>2
  <2>3. ASSUME NEW c \in Closers, CloseStops(c) \/ CloseStep(c)
        PROVE  Goal
    BY <1>6, <1>7, <2>3 DEF CloseStep
  <2>4. CASE AppReturns \/ UdpLoop
    BY <1>9, <1>10, <2>4 DEF UdpLoop
  <2> QED BY <1>3, <1>8, <1>11, <2>1, <2>2, <2>3, <2>4 DEF Next, Goal
<1> QED BY <1>2, <1>11

\* The packets on the wire and after them the one in hand.
LEMMA MadeIs ==
  ASSUME NEW sent \in Seq(Sending), NEW hand \in Seq(Packet),
         NEW packets, packets = [i \in DOMAIN sent |-> sent[i].packet]
  PROVE  /\ DOMAIN packets = 1..Len(sent) /\ \A i \in 1..Len(sent) : packets[i] = sent[i].packet
         /\ Len(packets \o hand) = Len(sent) + Len(hand)
         /\ DOMAIN (packets \o hand) = 1..(Len(sent) + Len(hand))
         /\ \A i \in 1..Len(sent) : (packets \o hand)[i] = sent[i].packet
         /\ \A i \in 1..(Len(sent) + Len(hand)) : i \in 1..Len(sent) \/
              ((i - Len(sent)) \in 1..Len(hand) /\ (packets \o hand)[i] = hand[i - Len(sent)])
<1>1. \A i \in 1..Len(sent) : sent[i].packet \in Packet
  <2>1. \A i \in 1..Len(sent) : sent[i] \in Sending
    OBVIOUS
  <2> QED BY <2>1 DEF Sending
<1>2. packets \in [1..Len(sent) -> Packet] /\ Len(sent) \in Nat /\ Len(hand) \in Nat
  BY <1>1
<1>3. packets \in Seq(Packet) /\ Len(packets) = Len(sent)
  BY <1>2
<1>4. /\ Len(packets \o hand) = Len(sent) + Len(hand) /\ DOMAIN (packets \o hand) = 1..(Len(sent) + Len(hand))
      /\ \A i \in 1..Len(sent) : (packets \o hand)[i] = packets[i]
  BY <1>2, <1>3
<1>5. ASSUME NEW i \in 1..(Len(sent) + Len(hand))
      PROVE  i \in 1..Len(sent) \/
              ((i - Len(sent)) \in 1..Len(hand) /\ (packets \o hand)[i] = hand[i - Len(sent)])
  BY <1>2, <1>3
<1> QED BY <1>2, <1>4, <1>5

\* Packets that are counted are in order, as long as there are nonces for all.
LEMMA CountedInOrder ==
  ASSUME TypeInv, Counted, MaxFrames + Silence <= NonceSize
  PROVE  PacketsInOrder
<1> DEFINE len == Len(wire)
           q == Len(sendDataQueue)
<1>1. wire \in Seq(Sending) /\ sendDataQueue \in Seq(Packet) /\ voiceDataQueue \in Seq(Nat) /\ frames \in Nat
  BY Typed
<1>2. /\ MaxFrames \in Nat /\ Silence \in Nat /\ FirstNonce \in Nat /\ NonceSize \in Nat \ {0}
      /\ len \in Nat /\ q \in Nat /\ Len(voiceDataQueue) \in Nat
  BY <1>1, SenderAssumption
<1>3. /\ DOMAIN Packets = 1..len /\ \A i \in 1..len : Packets[i] = wire[i].packet
      /\ Len(Made) = len + q /\ DOMAIN Made = 1..(len + q)
      /\ \A i \in 1..len : Made[i] = wire[i].packet
      /\ \A i \in 1..(len + q) : i \in 1..len \/ ((i - len) \in 1..q /\ Made[i] = sendDataQueue[i - len])
  BY <1>1, MadeIs DEF Packets, Made
<1>4. len <= NonceSize
  <2>1. len + q + Len(voiceDataQueue) <= frames /\ frames <= MaxFrames
    BY DEF Counted
  <2> QED BY <1>1, <1>2, <2>1
<1>5. /\ \A i \in 1..len : Nth(wire[i].packet, i)
      /\ api.rtpSeq = (len + q) % SeqSize
  BY DEF Counted
<1> DEFINE InHand(i) == Nth(sendDataQueue[i], len + i)
<1>5a. \A i \in 1..q : InHand(i)
  BY DEF Counted
<1> HIDE DEF len, q, InHand
<1>6. ASSUME NEW i \in 1..len, NEW j \in 1..len, i < j
      PROVE  /\ Packets[i].nonce # Packets[j].nonce
             /\ Packets[j].item = 0 \/ (Packets[i].item # 0 /\ Packets[i].item < Packets[j].item)
  <2> DEFINE a == FirstNonce + (i - 1)
             b == FirstNonce + (j - 1)
  <2>1. a \in Nat /\ b \in Nat /\ a < b /\ b < a + NonceSize /\ i # 0
    BY <1>2, <1>4, <1>6
  <2>2. Packets[i].nonce = a % NonceSize /\ Packets[j].nonce = b % NonceSize
        /\ Packets[i].item = i /\ Packets[j].item = j
    BY <1>3, <1>5 DEF Nth
  <2> HIDE DEF a, b
  <2>3. a % NonceSize # b % NonceSize
    BY <1>2, <2>1, RemaindersApart
  <2> QED BY <1>6, <2>1, <2>2, <2>3
<1>7. ASSUME NEW i \in 1..(len + q)
      PROVE  Made[i].seq = (i - 1) % SeqSize
  <2>1. CASE i \in 1..len
    BY <1>3, <1>5, <2>1 DEF Nth
  <2>2. CASE (i - len) \in 1..q /\ Made[i] = sendDataQueue[i - len]
    <3> DEFINE m == i - len
    <3>1. m \in 1..q /\ len + m = i /\ Made[i] = sendDataQueue[m]
      BY <1>2, <2>2
    <3> HIDE DEF m
    <3>2. InHand(m)
      BY <1>5a, <3>1
    <3> QED BY <3>1, <3>2 DEF Nth, InHand
  <2> QED BY <1>3, <2>1, <2>2
<1> QED BY <1>3, <1>5, <1>6, <1>7 DEF PacketsInOrder

\* The silence at the end counts on from the packet it takes back.
LEMMA SilenceInOrder ==
  ASSUME TypeInv, TypeInv', SendInv, ~api.silenceSent, SendSilence, MaxFrames + Silence <= NonceSize
  PROVE  PacketsInOrder'
<1> DEFINE len == Len(wire)
           q == Len(sendDataQueue)
           begin == IF sendDataQueue = <<>> THEN api ELSE [api EXCEPT !.rtpSeq = Head(sendDataQueue).seq]
           Off(i) == IF i <= len THEN i - 1 ELSE q + (i - 1)
<1>0. Counted /\ q <= 1
  BY DEF SendInv, CountInv, HandInv
<1>1. /\ wire \in Seq(Sending) /\ sendDataQueue \in Seq(Packet) /\ voiceDataQueue \in Seq(Nat) /\ frames \in Nat
      /\ api \in Api
  BY Typed
<1>2. wire' \in Seq(Sending) /\ sendDataQueue' \in Seq(Packet)
  BY DEF TypeInv, SenderTypes, QueueTypes
<1>3. /\ MaxFrames \in Nat /\ Silence \in Nat /\ FirstNonce \in Nat /\ NonceSize \in Nat \ {0}
      /\ SeqSize \in Nat \ {0} /\ len \in Nat /\ q \in Nat /\ Len(voiceDataQueue) \in Nat
  BY <1>1, SenderAssumption
<1>4. /\ sendDataQueue' = <<>> /\ Len(wire') = len + Silence
      /\ api'.rtpSeq = (begin.rtpSeq + Silence) % SeqSize
      /\ \A i \in 1..len : wire'[i] = wire[i]
      /\ \A i \in 1..Len(wire') : i \in 1..len \/ (i - len) \in 1..Silence
      /\ \A i \in 1..Len(wire') : (i - len) \in 1..Silence =>
           /\ wire'[i].packet.item = 0
           /\ wire'[i].packet.seq = (begin.rtpSeq + ((i - len) - 1)) % SeqSize
           /\ wire'[i].packet.nonce = (api.pNonce + ((i - len) - 1)) % NonceSize
  BY SilenceSays
<1>5. begin.rtpSeq = len % SeqSize
  <2>1. CASE sendDataQueue = <<>>
    <3>1. q = 0
      BY <2>1
    <3>2. api.rtpSeq = (len + q) % SeqSize
      BY <1>0 DEF Counted
    <3> QED BY <1>3, <2>1, <3>1, <3>2
  <2>2. CASE sendDataQueue # <<>>
    <3>1. q # 0 /\ Head(sendDataQueue) = sendDataQueue[1]
      BY <1>1, <2>2
    <3>2. q = 1
      <4>1. q \in Nat /\ q <= 1
        BY <1>0, <1>3
      <4> HIDE DEF q
      <4> QED BY <3>1, <4>1
    <3>3. Nth(sendDataQueue[1], len + 1)
      BY <1>0, <3>2 DEF Counted
    <3>4. (len + 1) - 1 = len
      BY <1>3
    <3>5. Head(sendDataQueue).seq = len % SeqSize
      BY <3>1, <3>3, <3>4 DEF Nth
    <3> QED BY <1>1, <2>2, <3>5 DEF Api
  <2> QED BY <2>1, <2>2
<1>6. /\ len + q + Len(voiceDataQueue) <= frames /\ frames <= MaxFrames
      /\ \A i \in 1..len : Nth(wire[i].packet, i)
      /\ api.pNonce = (FirstNonce + (len + q)) % NonceSize
  BY <1>0 DEF Counted
<1>7. /\ DOMAIN Packets' = 1..(len + Silence) /\ \A i \in 1..(len + Silence) : Packets'[i] = wire'[i].packet
      /\ Len(Made') = len + Silence /\ DOMAIN Made' = 1..(len + Silence)
      /\ \A i \in 1..(len + Silence) : Made'[i] = wire'[i].packet
  <2>1. Len(sendDataQueue') = 0 /\ Len(wire') + 0 = len + Silence
    BY <1>3, <1>4
  <2> HIDE DEF len
  <2> QED BY <1>2, <1>4, <2>1, MadeIs DEF Packets, Made
<1> DEFINE pre == begin.rtpSeq
<1>8. api'.rtpSeq = (pre + Silence) % SeqSize /\ pre = len % SeqSize
      /\ \A i \in 1..(len + Silence) : (i - len) \in 1..Silence =>
           /\ wire'[i].packet.item = 0
           /\ wire'[i].packet.seq = (pre + ((i - len) - 1)) % SeqSize
           /\ wire'[i].packet.nonce = (api.pNonce + ((i - len) - 1)) % NonceSize
  BY <1>4, <1>5
<1>9. \A i \in 1..(len + Silence) : i \in 1..len \/ (i - len) \in 1..Silence
  BY <1>4
<1>10. \A i \in 1..len : Nth(wire'[i].packet, i)
  BY <1>4, <1>6
<1> HIDE DEF len, q, begin, pre
<1>11. ASSUME NEW i \in 1..(len + Silence)
       PROVE  /\ wire'[i].packet.seq = (i - 1) % SeqSize
              /\ wire'[i].packet.nonce = (FirstNonce + Off(i)) % NonceSize
              /\ Off(i) \in Nat /\ Off(i) < NonceSize
              /\ wire'[i].packet.item = IF i <= len THEN i ELSE 0
  <2>1. CASE i \in 1..len
    <3>1. Off(i) = i - 1 /\ i - 1 \in Nat /\ i - 1 < NonceSize /\ i <= len
      BY <1>3, <1>1, <1>6, <2>1
    <3>2. Nth(wire'[i].packet, i)
      BY <1>10, <2>1
    <3> QED BY <3>1, <3>2 DEF Nth
  <2>2. CASE (i - len) \in 1..Silence
    <3> DEFINE n == (i - len) - 1
               far == FirstNonce + (len + q)
    <3>1. n \in Nat /\ far \in Nat /\ ~(i <= len) /\ len + n = i - 1 /\ far + n = FirstNonce + Off(i)
          /\ Off(i) \in Nat /\ Off(i) < NonceSize
      BY <1>3, <1>1, <1>6, <2>2
    <3>2. /\ wire'[i].packet.item = 0 /\ wire'[i].packet.seq = (pre + n) % SeqSize
          /\ wire'[i].packet.nonce = (api.pNonce + n) % NonceSize /\ api.pNonce = far % NonceSize
      BY <1>6, <1>8, <2>2
    <3> HIDE DEF n, far
    <3>3. ((len % SeqSize) + n) % SeqSize = (len + n) % SeqSize
      BY <1>3, <3>1, RemainderOn
    <3>4. ((far % NonceSize) + n) % NonceSize = (far + n) % NonceSize
      BY <1>3, <3>1, RemainderOn
    <3> QED BY <1>8, <3>1, <3>2, <3>3, <3>4
  <2> QED BY <1>9, <2>1, <2>2
<1>12. ASSUME NEW i \in 1..(len + Silence), NEW j \in 1..(len + Silence), i < j
       PROVE  /\ Packets'[i].nonce # Packets'[j].nonce
              /\ Packets'[j].item = 0 \/ (Packets'[i].item # 0 /\ Packets'[i].item < Packets'[j].item)
  <2> DEFINE a == FirstNonce + Off(i)
             b == FirstNonce + Off(j)
  <2>0. Off(i) \in Nat /\ Off(j) \in Nat /\ Off(j) < NonceSize
    BY <1>11
  <2>1. Off(i) < Off(j)
    BY <1>3, <1>12
  <2>2. a \in Nat /\ b \in Nat /\ a < b /\ b < a + NonceSize
    <3> HIDE DEF Off
    <3> QED BY <1>3, <2>0, <2>1
  <2>3. Packets'[i].nonce = a % NonceSize /\ Packets'[j].nonce = b % NonceSize
        /\ Packets'[i].item = (IF i <= len THEN i ELSE 0) /\ Packets'[j].item = (IF j <= len THEN j ELSE 0)
    BY <1>7, <1>11
  <2> HIDE DEF a, b
  <2>4. a % NonceSize # b % NonceSize
    BY <1>3, <2>2, RemaindersApart
  <2> QED BY <1>3, <1>12, <2>3, <2>4
<1>13. api'.rtpSeq = Len(Made') % SeqSize
  <2>1. ((len % SeqSize) + Silence) % SeqSize = (len + Silence) % SeqSize
    BY <1>3, RemainderOn
  <2> QED BY <1>7, <1>8, <2>1
<1>14. \A i \in DOMAIN Made' : Made'[i].seq = (i - 1) % SeqSize
  BY <1>7, <1>11
<1> HIDE DEF Off
<1>15. \A i, j \in DOMAIN Packets' : i < j =>
          /\ Packets'[i].nonce # Packets'[j].nonce
          /\ Packets'[j].item = 0 \/ (Packets'[i].item # 0 /\ Packets'[i].item < Packets'[j].item)
  BY <1>7, <1>12
<1> QED BY <1>13, <1>14, <1>15 DEF PacketsInOrder

-----------------------------------------------------------------------------
(* The theorems *)

\* Two packets that a server cannot read have been sent to two servers.
LEMMA OneIsStale ==
  ASSUME TypeInv, KeyInv
  PROVE  OneStalePacket
<1> SUFFICES ASSUME NEW s \in 1..MaxServers
             PROVE  Cardinality({i \in DOMAIN wire : wire[i].to = s /\ wire[i].known = s
                                                      /\ wire[i].packet.key # s}) <= 1
  BY DEF OneStalePacket
<1> DEFINE stale == {i \in DOMAIN wire : wire[i].to = s /\ wire[i].known = s /\ wire[i].packet.key # s}
<1>1. DOMAIN wire = 1..Len(wire)
  <2>1. wire \in Seq(Sending)
    BY Typed
  <2> QED BY <2>1
<1>2. \A i, j \in stale : i = j
  BY <1>1 DEF KeyInv, Stale
<1>3. CASE stale = {}
  BY <1>3, FS_EmptySet
<1>4. CASE stale # {}
  <2>1. PICK i \in stale : TRUE
    BY <1>4
  <2>2. stale = {i}
    BY <1>2, <2>1
  <2>3. Cardinality({i}) = 1
    BY FS_Singleton
  <2> QED BY <2>2, <2>3
<1> QED BY <1>3, <1>4

\* What is sent and what may follow is as SendInv says, in every behaviour: the
\* packets are counted, one is in hand, and the key in use is the last described.
THEOREM VoiceInvariant == Spec => [](TypeInv /\ SendInv)
<1>1. Init => TypeInv /\ SendInv
  BY InitTypes, InitSends
<1>2. TypeInv /\ SendInv /\ [Next]_vars => (TypeInv /\ SendInv)'
  BY SendInductive
<1> QED BY <1>1, <1>2, PTL DEF Spec

\* The connection is resumed once, with information that is whole, and is not
\* left suspended (connect, voiceServerUpdate).
THEOREM VoiceConnectsOnce == Spec => []ConnectsOnce
<1>1. Init => ConnectInv
  BY InitConnects
<1>2. TypeInv /\ SendInv /\ ConnectInv /\ [Next]_vars => ConnectInv'
  BY ConnectInductive
<1>3. ConnectInv => ConnectsOnce
  BY DEF ConnectInv
<1> QED BY <1>1, <1>2, <1>3, VoiceInvariant, PTL DEF Spec

\* Nobody sleeps whom nobody will wake, but for who missed a notification (close, flush).
THEOREM VoiceNobodyForgotten == Spec => []NobodyForgotten
<1>1. Init => ForgetInv
  BY InitForgets
<1>2. TypeInv /\ SendInv /\ ForgetInv /\ [Next]_vars => ForgetInv'
  BY ForgetInductive
<1>3. ForgetInv => NobodyForgotten
  BY DEF ForgetInv
<1> QED BY <1>1, <1>2, <1>3, VoiceInvariant, PTL DEF Spec

\* A server is sent at most one packet it cannot decrypt after its session
\* description (handleSessionDescription, udpLoop).
THEOREM VoiceOneStalePacket == Spec => []OneStalePacket
<1>1. TypeInv /\ SendInv => OneStalePacket
  BY OneIsStale DEF SendInv
<1> QED BY <1>1, VoiceInvariant, PTL

\* As long as there are nonces for all packets, they go out in the order of the
\* frames, sequence numbers without gap (udpLoop, sendSilence).
THEOREM VoicePacketsInOrder ==
  ASSUME MaxFrames + Silence <= NonceSize
  PROVE  Spec => []PacketsInOrder
<1> DEFINE EndInv == api.silenceSent => PacketsInOrder
<1>1. Init => EndInv
  BY DEF Init, New, Connected
<1>2. TypeInv /\ SendInv /\ EndInv /\ (TypeInv /\ SendInv)' /\ [Next]_vars => EndInv'
  <2> SUFFICES ASSUME TypeInv, SendInv, EndInv, TypeInv', [Next]_vars, api'.silenceSent
               PROVE  PacketsInOrder'
    OBVIOUS
  <2>1. CASE api.silenceSent
    <3>1. UNCHANGED <<wire, sendDataQueue>> /\ api'.rtpSeq = api.rtpSeq
      BY <2>1, SilenceAlone
    <3> QED BY <2>1, <3>1 DEF PacketsInOrder, Made, Packets
  <2>2. CASE ~api.silenceSent
    BY <2>2, SilenceAlone, SilenceInOrder
  <2> QED BY <2>1, <2>2
<1>3. TypeInv /\ SendInv /\ EndInv => PacketsInOrder
  BY CountedInOrder DEF SendInv, CountInv
<1> QED BY <1>1, <1>2, <1>3, VoiceInvariant, PTL DEF Spec
=============================================================================
