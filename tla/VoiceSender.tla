----------------------------- MODULE VoiceSender -----------------------------
(***************************************************************************)
(* Sending over a voice connection (src/src/voice/opus.cpp, speaking.cpp,  *)
(* encrypt.cpp): the application's thread queues frames, the UDP thread    *)
(* makes packets of them, one ahead of the one it sends, and whoever       *)
(* closes the connection ends with packets of silence.                     *)
(*                                                                         *)
(* A frame is its number, a packet what tells it apart; timestamps go with *)
(* sequence numbers, and whether the socket takes a packet changes nothing *)
(* here.  A thread that has evaluated the predicate of a wait and found it *)
(* false is "blocking" before it is "waiting": notify wakes only who is    *)
(* waiting.                                                                *)
(***************************************************************************)
EXTENDS Naturals, Sequences, FiniteSets

CONSTANTS
    None,
    MaxFrames,  \* bound: the application sends
    Silence,    \* packets of silence at the end, 5 in the code
    SeqSize,    \* 2^16: sequence numbers
    NonceSize,  \* 2^32: nonces
    FirstNonce  \* drawn at random, for every behaviour the same

ASSUME SenderAssumption ==
    /\ MaxFrames \in Nat /\ {Silence, SeqSize, NonceSize} \subseteq Nat \ {0}
    /\ FirstNonce \in 0..(NonceSize - 1)

VARIABLES
    api,             \* VoiceApiInfo and udpInterrupt
    voiceDataQueue, sendDataQueue,
    uth,             \* the UDP thread
    app,             \* the application's thread
    flush,           \* where in flush it is
    toSend, frames,  \* left of the call, and sent in all
    wire,            \* the packets given to the socket
    lost,            \* history: who missed a notification while blocking
    described        \* history: the server whose secret key came last

senderVars == <<api, voiceDataQueue, sendDataQueue, uth, app, flush, toSend, frames, wire, lost, described>>

Woken(thread) == IF thread = "waiting" THEN "woken" ELSE thread
Missed(thread, name) == IF thread = "blocking" THEN {name} ELSE {}

(* frameRtp and transportEncrypt: a packet, and the counters after some.   *)
FrameRtp(item, info) ==
    [item |-> item, seq |-> info.rtpSeq, nonce |-> info.pNonce, ssrc |-> info.ssrc, key |-> info.secretKey]
Framed(info, n) == [info EXCEPT !.rtpSeq = (@ + n) % SeqSize, !.pNonce = (@ + n) % NonceSize]

(* What goes out, where to and what the bot has been told of the place.    *)
Sent(packet) == [packet |-> packet, to |-> api.dest, known |-> described]

FrameFront ==
    /\ sendDataQueue' = <<FrameRtp(Head(voiceDataQueue), api)>>
    /\ voiceDataQueue' = Tail(voiceDataQueue)
    /\ api' = Framed(api, 1)

-----------------------------------------------------------------------------
(* The application.                                                        *)

SendPcmData(n) ==
    /\ app = "free" /\ ~api.stop
    /\ frames + n <= MaxFrames
    /\ app' = "send" /\ toSend' = n
    /\ UNCHANGED <<api, voiceDataQueue, sendDataQueue, uth, flush, frames, wire, lost, described>>

(* One frame: it waits for READY in a loop.  The UDP thread holds qmtx     *)
(* until it has blocked.                                                   *)
SendOpusData ==
    /\ app = "send"
    /\ \/ /\ api.stop
          /\ app' = "free" /\ toSend' = 0
          /\ UNCHANGED <<voiceDataQueue, uth, frames>>
       \/ /\ api.state = "READY" /\ ~api.stop /\ uth # "blocking"
          /\ voiceDataQueue' = Append(voiceDataQueue, frames + 1)
          /\ frames' = frames + 1
          /\ uth' = Woken(uth)
          /\ toSend' = toSend - 1
          /\ app' = IF toSend = 1 THEN "free" ELSE "send"
    /\ UNCHANGED <<api, sendDataQueue, flush, wire, lost, described>>

(* It returns at once, or waits.                                           *)
Flush ==
    /\ (app = "free" /\ flush = "none") \/ flush = "woken"
    /\ IF voiceDataQueue = <<>> \/ api.stop
       THEN flush' = "none" /\ app' = "free"
       ELSE flush' = "blocking" /\ app' = "flush"
    /\ UNCHANGED <<api, voiceDataQueue, sendDataQueue, uth, toSend, frames, wire, lost, described>>

FlushBlocks ==
    /\ flush = "blocking" /\ flush' = "waiting"
    /\ UNCHANGED <<api, voiceDataQueue, sendDataQueue, uth, app, toSend, frames, wire, lost, described>>

-----------------------------------------------------------------------------
(* The UDP thread.                                                         *)

SomethingToSend == (voiceDataQueue # <<>> \/ sendDataQueue # <<>>) /\ ~api.udpInterrupt

(* From the top of the loop, or woken, to a packet in hand.                *)
UdpTake ==
    /\ uth \in {"top", "woken"}
    /\ IF uth = "top" /\ ~api.stop /\ voiceDataQueue = <<>>
       THEN flush' = Woken(flush) /\ lost' = lost \union Missed(flush, "flush")
       ELSE UNCHANGED <<flush, lost>>
    /\ \/ /\ api.stop
          /\ uth' = "end"
          /\ UNCHANGED <<api, voiceDataQueue, sendDataQueue>>
       \/ /\ ~api.stop /\ ~SomethingToSend
          /\ uth' = "blocking"
          /\ UNCHANGED <<api, voiceDataQueue, sendDataQueue>>
       \/ /\ ~api.stop /\ SomethingToSend
          /\ uth' = "send"
          /\ IF sendDataQueue = <<>> THEN FrameFront
             ELSE UNCHANGED <<api, voiceDataQueue, sendDataQueue>>
    /\ UNCHANGED <<app, toSend, frames, wire, described>>

UdpBlocks ==
    /\ uth = "blocking" /\ uth' = "waiting"
    /\ UNCHANGED <<api, voiceDataQueue, sendDataQueue, app, flush, toSend, frames, wire, lost, described>>

UdpSend ==
    /\ uth = "send" /\ uth' = "prepare"
    /\ wire' = Append(wire, Sent(Head(sendDataQueue)))
    /\ sendDataQueue' = <<>>
    /\ UNCHANGED <<api, voiceDataQueue, app, flush, toSend, frames, lost, described>>

(* The next packet is made before the pause.                               *)
UdpPrepare ==
    /\ uth = "prepare" /\ uth' = "top"
    /\ IF voiceDataQueue # <<>> /\ ~api.udpInterrupt THEN FrameFront
       ELSE UNCHANGED <<api, voiceDataQueue, sendDataQueue>>
    /\ UNCHANGED <<app, flush, toSend, frames, wire, lost, described>>

UdpLoop == UdpTake \/ UdpBlocks \/ UdpSend \/ UdpPrepare

-----------------------------------------------------------------------------
(* The thread that closes.                                                 *)

SilenceFrom(begin) ==
    IF api.silenceSent THEN UNCHANGED <<api, sendDataQueue, wire>>
    ELSE /\ sendDataQueue' = <<>>
         /\ wire' = wire \o [i \in 1..Silence |-> Sent(FrameRtp(0, Framed(begin, i - 1)))]
         /\ api' = [Framed(begin, Silence) EXCEPT !.silenceSent = TRUE]

(* Mutant: silence goes on after the packet that was not sent.             *)
SendSilenceGoesOn == SilenceFrom(api)

(* sendSilence: the packet that was made and not sent is taken back, with  *)
(* its sequence number.                                                    *)
SendSilence ==
    SilenceFrom(IF sendDataQueue = <<>> THEN api ELSE [api EXCEPT !.rtpSeq = Head(sendDataQueue).seq])

=============================================================================
