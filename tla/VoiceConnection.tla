--------------------------- MODULE VoiceConnection ---------------------------
(***************************************************************************)
(* A voice connection (src/src/voice/voiceconnection.cpp, recv.cpp,        *)
(* ready.cpp, voiceServerUpdate.cpp): the coroutine that connects, the two *)
(* dispatch handlers that tell it where to, the listen thread, and the     *)
(* threads that close it; sending is VoiceSender's.                        *)
(*                                                                         *)
(* The gateways are external.  A voice server is a number; its endpoint,   *)
(* token, ssrc and secret key go by the same number, 0 for unset.          *)
(***************************************************************************)
EXTENDS VoiceSender

CONSTANTS MaxServers, MaxCloses

ASSUME ConnectionAssumption ==
    /\ MaxServers \in Nat \ {0} /\ MaxCloses \in Nat
    /\ None \notin {"hello", "erased", "resumed", "bot", "dave", "assert"}

VARIABLES
    task, voiceTaskmtx,  \* the entry of voiceTaskList, and who holds its mutex
    bot,                 \* whether the connection still knows the bot
    dave,                \* whether there is a Dave object
    voiceinfo, voiceServerUpdateFlag,
    hp, co,              \* the stored handle, and the coroutine
    handler,             \* of VOICE_STATE_UPDATE and of VOICE_SERVER_UPDATE
    th,                  \* the listen thread
    closer,              \* who is in close
    server, updates,     \* where Discord wants the bot, and what is still to be told
    conn, inbox, closes, \* the other end of the web socket, its messages, its failures
    connectedWith, raced, early,  \* history
    died                 \* why the process ended

discordVars == <<server, updates>>
socketVars == <<conn, inbox, closes>>
historyVars == <<connectedWith, raced, early>>
infoVars == <<voiceinfo, voiceServerUpdateFlag>>
vars == <<senderVars, task, voiceTaskmtx, bot, dave, infoVars, hp, co, handler, th, closer,
          discordVars, socketVars, historyVars, died>>

Kinds == {"state", "server"}
Closers == {"app", "other"}
Other(k) == CHOOSE l \in Kinds : l # k
Blank == [state |-> 0, server |-> 0]
Whole(info) == \A k \in Kinds : info[k] # 0
Running == died = None

NotifyUdp == /\ uth' = Woken(uth)
             /\ lost' = lost \union Missed(uth, "uth")
NotifyFlush == /\ flush' = Woken(flush)
               /\ lost' = lost \union Missed(flush, "flush")

(* The socket opens, and closes before the hello.                          *)
NoHello ==
    /\ api' = [api EXCEPT !.state = "CONNECTED"]
    /\ died' = "hello"

-----------------------------------------------------------------------------
(* connect, in the application's thread until it is suspended.             *)

Connect ==
    /\ app = "free" /\ co = "none" /\ dave' = TRUE
    /\ \/ co' = "done" /\ UNCHANGED <<app, task, updates>>    \* without the intent
       \/ /\ voiceTaskmtx = None
          /\ app' = "connect" /\ co' = "asked"
          /\ task' = Blank
          /\ updates' = Kinds
    /\ UNCHANGED <<api, voiceDataQueue, sendDataQueue, uth, flush, toSend, frames, wire, lost, described,
                   voiceTaskmtx, bot, infoVars, hp, handler, th, closer, server, socketVars, historyVars, died>>

AwaitReady ==
    /\ co = "asked"
    /\ co' = IF voiceServerUpdateFlag THEN "body" ELSE "suspending"
    /\ UNCHANGED <<senderVars, task, voiceTaskmtx, bot, dave, infoVars, hp, handler, th, closer,
                   discordVars, socketVars, historyVars, died>>

AwaitSuspend ==
    /\ co = "suspending"
    /\ co' = "suspended" /\ hp' = TRUE /\ app' = "free"
    /\ UNCHANGED <<api, voiceDataQueue, sendDataQueue, uth, flush, toSend, frames, wire, lost, described,
                   task, voiceTaskmtx, bot, dave, infoVars, handler, th, closer, discordVars, socketVars,
                   historyVars, died>>

(* The rest of connect, in the thread that did not suspend or resumed it.  *)
ConnectBody ==
    /\ co = "body" /\ co' = "done"
    /\ app' = IF app = "connect" THEN "free" ELSE app
    /\ voiceServerUpdateFlag' = FALSE
    /\ connectedWith' = voiceinfo
    /\ \/ UNCHANGED <<api, conn, inbox, th, died>>   \* perform fails
       \/ /\ NoHello
          /\ UNCHANGED <<conn, inbox, th>>
       \/ /\ api' = [api EXCEPT !.state = "CONNECTED"]
          /\ conn' = voiceinfo.server /\ inbox' = <<"ready", "description">>
          /\ th' = "loop"
          /\ UNCHANGED died
    /\ UNCHANGED <<voiceDataQueue, sendDataQueue, uth, flush, toSend, frames, wire, lost, described,
                   task, voiceTaskmtx, bot, dave, voiceinfo, hp, handler, closer, discordVars, closes,
                   raced, early>>

ConnectStep == AwaitReady \/ AwaitSuspend \/ ConnectBody

-----------------------------------------------------------------------------
(* The dispatch handlers.                                                  *)

UnchangedByHandlers ==
    UNCHANGED <<senderVars, voiceTaskmtx, bot, dave, th, closer, server, socketVars, connectedWith>>

(* setSessionId and NyaBot::voiceServerUpdate, as far as the unlock.       *)
SetInfo(k) ==
    /\ k \in updates /\ updates' = updates \ {k}
    /\ handler[k] = "idle"
    /\ IF task = None THEN UNCHANGED <<task, handler>>
       ELSE /\ task' = [task EXCEPT ![k] = IF k = "server" THEN server ELSE 1]
            /\ handler' = [handler EXCEPT ![k] = "check"]
    /\ UNCHANGED <<infoVars, hp, co, raced, early, died>> /\ UnchangedByHandlers

(* Mutant: one of the two messages is enough.                              *)
CheckReadyOfOne(k) ==
    /\ handler[k] = "check"
    /\ handler' = [handler EXCEPT ![k] = IF task # None /\ (\E l \in Kinds : task[l] # 0) THEN "update" ELSE "idle"]
    /\ raced' = (raced \/ (handler'[k] = "update" /\ handler[Other(k)] = "update"))
    /\ died' \in IF task = None THEN {None, "erased"} ELSE {None}
    /\ UNCHANGED <<updates, task, infoVars, hp, co, early>> /\ UnchangedByHandlers

(* task.ready(), of a task that may have been erased.                      *)
CheckReady(k) ==
    /\ handler[k] = "check"
    /\ handler' = [handler EXCEPT ![k] = IF task # None /\ Whole(task) THEN "update" ELSE "idle"]
    /\ raced' = (raced \/ (handler'[k] = "update" /\ handler[Other(k)] = "update"))
    /\ died' \in IF task = None THEN {None, "erased"} ELSE {None}
    /\ UNCHANGED <<updates, task, infoVars, hp, co, early>> /\ UnchangedByHandlers

(* VoiceConnection::voiceServerUpdate takes what the task has and leaves   *)
(* it blank.  It looks for a handle next, when there is or will be one.    *)
TakeInfo(k) ==
    /\ handler[k] = "update"
    /\ handler' = [handler EXCEPT ![k] = IF hp \/ co \in {"asked", "suspending"} THEN "resume" ELSE "idle"]
    /\ IF task = None
       THEN /\ died' \in {None, "erased"}
            /\ UNCHANGED <<voiceinfo, task>>
       ELSE /\ voiceinfo' = task /\ task' = Blank
            /\ UNCHANGED died
    /\ voiceServerUpdateFlag' = TRUE
    /\ early' = (early \/ co \in {"asked", "suspending"})
    /\ raced' = (raced \/ task = None)
    /\ UNCHANGED <<updates, hp, co>> /\ UnchangedByHandlers

Resume(k) ==
    /\ handler[k] = "resume"
    /\ IF ~hp
       THEN /\ handler' = [handler EXCEPT ![k] = "idle"]
            /\ UNCHANGED <<co, died>>
       ELSE /\ handler' = [handler EXCEPT ![k] = "resuming"]
            /\ IF co = "suspended" THEN co' = "body" /\ UNCHANGED died
               ELSE died' = "resumed" /\ UNCHANGED co
    /\ UNCHANGED <<updates, task, infoVars, hp, raced, early>> /\ UnchangedByHandlers

Resumed(k) ==
    /\ handler[k] = "resuming" /\ co = "done"
    /\ handler' = [handler EXCEPT ![k] = "idle"]
    /\ hp' = FALSE
    /\ UNCHANGED <<updates, task, infoVars, co, raced, early, died>> /\ UnchangedByHandlers

HandlerStep(k) == SetInfo(k) \/ CheckReady(k) \/ TakeInfo(k) \/ Resume(k) \/ Resumed(k)

(* Discord moves the bot to another server, or, asked by changeChannel or  *)
(* by a moderator, to another channel: then it sends both updates.  Nobody *)
(* waits for a handle any more, and the handlers are one step.             *)
Move ==
    /\ co = "done" /\ task = Blank /\ \A k \in Kinds : handler[k] = "idle"
    /\ server < MaxServers /\ server' = server + 1
    /\ \/ task' = [task EXCEPT !.server = server'] /\ UNCHANGED infoVars
       \/ /\ voiceinfo' = [state |-> 1, server |-> server']
          /\ voiceServerUpdateFlag' = TRUE
          /\ UNCHANGED task
    /\ UNCHANGED <<senderVars, voiceTaskmtx, bot, dave, hp, co, handler, th, closer,
                   updates, socketVars, historyVars, died>>

-----------------------------------------------------------------------------
(* The listen thread.                                                      *)

UnchangedByListen ==
    UNCHANGED <<voiceDataQueue, sendDataQueue, app, toSend, frames, wire,
                task, voiceTaskmtx, bot, voiceinfo, hp, co, handler, closer, discordVars, historyVars>>
Quiet == UNCHANGED <<uth, flush, lost, described>>
Listens == th = "loop" /\ ~api.stop
Gets(message) == Listens /\ inbox # <<>> /\ Head(inbox) = message /\ inbox' = Tail(inbox)

(* handleReady: the address at once, the rest after the IP discovery.      *)
ListenReady ==
    /\ Gets("ready")
    /\ api' = [api EXCEPT !.ssrc = conn, !.dest = conn]
    /\ th' = "discovery"
    /\ UNCHANGED <<dave, voiceServerUpdateFlag, conn, closes, died>> /\ Quiet /\ UnchangedByListen

IpDiscovery ==
    /\ th = "discovery" /\ th' = "loop"
    /\ \/ /\ api' = [api EXCEPT !.stop = TRUE]
          /\ UNCHANGED <<uth, lost>>
       \/ /\ api' = [api EXCEPT !.state = "READY", !.udpInterrupt = FALSE]
          /\ IF uth = "none" THEN uth' = "top" /\ UNCHANGED lost ELSE NotifyUdp
    /\ UNCHANGED <<flush, described, dave, voiceServerUpdateFlag, conn, inbox, closes, died>> /\ UnchangedByListen

(* Mutant: the first key is kept.                                          *)
HandleSessionDescriptionOnce ==
    /\ Gets("description")
    /\ \/ api' = [api EXCEPT !.stop = TRUE] /\ UNCHANGED described
       \/ api' = [api EXCEPT !.secretKey = IF @ = 0 THEN conn ELSE @] /\ described' = conn
    /\ UNCHANGED <<th, uth, flush, lost, dave, voiceServerUpdateFlag, conn, closes, died>> /\ UnchangedByListen

HandleSessionDescription ==
    /\ Gets("description")
    /\ \/ api' = [api EXCEPT !.stop = TRUE] /\ UNCHANGED described
       \/ api' = [api EXCEPT !.secretKey = conn] /\ described' = conn
    /\ UNCHANGED <<th, uth, flush, lost, dave, voiceServerUpdateFlag, conn, closes, died>> /\ UnchangedByListen

Fails == closes < MaxCloses /\ closes' = closes + 1

(* The close codes: to identify again, to end, to wait for new voice       *)
(* information, to resume - which is what an exception does, too.          *)
ListenClosed ==
    /\ Listens /\ Fails
    /\ \/ th' = "identify" /\ api' = [api EXCEPT !.state = "DISCONNECTED"] /\ Quiet
       \/ th' = "end" /\ api' = [api EXCEPT !.stop = TRUE] /\ NotifyFlush /\ UNCHANGED <<uth, described>>
       \/ th' = "changing" /\ api' = [api EXCEPT !.state = "CHANGING_VOICE_SERVER", !.udpInterrupt = TRUE] /\ Quiet
    /\ UNCHANGED <<dave, voiceServerUpdateFlag, conn, inbox, died>> /\ UnchangedByListen

ListenResumes ==
    /\ th = "discovery" \/ Listens
    /\ Fails
    /\ th' = "resume"
    /\ api' = [api EXCEPT !.state = "DISCONNECTED"]
    /\ UNCHANGED <<dave, voiceServerUpdateFlag, conn, inbox, died>> /\ Quiet /\ UnchangedByListen

(* The wait for voiceServerUpdatecv is over, by the update or in time.     *)
ListenChanged ==
    /\ th = "changing"
    /\ \/ /\ api.stop \/ ~voiceServerUpdateFlag
          /\ api' = [api EXCEPT !.stop = TRUE]
          /\ th' = "loop"
          /\ UNCHANGED <<dave, voiceServerUpdateFlag, died>>
       \/ /\ ~api.stop /\ voiceServerUpdateFlag
          /\ voiceServerUpdateFlag' = FALSE
          /\ th' = "identify"
          /\ died' = IF bot THEN None ELSE "bot"
          /\ UNCHANGED <<api, dave>>
    /\ UNCHANGED <<conn, inbox, closes>> /\ Quiet /\ UnchangedByListen

(* A connection is made: no, without a hello, and with one.                *)
ListenReconnect ==
    /\ th \in {"identify", "resume"} /\ th' = "loop"
    /\ \/ /\ api' = [api EXCEPT !.stop = TRUE]
          /\ UNCHANGED <<conn, inbox, died>>
       \/ /\ NoHello
          /\ UNCHANGED <<conn, inbox>>
       \/ /\ api' = [api EXCEPT !.state = "CONNECTED"]
          /\ conn' = voiceinfo.server
          /\ inbox' = IF th = "resume" THEN inbox ELSE <<"ready", "description">>
          /\ died' = IF th = "resume" \/ bot THEN None ELSE "bot"
    /\ UNCHANGED <<dave, voiceServerUpdateFlag, closes>> /\ Quiet /\ UnchangedByListen

ListenEnds ==
    /\ th = "loop" /\ api.stop /\ th' = "end"
    /\ NotifyFlush
    /\ UNCHANGED <<api, uth, described, dave, voiceServerUpdateFlag, socketVars, died>> /\ UnchangedByListen

ListenStep == IpDiscovery \/ ListenChanged \/ ListenReconnect \/ ListenEnds

-----------------------------------------------------------------------------
(* close: of the application's thread, of NyaBot::close or of a handler.   *)
(* channelDelete knows the channel until a voiceServerUpdate has taken it. *)
(* What two of them do that join the same threads at once is undefined,    *)
(* and not modelled.                                                       *)

UnchangedByClose ==
    UNCHANGED <<voiceDataQueue, toSend, frames, described, dave, infoVars, hp, co, handler, discordVars,
                socketVars, connectedWith, raced, early>>
At(c, here, next) == closer[c] = here /\ closer' = [closer EXCEPT ![c] = next]

CloseStops(c) ==
    /\ \A d \in Closers : closer[d] \in {"out", "closed"}
    /\ closer' = [closer EXCEPT ![c] = "erase"]
    /\ IF c = "app" THEN app = "free" /\ app' = "close" ELSE UNCHANGED app
    /\ \/ c = "app" /\ UNCHANGED <<bot, voiceTaskmtx>>
       \/ /\ c = "other" /\ task # None /\ task.state # 0     \* channelDelete
          /\ UNCHANGED <<bot, voiceTaskmtx>>
       \/ /\ c = "other" /\ task # None /\ voiceTaskmtx = None    \* NyaBot::close
          /\ voiceTaskmtx' = c /\ bot' = FALSE
    /\ api' = [api EXCEPT !.stop = TRUE, !.state = "DISCONNECTED"]
    /\ UNCHANGED <<sendDataQueue, uth, flush, wire, lost, task, th, died>> /\ UnchangedByClose

(* Mutant: only flush is notified.                                         *)
CloseNotifiesFlush(c) ==
    /\ At(c, "erase", "join th")
    /\ IF bot /\ task # None
       THEN voiceTaskmtx = None /\ task' = None
       ELSE UNCHANGED task
    /\ flush' = Woken(flush) /\ lost' = lost \union Missed(flush, "flush")
    /\ UNCHANGED <<api, sendDataQueue, uth, app, wire, voiceTaskmtx, bot, th, died>> /\ UnchangedByClose

CloseNotifies(c) ==
    /\ At(c, "erase", "join th")
    /\ IF bot /\ task # None
       THEN voiceTaskmtx = None /\ task' = None
       ELSE UNCHANGED task
    /\ uth' = Woken(uth) /\ flush' = Woken(flush)
    /\ lost' = lost \union Missed(uth, "uth") \union Missed(flush, "flush")
    /\ UNCHANGED <<api, sendDataQueue, app, wire, voiceTaskmtx, bot, th, died>> /\ UnchangedByClose

CloseJoinsListen(c) ==
    /\ At(c, "join th", "join uth")
    /\ th \in {"none", "end"} /\ th' = "none"
    /\ UNCHANGED <<senderVars, task, voiceTaskmtx, bot, died>> /\ UnchangedByClose

CloseJoinsUdp(c) ==
    /\ At(c, "join uth", "silence")
    /\ uth \in {"none", "end"} /\ uth' = "none"
    /\ UNCHANGED <<api, sendDataQueue, app, flush, wire, lost, task, voiceTaskmtx, bot, th, died>>
    /\ UnchangedByClose

(* sendSilence makes packets with a Dave that only connect makes, and      *)
(* asserts that the ssrc has not changed.                                  *)
CloseSendsSilence(c) ==
    /\ At(c, "silence", "closed")
    /\ \/ ~dave /\ died' = "dave" /\ UNCHANGED <<api, sendDataQueue, wire>>
       \/ /\ ~api.silenceSent /\ sendDataQueue # <<>> /\ Head(sendDataQueue).ssrc # api.ssrc
          /\ died' = "assert" /\ UNCHANGED <<api, sendDataQueue, wire>>
       \/ dave /\ SendSilence /\ UNCHANGED died
    /\ app' = IF c = "app" THEN "free" ELSE app
    /\ voiceTaskmtx' = IF voiceTaskmtx = c THEN None ELSE voiceTaskmtx
    /\ UNCHANGED <<uth, flush, lost, task, bot, th>> /\ UnchangedByClose

CloseStep(c) ==
    CloseNotifies(c) \/ CloseJoinsListen(c) \/ CloseJoinsUdp(c) \/ CloseSendsSilence(c)

-----------------------------------------------------------------------------
connectionVars == <<task, voiceTaskmtx, bot, dave, infoVars, hp, co, handler, th, closer,
                    discordVars, socketVars, historyVars, died>>

New ==
    /\ frames = MaxFrames /\ closes = MaxCloses /\ server = MaxServers
    /\ task = None /\ dave = FALSE /\ voiceinfo = Blank /\ co = "none" /\ th = "none"
    /\ conn = 0 /\ inbox = <<>> /\ connectedWith = None
    /\ api = [stop |-> FALSE, state |-> "DISCONNECTED", udpInterrupt |-> FALSE, silenceSent |-> FALSE,
              rtpSeq |-> 0, pNonce |-> FirstNonce, ssrc |-> 0, dest |-> 0, secretKey |-> 0]

Connected ==
    /\ frames = 0 /\ closes = 0 /\ server = 1
    /\ task = Blank /\ dave = TRUE /\ co = "done" /\ th = "loop"
    /\ conn = 1 /\ inbox = <<"ready", "description">>
    /\ voiceinfo = [k \in Kinds |-> 1] /\ connectedWith = voiceinfo
    /\ api = [stop |-> FALSE, state |-> "CONNECTED", udpInterrupt |-> FALSE, silenceSent |-> FALSE,
              rtpSeq |-> 0, pNonce |-> FirstNonce, ssrc |-> 0, dest |-> 0, secretKey |-> 0]

(* A connection before connect, that only connects and is closed, and one  *)
(* whose connect is over, with all the rest to come.                       *)
Init ==
    /\ New \/ Connected
    /\ voiceDataQueue = <<>> /\ sendDataQueue = <<>>
    /\ uth = "none" /\ app = "free" /\ flush = "none"
    /\ toSend = 0 /\ wire = <<>> /\ lost = {} /\ described = 0
    /\ voiceTaskmtx = None /\ bot = TRUE
    /\ voiceServerUpdateFlag = FALSE /\ hp = FALSE
    /\ handler = [k \in Kinds |-> "idle"]
    /\ closer = [c \in Closers |-> "out"]
    /\ updates = {}
    /\ raced = FALSE /\ early = FALSE
    /\ died = None

AppReturns == SendOpusData \/ Flush \/ FlushBlocks

Next ==
    /\ Running
    /\ \/ Connect \/ ConnectStep \/ Move
       \/ \E k \in Kinds : HandlerStep(k)
       \/ ListenReady \/ HandleSessionDescription \/ ListenClosed \/ ListenResumes \/ ListenStep
       \/ \E c \in Closers : CloseStops(c) \/ CloseStep(c)
       \/ /\ (\E n \in 1..MaxFrames : SendPcmData(n)) \/ AppReturns \/ UdpLoop
          /\ UNCHANGED connectionVars

Spec == Init /\ [][Next]_vars

-----------------------------------------------------------------------------
(* connect goes on once, with information that is whole, and is not left   *)
(* suspended when the information is there - unless both handlers found    *)
(* the task ready, close erased it under one that did, or the information  *)
(* came before the handle was stored.                                      *)
ConnectsOnce ==
    /\ died = "resumed" => raced
    /\ connectedWith # None => raced \/ Whole(connectedWith)
    /\ co = "suspended" /\ voiceServerUpdateFlag => early \/ \E k \in Kinds : handler[k] = "resume"

Packets == [i \in DOMAIN wire |-> wire[i].packet]
Made == Packets \o sendDataQueue

(* Packets go to the socket in the order of the frames.  The sequence      *)
(* number counts them without gap, through the packet that silence takes   *)
(* back and where the number wraps, and no nonce is used twice.            *)
PacketsInOrder ==
    /\ \A i, j \in DOMAIN Packets : i < j =>
          /\ Packets[i].nonce # Packets[j].nonce
          /\ Packets[j].item = 0 \/ (Packets[i].item # 0 /\ Packets[i].item < Packets[j].item)
    /\ \A i \in DOMAIN Made : Made[i].seq = (i - 1) % SeqSize
    /\ api.rtpSeq = Len(Made) % SeqSize

(* Once the session description of a server is handled, at most one packet *)
(* more is sent to it that is encrypted with another key.                  *)
OneStalePacket ==
    \A s \in 1..MaxServers :
        Cardinality({i \in DOMAIN wire : wire[i].to = s /\ wire[i].known = s /\ wire[i].packet.key # s}) <= 1

(* Once close has notified, it does not join a UDP thread that sleeps.  A  *)
(* flush does not sleep when the queue is empty and the UDP thread sleeps, *)
(* nor when the connection is stopped and nobody is left to notify it -    *)
(* unless the notification came while the thread was about to block, for   *)
(* none of them is sent under the mutex of the wait.                       *)
NobodyForgotten ==
    /\ uth \in {"blocking", "waiting"} /\ (\E c \in Closers : closer[c] \in {"join th", "join uth"})
          => "uth" \in lost
    /\ flush \in {"blocking", "waiting"} /\ voiceDataQueue = <<>> /\ uth \in {"blocking", "waiting"}
          => "flush" \in lost
    /\ flush \in {"blocking", "waiting"} /\ api.stop /\ th \in {"none", "end"}
       /\ (\A c \in Closers : closer[c] # "erase")
          => "flush" \in lost

=============================================================================
