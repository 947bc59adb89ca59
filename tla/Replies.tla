------------------------------- MODULE Replies -------------------------------
(***************************************************************************)
(* What an application sends of its own accord: the replies to an          *)
(* interaction (src/src/interaction.cpp, componentInteraction.cpp), the    *)
(* messages of a channel (message.cpp), application emojis (emoji.cpp) and *)
(* rules of moderation (automod.cpp).  Each call is one sendRawData, which *)
(* sends the same request again after an I/O error.  An I/O error does not *)
(* tell whether the request was lost, is still under way, or was done and  *)
(* only its answer lost.                                                   *)
(*                                                                         *)
(* A request carries no name by which the API would know it again.  There  *)
(* is one interaction; the message, the emoji and the rule that the other  *)
(* calls are about are there until they are removed.  Texts, attachments   *)
(* and reactions themselves are left out.                                  *)
(* The limits of sendRawData are in RestClient: here a limited request is  *)
(* one that is sent again.                                                 *)
(***************************************************************************)
EXTENDS Integers

CONSTANTS
  Callers,      \* threads of the application
  RetryAmount,  \* NyaBot::retryAmount
  MaxCalls      \* bound: calls of all threads

ASSUME RepliesAssumption == RetryAmount \in Nat /\ MaxCalls \in Nat

VARIABLES
  pc,      \* per thread, where it is in a call, or how the last one returned
  route,   \* per thread, the call
  call,    \* per thread, the number of its call
  begun,   \* calls begun
  tries,   \* per thread, retryCount
  answer,  \* per thread, the status it is about to read, 0 before there is one
  strays,  \* requests given up that the API may still get
  reply,   \* what the interaction was answered with
  removed, \* of the channel's message, the emoji and the rule, what was removed
  stop,    \* bot->stop
  \* history, read by no guard
  done,    \* per thread, how often the API did what the call asks
  gaveUp   \* per thread, whether a request of the call was given up

api    == <<reply, removed>>
caller == <<pc, route, call, tries, answer>>
vars   == <<caller, begun, strays, api, stop, done, gaveUp>>

-----------------------------------------------------------------------------
(* The routes: what is asked for, of what, and the status that is taken    *)
(* for success                                                             *)

Route(asks, of, ok) == [asks |-> asks, of |-> of, ok |-> ok]

ManualResponse(kind) == Route("respond", kind, 204)
Respond              == ManualResponse("shown")
RespondLater         == ManualResponse("deferred")
RespondModal         == ManualResponse("modal")
UpdateLater          == ManualResponse("deferred")
UpdateMessage        == ManualResponse("shown")
\* Mutant: nothing is expected back, as with a response.
ManualEditOfNothing  == Route("edit", "reply", 204)
ManualEdit           == Route("edit", "reply", 200)
EditReply            == ManualEdit
DeleteOriginal       == Route("remove", "reply", 204)
CreateFollowUp       == Route("create", "follow up", 200)

Send                == Route("create", "message", 200)
Create              == Send
Edit                == Route("edit", "message", 200)
Remove              == Route("remove", "message", 204)
CreateReaction      == Route("react", "message", 204)
RemoveOwnReaction   == Route("react", "message", 204)
RemoveUsersReaction == Route("react", "message", 204)

CreateEmoji == Route("create", "emoji", 201)
ModifyEmoji == Route("edit", "emoji", 200)
DeleteEmoji == Route("remove", "emoji", 204)

CreateRule == Route("create", "rule", 200)
ModifyRule == Route("edit", "rule", 200)
DeleteRule == Route("remove", "rule", 204)

Routes == {Respond, RespondLater, RespondModal, UpdateLater, UpdateMessage,
           EditReply, DeleteOriginal, CreateFollowUp,
           Create, Edit, Remove, CreateReaction, RemoveOwnReaction, RemoveUsersReaction,
           CreateEmoji, ModifyEmoji, DeleteEmoji, CreateRule, ModifyRule, DeleteRule}

-----------------------------------------------------------------------------
(* The API: an interaction is answered once, a modal is no message, and    *)
(* what was removed stays so.                                              *)

Accepts(r) ==
  CASE r.asks = "respond" -> reply = "none"
    [] r.of = "reply"     -> reply \in {"shown", "deferred"}
    [] r.of = "follow up" -> reply # "none"
    [] r.asks = "create"  -> TRUE
    [] OTHER              -> r.of \notin removed

Does(r) ==
  /\ reply' = CASE r.asks = "respond" -> r.of
                [] r.of = "reply" -> IF r.asks = "edit" THEN "shown" ELSE "removed"
                [] OTHER -> reply
  /\ removed' = IF r.asks = "remove" /\ r.of # "reply" THEN removed \cup {r.of} ELSE removed

\* What was made or changed is returned; otherwise there is no content.
Status(r) ==
  CASE ~Accepts(r) -> 404
    [] r.asks = "create" /\ r.of = "emoji" -> 201
    [] r.asks \in {"create", "edit"} -> 200
    [] OTHER -> 204

\* One request of the call of thread c is met: it is done, or nothing is.
Meets(r, counts, c) ==
  IF Accepts(r)
  THEN Does(r) /\ done' = [done EXCEPT ![c] = IF counts THEN @ + 1 ELSE @]
  ELSE UNCHANGED <<api, done>>

Handle(c) ==
  /\ pc[c] = "perform" /\ answer[c] = 0
  /\ answer' = [answer EXCEPT ![c] = Status(route[c])]
  /\ Meets(route[c], TRUE, c)
  /\ UNCHANGED <<pc, route, call, begun, tries, strays, stop, gaveUp>>

\* Too many requests: nothing is done.
Limit(c) ==
  /\ pc[c] = "perform" /\ answer[c] = 0
  /\ answer' = [answer EXCEPT ![c] = 429]
  /\ UNCHANGED <<pc, route, call, begun, tries, strays, api, stop, done, gaveUp>>

\* A request that was given up comes after all.
HandleStray(s) ==
  /\ strays' = strays \ {s}
  /\ Meets(s.route, s.call = call[s.by], s.by)
  /\ UNCHANGED <<caller, begun, stop, gaveUp>>

\* Or it never comes.
StrayVanishes(s) ==
  /\ strays' = strays \ {s}
  /\ UNCHANGED <<caller, begun, api, stop, done, gaveUp>>

-----------------------------------------------------------------------------
(* A call *)

Idle == {"idle", "ok", "error", "IOERR", "INTERRUPT", "threw"}

Begin(c, r, where) ==
  /\ pc[c] \in Idle /\ begun < MaxCalls
  /\ pc' = [pc EXCEPT ![c] = where] /\ route' = [route EXCEPT ![c] = r]
  /\ begun' = begun + 1 /\ call' = [call EXCEPT ![c] = begun']
  /\ tries' = [tries EXCEPT ![c] = 0]
  /\ done' = [done EXCEPT ![c] = 0] /\ gaveUp' = [gaveUp EXCEPT ![c] = FALSE]
  /\ UNCHANGED <<answer, strays, api, stop>>

Call(c, r) == Begin(c, r, "top")

\* createFollowUpMessage of a Message without attachments passes the JSON
\* object itself where a string is expected: the conversion throws.
CreateFollowUpOf(c) == Begin(c, CreateFollowUp, "threw")

\* while(!bot->stop), and perform begins.
Perform(c) ==
  /\ pc[c] = "top"
  /\ pc' = [pc EXCEPT ![c] = IF stop THEN "INTERRUPT" ELSE "perform"]
  /\ UNCHANGED <<route, call, begun, tries, answer, strays, api, stop, done, gaveUp>>

Retries(c) ==
  IF tries[c] > RetryAmount
  THEN pc' = [pc EXCEPT ![c] = "IOERR"] /\ UNCHANGED tries
  ELSE pc' = [pc EXCEPT ![c] = "top"] /\ tries' = [tries EXCEPT ![c] = @ + 1]

\* perform() fails: the request was lost, is still under way, or was met and
\* its answer is lost.
Fails(c, underWay) ==
  /\ pc[c] = "perform"
  /\ strays' = strays \cup underWay
  /\ gaveUp' = [gaveUp EXCEPT ![c] = @ \/ answer[c] # 0 \/ underWay # {}]
  /\ answer' = [answer EXCEPT ![c] = 0]
  /\ Retries(c)
  /\ UNCHANGED <<route, call, begun, api, stop, done>>

IOError(c) == Fails(c, {})

IOErrorUnderWay(c) ==
  answer[c] = 0 /\ Fails(c, {[by |-> c, call |-> call[c], try |-> tries[c], route |-> route[c]]})

Told(c, result) ==
  /\ pc[c] = "perform" /\ answer[c] # 0
  /\ pc' = [pc EXCEPT ![c] = result] /\ answer' = [answer EXCEPT ![c] = 0]
  /\ UNCHANGED <<route, call, begun, tries, strays, api, stop, done, gaveUp>>

\* The status is compared with the one expected; a limit is waited out.
Answered(c) ==
  Told(c, CASE answer[c] = 429 -> "top"
            [] answer[c] = route[c].ok -> "ok"
            [] OTHER -> "error")

-----------------------------------------------------------------------------
Stop == ~stop /\ stop' = TRUE /\ UNCHANGED <<caller, begun, strays, api, done, gaveUp>>

Init ==
  /\ pc = [c \in Callers |-> "idle"] /\ route = [c \in Callers |-> Respond]
  /\ call = [c \in Callers |-> 0] /\ begun = 0 /\ tries = [c \in Callers |-> 0]
  /\ answer = [c \in Callers |-> 0] /\ strays = {}
  /\ reply = "none" /\ removed = {} /\ stop = FALSE
  /\ done = [c \in Callers |-> 0] /\ gaveUp = [c \in Callers |-> FALSE]

Step(c) ==
  \/ \E r \in Routes : Call(c, r)
  \/ CreateFollowUpOf(c) \/ Perform(c) \/ IOError(c) \/ IOErrorUnderWay(c) \/ Answered(c)

API ==
  \/ \E c \in Callers : Handle(c) \/ Limit(c)
  \/ \E s \in strays : HandleStray(s) \/ StrayVanishes(s)

Next == Stop \/ API \/ \E c \in Callers : Step(c)

Spec == Init /\ [][Next]_vars

-----------------------------------------------------------------------------
\* What a call returns is true.  If it returned success it did what it was
\* called for, whatever was lost on the way, whoever else replied and in
\* whatever order.  And it does its work at most once, and returns an error only
\* if it was not done, unless one of its requests was given up after it may have
\* been met: such a call may do it twice (two messages for one create), or return
\* the error of a second request where the first was done.
AnswersAreTrue ==
  \A c \in Callers :
    /\ pc[c] = "ok" => done[c] > 0
    /\ ~gaveUp[c] => /\ done[c] <= 1
                     /\ pc[c] \in {"error", "IOERR", "INTERRUPT"} => done[c] = 0

=============================================================================
