-------------------------------- MODULE Dave --------------------------------
(***************************************************************************)
(* End-to-end encryption of a voice connection (DAVE): the session that    *)
(* the listen thread feeds with the voice gateway's messages, and the      *)
(* encryptor that the UDP thread uses meanwhile.                           *)
(*                                                                         *)
(* MLS is external.  A group state is the number of its epoch, 0 for the   *)
(* group of one the bot makes for itself; a key is the epoch it was        *)
(* exported from and its generation.  Messages of the gateway arrive in    *)
(* order; what the bot sends is heard at once and acted on later.          *)
(***************************************************************************)
EXTENDS Naturals, Sequences, FiniteSets

CONSTANTS
    None, Bot, Users,
    GenSize,     \* 2^24: nonces of a generation
    NonceSize,   \* 2^32: values of the nonce
    MaxCommits, MaxMoves, MaxFrames, MaxInbox

ASSUME DaveAssumption ==
    /\ Bot \notin Users
    /\ {GenSize, NonceSize} \subseteq Nat \ {0}
    /\ NonceSize % GenSize = 0 /\ GenSize < NonceSize  \* 256 generations: the nonce wraps into another
    /\ {MaxCommits, MaxMoves, MaxFrames, MaxInbox} \subseteq Nat

\* nullopt, a null pointer and a process that goes on are nothing else.
ASSUME NoneAssumption ==
    /\ None \notin Nat \union {"proposals", "commit", "welcome", "encryptor"}
    /\ None \notin [id : Nat, version : {0, 1}]
    /\ None \notin [nonce : Nat, previousNonce : Nat, generation : Nat,
                    key : (Nat \union {None}) \X Nat, passthrough : BOOLEAN]

VARIABLES
    present, members,  \* who is in the channel, and who is in the group
    epoch,             \* of the group, 0 while it is being created
    commits, moves,
    proposals,         \* sent since the last commit
    invited,           \* the key package the bot was proposed with
    transitions,       \* announced and not executed
    executed,          \* what everybody speaks with
    inbox,             \* messages on their way to the bot
    heard,             \* what the bot has sent
    overlap,           \* history: one of them was announced before another was executed
    dave,              \* the Dave object
    rest,              \* what the listen thread has still to do to the encryptor
    frame, frames,     \* the frame the UDP thread encrypts
    torn,              \* history: a frame was being encrypted while the encryptor was replaced
    used, repeated, unreadable,
    died               \* why the process ended

gatewayVars == <<present, members, epoch, commits, moves, proposals, invited, transitions, executed, overlap>>
frameVars == <<frame, frames, torn, used, repeated, unreadable>>
vars == <<gatewayVars, inbox, heard, dave, rest, frameVars, died>>

Everybody == {Bot} \union Users
Running == died = None
Proposal(add, u) == [add |-> add, user |-> u]
Adds(ps) == {p.user : p \in {q \in ps : q.add}}
Removes(ps) == {p.user : p \in {q \in ps : ~q.add}}

(***************************************************************************)
(* The voice gateway and the other members.                                *)
(***************************************************************************)
Send(m) == Len(inbox) < MaxInbox /\ inbox' = Append(inbox, m)
Moves == moves < MaxMoves /\ moves' = moves + 1

Arrive(u) ==
    /\ Moves
    /\ u \notin present
    /\ present' = present \union {u}
    /\ Send([op |-> "connect", user |-> u])
    /\ UNCHANGED <<members, epoch, commits, proposals, invited, transitions, executed, overlap, heard>>

Leave(u) ==
    /\ Moves
    /\ u \in present
    /\ present' = present \ {u}
    /\ Send([op |-> "disconnect", user |-> u])
    /\ UNCHANGED <<members, epoch, commits, proposals, invited, transitions, executed, overlap, heard>>

ToldOfGroup == epoch = 0 \/ Bot \in members
Tell(m) == IF ToldOfGroup THEN Send(m) ELSE UNCHANGED inbox

(* Adds who is here and removes who is not.  While the group is created    *)
(* everybody has one of his own, and is told to add the others.            *)
Needed ==
    IF epoch = 0 THEN {Proposal(TRUE, u) : u \in present \ {Bot}}
    ELSE {Proposal(TRUE, u) : u \in present \ members} \union {Proposal(FALSE, u) : u \in members \ present}

Propose ==
    LET fresh == Needed \ proposals
    IN /\ executed.target = 1 /\ heard.package > 0 /\ ~heard.invalid
       /\ fresh # {}
       /\ proposals' = proposals \union fresh
       /\ invited' = IF epoch = 0 \/ Bot \in Adds(fresh) THEN heard.package ELSE invited
       /\ Tell([op |-> "proposals", revoke |-> FALSE, base |-> epoch, some |-> fresh])
    /\ UNCHANGED <<present, members, epoch, commits, moves, transitions, executed, overlap, heard>>

Revoke ==
    LET stale == proposals \ Needed
    IN /\ stale # {}
       /\ proposals' = proposals \ stale
       /\ Tell([op |-> "proposals", revoke |-> TRUE, base |-> epoch, some |-> stale])
    /\ UNCHANGED <<present, members, epoch, commits, moves, invited, transitions, executed, overlap, heard>>

Transit(t) ==
    /\ transitions' = Append(transitions, t)
    /\ overlap' = (overlap \/ transitions # <<>>)

(* The gateway takes a commit of the outstanding proposals, the bot's or   *)
(* another member's, and announces it.  One that has a proposal in itself  *)
(* instead of a reference to it is a member's, too.                        *)
Commit(committer, inline) ==
    LET n == commits + 1
        id == IF executed.created THEN n ELSE 0
        joined == (members \union Adds(proposals) \union (IF epoch = 0 THEN {Bot} ELSE {})) \ Removes(proposals)
        welcomed == IF epoch = 0 THEN committer # Bot ELSE Bot \notin members
    IN /\ commits < MaxCommits /\ proposals # {} /\ ~heard.invalid
       /\ IF committer = Bot THEN heard.offer = [base |-> epoch, of |-> proposals] /\ ~inline
          ELSE committer \in (IF epoch = 0 THEN Adds(proposals) ELSE members \ {Bot})
       /\ commits' = n /\ epoch' = n
       /\ members' = joined
       /\ proposals' = {}
       /\ Send(IF welcomed
               THEN [op |-> "welcome", id |-> id, state |-> n, roster |-> joined, package |-> invited]
               ELSE [op |-> "commit", id |-> id, base |-> epoch, state |-> n, of |-> proposals, inline |-> inline])
       /\ IF id = 0
          THEN /\ executed' = [executed EXCEPT !.version = 1, !.epoch = n, !.created = TRUE, !.bot = TRUE]
               /\ UNCHANGED <<transitions, overlap>>
          ELSE Transit([id |-> id, version |-> 1, epoch |-> n]) /\ UNCHANGED executed
       /\ heard' = [heard EXCEPT !.offer = None]
    /\ UNCHANGED <<present, moves, invited>>

(* Somebody without DAVE has come: back to version 0, by a transition.     *)
Downgrade ==
    /\ Moves
    /\ executed.created /\ executed.target = 1
    /\ LET id == MaxCommits + moves + 1
       IN /\ Transit([id |-> id, version |-> 0, epoch |-> 0])
          /\ Send([op |-> "prepareTransition", id |-> id, version |-> 0])
    /\ executed' = [executed EXCEPT !.target = 0]
    /\ proposals' = {}
    /\ UNCHANGED <<present, members, epoch, commits, invited, heard>>

(* And has left: a new group, from epoch 1.                                *)
Upgrade ==
    /\ executed.target = 0 /\ transitions = <<>>
    /\ executed' = [executed EXCEPT !.target = 1]
    /\ epoch' = 0 /\ members' = {} /\ proposals' = {}
    /\ Send([op |-> "prepareEpoch", epoch |-> 1])
    /\ heard' = [heard EXCEPT !.package = 0, !.offer = None]
    /\ UNCHANGED <<present, commits, moves, invited, transitions, overlap>>

Execute ==
    /\ transitions # <<>>
    /\ LET t == Head(transitions)
       IN /\ executed' = [executed EXCEPT !.version = t.version, !.epoch = t.epoch, !.bot = Bot \in members]
          /\ Send([op |-> "executeTransition", id |-> t.id])
    /\ transitions' = Tail(transitions)
    /\ overlap' = (overlap /\ transitions' # <<>>)
    /\ UNCHANGED <<present, members, epoch, commits, moves, proposals, invited, heard>>

(* The bot could not follow: it is taken out, to be added again.           *)
Expel ==
    /\ heard.invalid
    /\ heard' = [heard EXCEPT !.invalid = FALSE]
    /\ members' = members \ {Bot}
    /\ proposals' = {}
    /\ executed' = [executed EXCEPT !.bot = FALSE]
    /\ UNCHANGED <<present, epoch, commits, moves, invited, transitions, overlap, inbox>>

GatewayStep ==
    /\ \/ \E u \in Users : Arrive(u) \/ Leave(u)
       \/ \E u \in Everybody, inline \in BOOLEAN : Commit(u, inline)
       \/ Propose \/ Revoke \/ Downgrade \/ Upgrade \/ Execute \/ Expel
    /\ UNCHANGED <<dave, rest, frameVars, died>>

(***************************************************************************)
(* The session: one message, handled by the listen thread.                 *)
(***************************************************************************)
Gets(op) == rest = <<>> /\ inbox # <<>> /\ Head(inbox).op = op /\ inbox' = Tail(inbox)
Message == Head(inbox)

Says(package, offer, invalid) ==
    heard' = [package |-> package, offer |-> offer, invalid |-> invalid]

(* The steps of createEncryptor.                                           *)
CreateEncryptor(d) ==
    IF d.currentState = None THEN <<>>
    ELSE IF d.encryptor = None THEN <<"keyratchet", "emplace">>
    ELSE <<"keyratchet", "nonce", "previousNonce", "generation", "key">>

Tears(whole) == torn' = (frame.pc # "idle" \/ (torn /\ ~whole))

Reset(d) ==
    [d EXCEPT !.encryptor = None, !.currentState = None, !.commitState = None,
              !.cachedState = None, !.pendingState = None, !.proposalCache = {}]

(* getKeyPackagePayload: always a new one.                                 *)
GetKeyPackage(d) == [d EXCEPT !.keyPackage = @ + 1]

HandleSessionDescription ==
    /\ Gets("description")
    /\ dave' = GetKeyPackage(dave)
    /\ Says(dave'.keyPackage, heard.offer, heard.invalid)
    /\ UNCHANGED <<rest, frameVars, died>>

AddUsers ==
    /\ Gets("connect")
    /\ dave' = [dave EXCEPT !.users = @ \union {Message.user}]
    /\ UNCHANGED <<heard, rest, frameVars, died>>

RemoveUsers ==
    /\ Gets("disconnect")
    /\ dave' = [dave EXCEPT !.users = @ \ {Message.user}]
    /\ UNCHANGED <<heard, rest, frameVars, died>>

ProcessExternalSender ==
    /\ Gets("externalSender")
    /\ dave' = [dave EXCEPT !.pendingState = 0]
    /\ UNCHANGED <<heard, rest, frameVars, died>>

PrepareEpoch ==
    /\ Gets("prepareEpoch")
    /\ IF Message.epoch = 1
       THEN /\ dave' = GetKeyPackage([Reset(dave) EXCEPT !.pendingState = 0])
            /\ Says(dave'.keyPackage, heard.offer, heard.invalid)
            /\ Tears(FALSE)
       ELSE UNCHANGED <<dave, heard, torn>>
    /\ UNCHANGED <<rest, frame, frames, used, repeated, unreadable, died>>

Base == IF dave.pendingState # None THEN dave.pendingState ELSE dave.currentState
IsValidProposal(p) == p.add => p.user \in dave.users

(* Proposals are handled on top of the base again, without those of an     *)
(* earlier message unless some are revoked.  What the stream throws is     *)
(* caught, and an invalid proposal ends it: those before it stay handled.  *)
ProcessProposals ==
    /\ Gets("proposals")
    /\ LET m == Message
           kept == dave.proposalCache \ m.some
           fits == m.base = Base /\ \A p \in m.some : IsValidProposal(p)
           handled == IF m.revoke THEN kept ELSE m.some
           worked == [base |-> Base, of |-> handled]
       IN \/ /\ Base # None /\ (m.revoke \/ fits)
             /\ dave' = [dave EXCEPT !.proposalCache = IF m.revoke THEN kept ELSE @ \union m.some,
                                     !.commitState = worked, !.cachedState = worked]
             /\ Says(heard.package, worked, heard.invalid)
             /\ UNCHANGED died
          \/ /\ Base # None /\ ~(m.revoke \/ fits)
             /\ \E before \in SUBSET (IF m.base = Base THEN {p \in m.some : IsValidProposal(p)} ELSE {}) :
                   dave' = [dave EXCEPT !.commitState = [base |-> Base, of |-> before],
                                        !.proposalCache = @ \union before]
             /\ UNCHANGED <<heard, died>>
          \/ /\ Base = None
             /\ died' = "proposals"
             /\ UNCHANGED <<heard, dave>>
    /\ UNCHANGED <<rest, frameVars>>

(* What a commit and a welcome have in common once they are valid.         *)
Moved(state) ==
    [dave EXCEPT !.currentState = state, !.cachedState = None, !.commitState = None,
                 !.pendingState = None, !.proposalCache = {}]
(* Mutant: the encryptor is replaced before the transition is executed.    *)
MoveToAtOnce(state, id) ==
    /\ dave' = [Moved(state) EXCEPT !.transitionInfo =
                   IF id # 0 THEN [id |-> id, version |-> 1] ELSE @]
    /\ rest' = CreateEncryptor(Moved(state))

MoveTo(state, id) ==
    IF id # 0
    THEN /\ dave' = [Moved(state) EXCEPT !.transitionInfo = [id |-> id, version |-> 1]]
         /\ UNCHANGED rest
    ELSE /\ dave' = Moved(state)
         /\ rest' = CreateEncryptor(Moved(state))
Complain(d) ==
    /\ dave' = GetKeyPackage(d)
    /\ Says(dave'.keyPackage, None, TRUE)
    /\ UNCHANGED rest

(* Proposals in a commit are references to those the gateway sent.         *)
IsValidCommit(m) == ~m.inline
(* The group of a welcome is who is known to be in the channel; the        *)
(* external sender is the gateway's.                                       *)
IsValidWelcomeState(m) == m.roster = dave.users

ProcessCommitTransition ==
    /\ Gets("commit")
    /\ LET m == Message
           unwraps == dave.commitState # None /\ dave.commitState.base = m.base
           follows == unwraps /\ dave.cachedState # None /\ m.of \subseteq dave.commitState.of
       IN \/ unwraps /\ ~IsValidCommit(m) /\ Complain(dave) /\ UNCHANGED died
          \/ follows /\ IsValidCommit(m) /\ MoveTo(m.state, m.id) /\ UNCHANGED <<heard, died>>
          \/ /\ IF IsValidCommit(m) THEN ~follows ELSE ~unwraps
             /\ died' = "commit"
             /\ UNCHANGED <<heard, dave, rest>>
    /\ UNCHANGED frameVars

ProcessWelcome ==
    /\ Gets("welcome")
    /\ LET m == Message
       IN \/ m.package = dave.keyPackage /\ IsValidWelcomeState(m)
             /\ MoveTo(m.state, m.id) /\ UNCHANGED <<heard, died>>
          \/ m.package = dave.keyPackage /\ ~IsValidWelcomeState(m)
             /\ Complain([dave EXCEPT !.currentState = None]) /\ UNCHANGED died
          \/ /\ m.package # dave.keyPackage
             /\ died' = "welcome"
             /\ UNCHANGED <<heard, dave, rest>>
    /\ UNCHANGED frameVars

PrepareTransition ==
    /\ Gets("prepareTransition")
    /\ dave' = [dave EXCEPT !.transitionInfo =
                   IF Message.id = 0 THEN None ELSE [id |-> Message.id, version |-> Message.version]]
    /\ UNCHANGED <<heard, rest, frameVars, died>>

(* Mutant: any transition is executed, and is not forgotten.               *)
ExecuteTransitionAgain ==
    /\ Gets("executeTransition")
    /\ IF dave.transitionInfo = None
       THEN UNCHANGED <<dave, rest>>
       ELSE IF dave.transitionInfo.version = 0
       THEN /\ dave' = [dave EXCEPT !.encryptor = IF @ = None THEN None ELSE [@ EXCEPT !.passthrough = TRUE]]
            /\ UNCHANGED rest
       ELSE /\ UNCHANGED dave
            /\ rest' = CreateEncryptor(dave) \o <<"speak">>
    /\ UNCHANGED <<heard, frameVars, died>>

ExecuteTransition ==
    /\ Gets("executeTransition")
    /\ IF dave.transitionInfo = None \/ dave.transitionInfo.id # Message.id
       THEN UNCHANGED <<dave, rest>>
       ELSE IF dave.transitionInfo.version = 0
       THEN /\ dave' = [dave EXCEPT !.transitionInfo = None,
                                    !.encryptor = IF @ = None THEN None ELSE [@ EXCEPT !.passthrough = TRUE]]
            /\ UNCHANGED rest
       ELSE /\ dave' = [dave EXCEPT !.transitionInfo = None]
            /\ rest' = CreateEncryptor(dave) \o <<"speak">>
    /\ UNCHANGED <<heard, frameVars, died>>

(* createEncryptor, field by field, and what executeTransition does last.  *)
EncryptorStep ==
    /\ rest # <<>>
    /\ rest' = Tail(rest)
    /\ LET key == <<dave.currentState, 0>>
           field == Head(rest)
       IN dave' = CASE field = "keyratchet" -> [dave EXCEPT !.keyratchet = dave.currentState]
                    [] field = "emplace" ->
                          [dave EXCEPT !.encryptor = [nonce |-> 0, previousNonce |-> 0, generation |-> 0,
                                                      key |-> key, passthrough |-> FALSE]]
                    [] field = "key" -> [dave EXCEPT !.encryptor.key = key]
                    [] field = "speak" ->
                          [dave EXCEPT !.encryptor = IF @ = None THEN None ELSE [@ EXCEPT !.passthrough = FALSE]]
                    [] OTHER -> [dave EXCEPT !.encryptor[field] = 0]
    /\ Tears(Head(rest) = "keyratchet")
    /\ UNCHANGED <<inbox, heard, frame, frames, used, repeated, unreadable, died>>

SessionStep ==
    /\ Running
    /\ \/ HandleSessionDescription \/ AddUsers \/ RemoveUsers \/ ProcessExternalSender
       \/ PrepareEpoch \/ ProcessProposals \/ ProcessCommitTransition \/ ProcessWelcome
       \/ PrepareTransition \/ ExecuteTransition \/ EncryptorStep
    /\ UNCHANGED gatewayVars

(***************************************************************************)
(* The encryptor, in the UDP thread.                                       *)
(***************************************************************************)
Ready == dave.currentState # None /\ dave.encryptor # None
NoFrame == [pc |-> "idle", key |-> None, nonce |-> 0]

(* frameRtp and encrypt: a frame that is passed through changes nothing.   *)
BeginFrame ==
    /\ frame.pc = "idle" /\ frames < MaxFrames
    /\ Ready /\ ~dave.encryptor.passthrough
    /\ frames' = frames + 1
    /\ frame' = [NoFrame EXCEPT !.pc = "turn"]
    /\ torn' = (torn \/ rest # <<>>)
    /\ UNCHANGED <<dave, used, repeated, unreadable>>

(* Mutant: the generation of the last frame is not remembered.             *)
TurnForgetful ==
    /\ frame.pc = "turn" /\ dave.encryptor # None
    /\ frame' = [frame EXCEPT !.pc = "seal"]
    /\ LET e == dave.encryptor
           turns == e.nonce \div GenSize # e.previousNonce
           g == e.generation + 1
       IN dave' = [dave EXCEPT !.encryptor =
                      [e EXCEPT !.generation = IF turns THEN g ELSE @,
                                !.key = IF turns THEN <<dave.keyratchet, g>> ELSE @]]
    /\ UNCHANGED <<frames, torn, used, repeated, unreadable>>

Turn ==
    /\ frame.pc = "turn" /\ dave.encryptor # None
    /\ frame' = [frame EXCEPT !.pc = "seal"]
    /\ LET e == dave.encryptor
           turns == e.nonce \div GenSize # e.previousNonce
           g == e.generation + 1
       IN dave' = [dave EXCEPT !.encryptor =
                      [e EXCEPT !.generation = IF turns THEN g ELSE @,
                                !.key = IF turns THEN <<dave.keyratchet, g>> ELSE @,
                                !.previousNonce = e.nonce \div GenSize]]
    /\ UNCHANGED <<frames, torn, used, repeated, unreadable>>

(* aes128GcmEncrypt                                                        *)
Seal ==
    /\ frame.pc = "seal" /\ dave.encryptor # None
    /\ frame' = [frame EXCEPT !.pc = "number", !.key = dave.encryptor.key, !.nonce = dave.encryptor.nonce]
    /\ UNCHANGED <<dave, frames, torn, used, repeated, unreadable>>

(* The nonce the receivers are told.                                       *)
Number ==
    /\ frame.pc = "number" /\ dave.encryptor # None
    /\ LET told == dave.encryptor.nonce
           generations == NonceSize \div GenSize
       IN /\ dave' = [dave EXCEPT !.encryptor.nonce = (told + 1) % NonceSize]
          /\ unreadable' = (unreadable \/ (~torn /\
                ~(told = frame.nonce /\ frame.key[2] % generations = told \div GenSize)))
    /\ used' = used \union {<<frame.key, frame.nonce>>}
    /\ repeated' = (repeated \/ (~torn /\ <<frame.key, frame.nonce>> \in used))
    /\ frame' = NoFrame
    /\ UNCHANGED <<frames, torn>>

(* The encryptor is destroyed under the frame: it is lost, or the process. *)
Vanish ==
    /\ frame.pc # "idle" /\ dave.encryptor = None
    /\ frame' = NoFrame
    /\ UNCHANGED <<dave, frames, torn, used, repeated, unreadable>>

FrameStep ==
    /\ Running
    /\ \/ (BeginFrame \/ Turn \/ Seal \/ Number \/ Vanish) /\ UNCHANGED died
       \/ Vanish /\ died' = "encryptor"
    /\ UNCHANGED <<gatewayVars, inbox, heard, rest>>

-----------------------------------------------------------------------------
(* A channel with somebody in it, described in the order of the gateway;   *)
(* perhaps an epoch of a group that is there already is announced.         *)
Init ==
    /\ present \in {{Bot} \union S : S \in SUBSET Users}
    /\ members = {} /\ epoch = 0 /\ commits = 0 /\ moves = 0
    /\ proposals = {} /\ invited = 0
    /\ transitions = <<>>
    /\ executed = [version |-> 0, epoch |-> 0, bot |-> FALSE, created |-> FALSE, target |-> 1]
    /\ \E later \in {<<>>, <<[op |-> "prepareEpoch", epoch |-> 2]>>} :
          inbox = <<[op |-> "description"], [op |-> "externalSender"]>> \o later
    /\ heard = [package |-> 0, offer |-> None, invalid |-> FALSE]
    /\ overlap = FALSE
    /\ dave = [users |-> present, keyPackage |-> 0, pendingState |-> None, currentState |-> None,
               cachedState |-> None, commitState |-> None, proposalCache |-> {},
               transitionInfo |-> None, encryptor |-> None, keyratchet |-> None]
    /\ rest = <<>>
    /\ frame = NoFrame /\ frames = 0 /\ torn = FALSE
    /\ used = {} /\ repeated = FALSE /\ unreadable = FALSE
    /\ died = None

Next == (Running /\ GatewayStep) \/ SessionStep \/ FrameStep

Spec == Init /\ [][Next]_vars

(* No key encrypts two frames with one nonce, through transitions, turns   *)
(* of the generation and the wrap of the nonce - unless a frame was being  *)
(* encrypted while the encryptor was replaced: createEncryptor stores the  *)
(* new nonce long before the new key, and what the frame adds stays.       *)
NonceOnce == ~repeated

(* The receivers can tell the generation of the key from the nonce they    *)
(* are told, and it is the nonce that was used - with the same exception.  *)
FramesAreReadable == ~unreadable

Speaks ==
    IF Ready /\ ~dave.encryptor.passthrough THEN dave.encryptor.key[1] ELSE 0

(* When every message is handled, the bot speaks with the key of the       *)
(* transition that was executed last, or in the clear if that was to       *)
(* version 0 - unless one of two transitions that overlap is outstanding   *)
(* (only the last announced is remembered, and the first is executed       *)
(* unheard), or the bot is out of the group because it could not follow.   *)
SpeaksAsExecuted ==
    Running /\ inbox = <<>> /\ rest = <<>> /\ ~overlap /\ ~heard.invalid /\ executed.bot
        => Speaks = IF executed.version = 0 THEN 0 ELSE executed.epoch

=============================================================================
