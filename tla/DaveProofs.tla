----------------------------- MODULE DaveProofs -----------------------------
(* What TLAPS proves of Dave, for every size of nonces and generations. *)
EXTENDS Dave, SequenceTheorems, TLAPS

Proposals == [add : BOOLEAN, user : Everybody]
Epochs == Nat \cup {None}
Offers == [base : Epochs, of : SUBSET Proposals] \cup {None}
Keys == Epochs \X Nat

Messages ==
  [op : {"description", "externalSender"}]
    \cup [op : {"connect", "disconnect"}, user : Users]
    \cup [op : {"proposals"}, revoke : BOOLEAN, base : Nat, some : SUBSET Proposals]
    \cup [op : {"welcome"}, id : Nat, state : Nat, roster : SUBSET Everybody, package : Nat]
    \cup [op : {"commit"}, id : Nat, base : Nat, state : Nat, of : SUBSET Proposals, inline : BOOLEAN]
    \cup [op : {"prepareTransition"}, id : Nat, version : {0}]
    \cup [op : {"prepareEpoch"}, epoch : Nat]
    \cup [op : {"executeTransition"}, id : Nat]

Turnings == NonceSize \div GenSize

Encryptors ==
  [nonce : 0..(NonceSize - 1), previousNonce : Nat, generation : Nat, key : Keys, passthrough : BOOLEAN]

\* What is left of createEncryptor, by the step that comes next.
Fresh == {<<"keyratchet", "emplace">>, <<"keyratchet", "emplace", "speak">>}
FreshFields ==
  {<<"keyratchet", "nonce", "previousNonce", "generation", "key">>,
   <<"keyratchet", "nonce", "previousNonce", "generation", "key", "speak">>}
Emplaces == {<<"emplace">>, <<"emplace", "speak">>}
Nonces == {<<"nonce", "previousNonce", "generation", "key">>,
           <<"nonce", "previousNonce", "generation", "key", "speak">>}
PreviousNonces ==
  {<<"previousNonce", "generation", "key">>, <<"previousNonce", "generation", "key", "speak">>}
Generations == {<<"generation", "key">>, <<"generation", "key", "speak">>}
LastFields == {<<"key">>, <<"key", "speak">>}
Over == {<<>>, <<"speak">>}

\* What is left when it is for executeTransition, which speaks at last.
Speaking ==
  {<<"keyratchet", "nonce", "previousNonce", "generation", "key", "speak">>,
   <<"nonce", "previousNonce", "generation", "key", "speak">>,
   <<"previousNonce", "generation", "key", "speak">>,
   <<"generation", "key", "speak">>, <<"key", "speak">>, <<"speak">>}

Fields == Nonces \cup PreviousNonces \cup Generations \cup LastFields
Partway == Emplaces \cup Fields
Stages == Fresh \cup FreshFields \cup Partway \cup Over

Executeds == [version : 0..1, epoch : Nat, bot : BOOLEAN, created : BOOLEAN, target : 0..1]

GatewayType ==
  /\ present \subseteq Everybody /\ members \subseteq Everybody
  /\ epoch \in Nat /\ commits \in Nat /\ moves \in Nat /\ invited \in Nat
  /\ proposals \subseteq Proposals
  /\ transitions \in Seq([id : Nat, version : 0..1, epoch : Nat])
  /\ executed \in Executeds
  /\ inbox \in Seq(Messages)
  /\ heard \in [package : Nat, offer : Offers, invalid : BOOLEAN]

Daves ==
  [users : SUBSET Everybody, keyPackage : Nat, pendingState : Epochs, currentState : Epochs,
   cachedState : Offers, commitState : Offers, proposalCache : SUBSET Proposals,
   transitionInfo : [id : Nat, version : 0..1] \cup {None},
   encryptor : Encryptors \cup {None}, keyratchet : Epochs]

SessionType ==
  /\ dave \in Daves
  /\ rest \in Stages

FrameType ==
  /\ frame \in [pc : {"idle", "turn", "seal", "number"}, key : Keys \cup {None}, nonce : Nat]
  /\ frames \in Nat
  /\ torn \in BOOLEAN /\ repeated \in BOOLEAN /\ unreadable \in BOOLEAN
  /\ used \subseteq Keys \X Nat

TypeInv == GatewayType /\ SessionType /\ FrameType

\* The session has been told of a transition with an epoch of its own.
Announced(d) == d.transitionInfo # None /\ d.transitionInfo.version = 1

\* An epoch later than all the session knows of.
Later(d, n) ==
  /\ d.currentState # None => d.currentState < n
  /\ d.keyratchet # None => d.keyratchet < n
  /\ Announced(d) => d.transitionInfo.id < n

Joins(m) == m.op \in {"welcome", "commit"}

OrderInv ==
  /\ executed.created <=> commits > 0
  /\ Later(dave, commits + 1)
  /\ \A i \in 1..Len(inbox) : Joins(inbox[i]) =>
       /\ inbox[i].state \in 1..commits
       /\ inbox[i].id = IF inbox[i].state = 1 THEN 0 ELSE inbox[i].state
       /\ Later(dave, inbox[i].state)
       /\ \A j \in 1..Len(inbox) : i < j /\ Joins(inbox[j]) => inbox[i].state < inbox[j].state

KeyOfLater == dave.keyratchet # None => dave.keyratchet < dave.currentState

RestInv ==
  /\ Announced(dave) => /\ rest = <<>> /\ dave.transitionInfo.id > 0
                        /\ dave.currentState # None => KeyOfLater
  /\ rest \in Fresh \cup FreshFields => dave.currentState # None /\ KeyOfLater
  /\ rest \in Partway => dave.currentState # None /\ dave.keyratchet = dave.currentState
  /\ rest \in FreshFields \cup Fields => dave.encryptor \in Encryptors

Spent(k) == dave.keyratchet # None /\ k[1] # None /\ k[1] <= dave.keyratchet

SpentInv ==
  /\ \A u \in used : Spent(u[1])
  /\ dave.encryptor # None \/ rest \in FreshFields \cup Fields => Spent(dave.encryptor.key)
  /\ frame.pc = "number" => frame.key \in Keys /\ Spent(frame.key)

Turns == dave.encryptor.nonce \div GenSize # dave.encryptor.previousNonce

Numbered ==
  LET e == dave.encryptor
  IN /\ e.key = <<dave.keyratchet, e.generation>>
     /\ e.previousNonce = e.generation % Turnings
     /\ Turns => /\ frame.pc \in {"idle", "turn"}
                 /\ e.nonce \div GenSize = (e.generation + 1) % Turnings
     /\ frame.pc = "number" => frame.key = e.key /\ frame.nonce = e.nonce
     /\ \A u \in used : u[1][1] = dave.keyratchet =>
          \/ u[1][2] < e.generation
          \/ u[1][2] = e.generation /\ (Turns \/ u[2] < e.nonce)

ResetInv ==
  LET e == dave.encryptor
  IN /\ rest \in PreviousNonces \cup Generations \cup LastFields => e.nonce = 0
     /\ rest \in Generations \cup LastFields => e.previousNonce = 0
     /\ rest \in LastFields => e.generation = 0

WholeInv ==
  ~torn =>
    /\ rest \in Partway => frame.pc = "idle"
    /\ rest \in Partway => ResetInv /\ \A u \in used : u[1][1] < dave.keyratchet
    /\ rest \notin Partway /\ dave.encryptor # None => Numbered

DaveInv == OrderInv /\ RestInv /\ SpentInv /\ WholeInv /\ ~repeated /\ ~unreadable

-----------------------------------------------------------------------------
(* Division *)

\* What a quotient and a remainder are.
LEMMA Division ==
  ASSUME NEW d \in Nat \ {0}, NEW n \in Nat
  PROVE  /\ n \div d \in Nat /\ n % d \in 0..(d - 1)
         /\ d * (n \div d) <= n /\ n < d * (n \div d) + d
         /\ n - d * (n \div d) = n % d
<1>1. n \div d \in Nat /\ n % d \in 0..(d - 1)
  OBVIOUS
<1>2. d * (n \div d) <= n
  OBVIOUS
<1>3. n < d * (n \div d) + d
  OBVIOUS
<1>4. ASSUME NEW q, q = n \div d
      PROVE  n - d * q = n % d
  BY <1>4
<1> QED BY <1>1, <1>2, <1>3, <1>4

\* And that there is only one of each.
LEMMA Quotient ==
  ASSUME NEW d \in Nat \ {0}, NEW n \in Nat, NEW q \in Nat, NEW r \in 0..(d - 1), n = d * q + r
  PROVE  n \div d = q /\ n % d = r
<1>1. n \div d = q
  OBVIOUS
<1>2. n % d = r
  OBVIOUS
<1> QED BY <1>1, <1>2

\* A remainder that is counted up.
LEMMA NextRemainder ==
  ASSUME NEW d \in Nat \ {0}, NEW n \in Nat
  PROVE  (n + 1) % d = ((n % d) + 1) % d
<1> DEFINE q == n \div d
           r == n % d
<1>1. q \in Nat /\ r \in 0..(d - 1) /\ n - d * q = r
  BY Division
<1> HIDE DEF q, r
<1>2. CASE r + 1 < d
  <2>1. r + 1 \in 0..(d - 1) /\ r + 1 \in Nat /\ n + 1 \in Nat /\ n + 1 = d * q + (r + 1)
        /\ r + 1 = d * 0 + (r + 1)
    BY <1>1, <1>2
  <2>2. (n + 1) % d = r + 1
    BY <1>1, <2>1, Quotient
  <2>3. (r + 1) % d = r + 1
    BY <2>1
  <2> QED BY <2>2, <2>3 DEF r
<1>3. CASE r + 1 = d
  <2>1. d * (q + 1) = d * q + d
    BY <1>1
  <2>2. n + 1 = d * (q + 1) + 0 /\ q + 1 \in Nat /\ 0 \in 0..(d - 1) /\ n + 1 \in Nat
    BY <1>1, <1>3, <2>1
  <2>3. (n + 1) % d = 0
    <3> HIDE <2>1
    <3> QED BY <2>2, Quotient
  <2>4. (r + 1) % d = 0
    BY <1>3
  <2> QED BY <2>3, <2>4 DEF r
<1> QED BY <1>1, <1>2, <1>3

\* The generations of the nonces come in turn, of which there are at least two.
LEMMA TurningsAreTwo ==
  /\ GenSize \in Nat \ {0} /\ NonceSize \in Nat \ {0}
  /\ Turnings \in Nat /\ Turnings > 1 /\ GenSize * Turnings = NonceSize
<1>1. GenSize \in Nat \ {0} /\ NonceSize \in Nat \ {0} /\ NonceSize % GenSize = 0 /\ GenSize < NonceSize
  BY DaveAssumption
<1>2. Turnings \in Nat /\ NonceSize - GenSize * Turnings = 0
  BY <1>1, Division DEF Turnings
<1> HIDE DEF Turnings
<1>3. Turnings # 0 /\ Turnings # 1
  BY <1>1, <1>2
<1>4. GenSize * Turnings \in Nat
  BY <1>1, <1>2
<1> QED BY <1>1, <1>2, <1>3, <1>4

\* The next nonce is of the same generation, or begins the next in turn.
LEMMA NextNonce ==
  ASSUME NEW n \in 0..(NonceSize - 1)
  PROVE  LET next == (n + 1) % NonceSize
         IN \/ next = n + 1 /\ next \div GenSize = n \div GenSize
            \/ /\ next \div GenSize = (n \div GenSize + 1) % Turnings
               /\ next \div GenSize # n \div GenSize
<1> DEFINE G == GenSize
           R == Turnings
           q == n \div G
           next == (n + 1) % NonceSize
<1>1. G \in Nat \ {0} /\ R \in Nat /\ R > 1 /\ G * R = NonceSize /\ n \in Nat /\ n < NonceSize
  BY TurningsAreTwo
<1>2. q \in Nat /\ G * q <= n /\ n < G * q + G
  BY <1>1, Division
<1>3. G * (q + 1) = G * q + G
  BY <1>1, <1>2
<1>4. q < R
  <2>1. CASE q >= R
    <3>1. G * q >= G * R
      BY <1>1, <1>2, <2>1
    <3> QED BY <1>1, <1>2, <3>1
  <2> QED BY <1>1, <1>2, <2>1
<1>5. ASSUME n + 1 < NonceSize
      PROVE  next = n + 1
  BY <1>1, <1>5
<1> HIDE DEF q
<1>6. CASE n + 1 < G * q + G
  <2>1. G * (q + 1) <= G * R
    BY <1>1, <1>2, <1>4
  <2>2. n + 1 < NonceSize
    BY <1>1, <1>2, <1>3, <1>6, <2>1
  <2>3. (n + 1) - G * q \in 0..(G - 1) /\ n + 1 = G * q + ((n + 1) - G * q) /\ n + 1 \in Nat
    BY <1>1, <1>2, <1>6
  <2>4. (n + 1) \div G = q
    <3> DEFINE r == (n + 1) - G * q
    <3>1. r \in 0..(G - 1) /\ n + 1 = G * q + r /\ n + 1 \in Nat
      BY <2>3
    <3> HIDE DEF r
    <3> QED BY <1>1, <1>2, <3>1, Quotient
  <2> QED BY <1>5, <2>2, <2>4 DEF q
<1>7. CASE n + 1 = G * q + G /\ n + 1 < NonceSize
  <2>1. q + 1 # R
    BY <1>1, <1>3, <1>7
  <2>2. q + 1 < R /\ q + 1 \in Nat
    BY <1>1, <1>2, <1>4, <2>1
  <2>3. n + 1 = G * (q + 1) + 0 /\ 0 \in 0..(G - 1) /\ n + 1 \in Nat
    BY <1>1, <1>3, <1>7
  <2>4. (n + 1) \div G = q + 1
    <3> DEFINE p == q + 1
    <3>1. p \in Nat /\ n + 1 = G * p + 0
      BY <2>2, <2>3
    <3> HIDE DEF p
    <3>2. (n + 1) \div G = p
      BY <1>1, <2>3, <3>1, Quotient
    <3> QED BY <3>2 DEF p
  <2>5. (q + 1) % R = q + 1
    BY <1>1, <2>2
  <2> QED BY <1>2, <1>5, <1>7, <2>4, <2>5 DEF q
<1>8. CASE n + 1 = NonceSize
  <2>1. next = 0 /\ 0 \div G = 0
    BY <1>1, <1>8
  <2>2. G * (q + 1) >= G * R
    BY <1>1, <1>2, <1>3, <1>8
  <2>3. q + 1 = R
    <3>1. CASE q + 1 < R
      <4>1. G * (q + 1) + G <= G * R
        <5>1. G * ((q + 1) + 1) <= G * R
          BY <1>1, <1>2, <3>1
        <5> QED BY <1>1, <1>2, <5>1
      <4> QED BY <1>1, <1>2, <2>2, <4>1
    <3> QED BY <1>1, <1>2, <1>4, <3>1
  <2>4. (q + 1) % R = 0
    BY <1>1, <2>3
  <2> QED BY <1>1, <1>2, <2>1, <2>3, <2>4
<1>9. n + 1 < G * q + G \/ n + 1 = G * q + G
  <2>1. G * q \in Nat
    BY <1>1, <1>2
  <2> QED BY <1>1, <1>2, <2>1
<1> QED BY <1>1, <1>6, <1>7, <1>8, <1>9 DEF q

-----------------------------------------------------------------------------
(* Types *)

\* What is sent is at the end of the inbox.
LEMMA SendType ==
  ASSUME inbox \in Seq(Messages), NEW m \in Messages, Send(m)
  PROVE  inbox' \in Seq(Messages)
BY AppendProperties DEF Send

\* What the gateway would have the group propose.
LEMMA NeededType ==
  ASSUME GatewayType
  PROVE  Needed \subseteq Proposals
<1>1. \A u \in Everybody : [add |-> TRUE, user |-> u] \in Proposals
      /\ [add |-> FALSE, user |-> u] \in Proposals
  BY DEF Proposals
<1>2. present \subseteq Everybody /\ members \subseteq Everybody
  BY DEF GatewayType
<1> QED BY <1>1, <1>2 DEF Needed, Proposal

\* Proposals add and remove members and the bot.
LEMMA AddsType ==
  ASSUME NEW ps \in SUBSET Proposals
  PROVE  Adds(ps) \subseteq Everybody /\ Removes(ps) \subseteq Everybody
BY DEF Adds, Removes, Proposals

\* One field of executed at a time.
LEMMA FieldType ==
  ASSUME NEW e \in Executeds
  PROVE  /\ \A v \in 0..1 : [e EXCEPT !.version = v] \in Executeds
         /\ \A n \in Nat : [e EXCEPT !.epoch = n] \in Executeds
         /\ \A b \in BOOLEAN : [e EXCEPT !.bot = b] \in Executeds
         /\ \A b \in BOOLEAN : [e EXCEPT !.created = b] \in Executeds
         /\ \A v \in 0..1 : [e EXCEPT !.target = v] \in Executeds
<1>1. \A v \in 0..1 : [e EXCEPT !.version = v] \in Executeds
  BY DEF Executeds
<1>2. \A n \in Nat : [e EXCEPT !.epoch = n] \in Executeds
  BY DEF Executeds
<1>3. \A b \in BOOLEAN : [e EXCEPT !.bot = b] \in Executeds
  BY DEF Executeds
<1>4. \A b \in BOOLEAN : [e EXCEPT !.created = b] \in Executeds
  BY DEF Executeds
<1>5. \A v \in 0..1 : [e EXCEPT !.target = v] \in Executeds
  BY DEF Executeds
<1> QED BY <1>1, <1>2, <1>3, <1>4, <1>5

\* What a transition sets of executed.
LEMMA ExecutedType ==
  ASSUME NEW e \in Executeds, NEW v \in 0..1, NEW n \in Nat, NEW b \in BOOLEAN
  PROVE  /\ [e EXCEPT !.version = v, !.epoch = n, !.bot = b] \in Executeds
         /\ [e EXCEPT !.version = 1, !.epoch = n, !.created = TRUE, !.bot = TRUE] \in Executeds
<1> DEFINE e1 == [e EXCEPT !.version = v]
           e2 == [e1 EXCEPT !.epoch = n]
           d1 == [e EXCEPT !.version = 1]
           d2 == [d1 EXCEPT !.epoch = n]
           d3 == [d2 EXCEPT !.created = TRUE]
<1>0. 1 \in 0..1 /\ TRUE \in BOOLEAN
  OBVIOUS
<1>1. e1 \in Executeds /\ d1 \in Executeds
  BY <1>0, FieldType
<1>2. e2 \in Executeds /\ d2 \in Executeds
  <2> HIDE DEF e1, d1
  <2> QED BY <1>1, FieldType
<1>3. d3 \in Executeds
  <2> HIDE DEF d2
  <2> QED BY <1>0, <1>2, FieldType
<1>4. [e2 EXCEPT !.bot = b] \in Executeds
  <2> HIDE DEF e2
  <2> QED BY <1>2, FieldType
<1>5. [d3 EXCEPT !.bot = TRUE] \in Executeds
  <2> HIDE DEF d3
  <2> QED BY <1>0, <1>3, FieldType
<1> QED BY <1>4, <1>5

\* An announced transition is the last of those outstanding.
LEMMA TransitType ==
  ASSUME GatewayType, NEW t \in [id : Nat, version : 0..1, epoch : Nat], Transit(t)
  PROVE  transitions' \in Seq([id : Nat, version : 0..1, epoch : Nat])
BY AppendProperties DEF Transit, GatewayType

\* The gateway keeps its types.
LEMMA GatewayKeepsType ==
  ASSUME GatewayType, GatewayStep
  PROVE  GatewayType'
<1>0. executed \in Executeds /\ 0 \in 0..1 /\ 1 \in 0..1
  BY DEF GatewayType
<1> USE DEF GatewayType
<1>1. ASSUME NEW u \in Users, Arrive(u) \/ Leave(u)
      PROVE  GatewayType'
  <2>1. u \in Everybody
    BY DEF Everybody
  <2>2. \A op \in {"connect", "disconnect"} : [op |-> op, user |-> u] \in Messages
    BY DEF Messages
  <2>3. inbox' \in Seq(Messages)
    BY <1>1, <2>2, SendType DEF Arrive, Leave
  <2>4. moves' \in Nat /\ present' \subseteq Everybody
    BY <1>1, <2>1 DEF Arrive, Leave, Moves
  <2> QED BY <1>1, <2>3, <2>4 DEF Arrive, Leave
<1>2. ASSUME NEW u \in Everybody, NEW inline \in BOOLEAN, Commit(u, inline)
      PROVE  GatewayType'
  <2> DEFINE n == commits + 1
             id == IF executed.created THEN n ELSE 0
             joined == (members \union Adds(proposals) \union (IF epoch = 0 THEN {Bot} ELSE {}))
                         \ Removes(proposals)
             welcome == [op |-> "welcome", id |-> id, state |-> n, roster |-> joined, package |-> invited]
             commit == [op |-> "commit", id |-> id, base |-> epoch, state |-> n, of |-> proposals,
                   inline |-> inline]
  <2>1. n \in Nat /\ id \in Nat
    OBVIOUS
  <2>2. joined \subseteq Everybody
    BY AddsType DEF Everybody
  <2>3. welcome \in Messages /\ commit \in Messages
    <3> HIDE DEF n, id, joined
    <3> QED BY <2>1, <2>2 DEF Messages
  <2>4. inbox' \in Seq(Messages)
    <3>1. Send(welcome) \/ Send(commit)
      BY <1>2 DEF Commit
    <3> HIDE DEF welcome, commit
    <3> QED BY <3>1, <2>3, SendType
  <2>5. transitions' \in Seq([id : Nat, version : 0..1, epoch : Nat])
    <3>1. Transit([id |-> id, version |-> 1, epoch |-> n]) \/ UNCHANGED transitions
      BY <1>2 DEF Commit
    <3>2. [id |-> id, version |-> 1, epoch |-> n] \in [id : Nat, version : 0..1, epoch : Nat]
      BY <2>1
    <3> QED BY <3>1, <3>2, TransitType
  <2>6. executed' \in Executeds
    <3>1. \/ executed' = [executed EXCEPT !.version = 1, !.epoch = n, !.created = TRUE, !.bot = TRUE]
          \/ executed' = executed
      BY <1>2 DEF Commit
    <3> HIDE DEF n, GatewayType
    <3> QED BY <1>0, <3>1, <2>1, ExecutedType
  <2>7. heard' \in [package : Nat, offer : Offers, invalid : BOOLEAN]
    BY <1>2 DEF Commit, Offers
  <2>8. commits' = n /\ epoch' = n /\ members' = joined /\ proposals' = {}
    BY <1>2 DEF Commit
  <2> QED BY <1>2, <2>1, <2>2, <2>4, <2>5, <2>6, <2>7, <2>8 DEF Commit
<1>3. CASE Propose
  <2> DEFINE fresh == Needed \ proposals
             m == [op |-> "proposals", revoke |-> FALSE, base |-> epoch, some |-> fresh]
  <2>1. fresh \subseteq Proposals
    BY NeededType
  <2>2. m \in Messages
    <3> HIDE DEF fresh
    <3> QED BY <2>1 DEF Messages
  <2>3. inbox' \in Seq(Messages)
    <3>1. Send(m) \/ UNCHANGED inbox
      BY <1>3 DEF Propose, Tell
    <3> HIDE DEF m
    <3> QED BY <3>1, <2>2, SendType
  <2>4. proposals' = proposals \cup fresh /\ invited' \in Nat
    BY <1>3 DEF Propose
  <2> QED BY <1>3, <2>1, <2>3, <2>4 DEF Propose
<1>4. CASE Revoke
  <2> DEFINE stale == proposals \ Needed
             m == [op |-> "proposals", revoke |-> TRUE, base |-> epoch, some |-> stale]
  <2>1. m \in Messages
    BY DEF Messages
  <2>2. inbox' \in Seq(Messages)
    <3>1. Send(m) \/ UNCHANGED inbox
      BY <1>4 DEF Revoke, Tell
    <3> HIDE DEF m
    <3> QED BY <3>1, <2>1, SendType
  <2> QED BY <1>4, <2>2 DEF Revoke
<1>5. CASE Downgrade
  <2> DEFINE id == MaxCommits + moves + 1
  <2>1. id \in Nat
    BY DaveAssumption
  <2>2. /\ [op |-> "prepareTransition", id |-> id, version |-> 0] \in Messages
        /\ [id |-> id, version |-> 0, epoch |-> 0] \in [id : Nat, version : 0..1, epoch : Nat]
    <3> HIDE DEF id
    <3> QED BY <2>1 DEF Messages
  <2>3. inbox' \in Seq(Messages)
    BY <1>5, <2>2, SendType DEF Downgrade
  <2>4. transitions' \in Seq([id : Nat, version : 0..1, epoch : Nat])
    BY <1>5, <2>2, TransitType DEF Downgrade
  <2>5. executed' \in Executeds
    <3>1. executed' = [executed EXCEPT !.target = 0]
      BY <1>5 DEF Downgrade
    <3> HIDE DEF GatewayType
    <3> QED BY <1>0, <3>1, FieldType
  <2>6. moves' \in Nat /\ proposals' = {} /\ UNCHANGED <<present, members, epoch, commits, invited, heard>>
    BY <1>5 DEF Downgrade, Moves
  <2> QED BY <2>3, <2>4, <2>5, <2>6
<1>6. CASE Upgrade
  <2>1. [op |-> "prepareEpoch", epoch |-> 1] \in Messages
    BY DEF Messages
  <2>2. inbox' \in Seq(Messages)
    BY <1>6, <2>1, SendType DEF Upgrade
  <2>3. heard' \in [package : Nat, offer : Offers, invalid : BOOLEAN]
    BY <1>6 DEF Upgrade, Offers
  <2>4. executed' \in Executeds
    <3>1. executed' = [executed EXCEPT !.target = 1]
      BY <1>6 DEF Upgrade
    <3> HIDE DEF GatewayType
    <3> QED BY <1>0, <3>1, FieldType
  <2> QED BY <1>6, <2>2, <2>3, <2>4 DEF Upgrade
<1>7. CASE Execute
  <2>1. /\ Head(transitions) \in [id : Nat, version : 0..1, epoch : Nat]
        /\ transitions' \in Seq([id : Nat, version : 0..1, epoch : Nat])
    BY <1>7, HeadTailProperties DEF Execute
  <2>2. [op |-> "executeTransition", id |-> Head(transitions).id] \in Messages
    BY <2>1 DEF Messages
  <2>3. inbox' \in Seq(Messages)
    BY <1>7, <2>2, SendType DEF Execute
  <2>4. executed' \in Executeds
    <3> DEFINE t == Head(transitions)
               last == Bot \in members
    <3>1. executed' = [executed EXCEPT !.version = t.version, !.epoch = t.epoch, !.bot = last]
      BY <1>7 DEF Execute
    <3>2. t.version \in 0..1 /\ t.epoch \in Nat /\ last \in BOOLEAN
      BY <2>1
    <3> HIDE DEF t, last
    <3> QED BY <3>1, <3>2, ExecutedType
  <2>5. UNCHANGED <<present, members, epoch, commits, moves, proposals, invited, heard>>
    BY <1>7 DEF Execute
  <2> QED BY <2>1, <2>3, <2>4, <2>5
<1>8. CASE Expel
  BY <1>8, FieldType DEF Expel
<1> QED BY <1>1, <1>2, <1>3, <1>4, <1>5, <1>6, <1>7, <1>8 DEF GatewayStep

\* What the listen thread takes is the first message.
LEMMA Got ==
  ASSUME inbox \in Seq(Messages), NEW op, Gets(op)
  PROVE  /\ Message \in Messages /\ Message = inbox[1] /\ Message.op = op
         /\ inbox' \in Seq(Messages) /\ rest = <<>>
         /\ Len(inbox) \in Nat /\ Len(inbox) > 0 /\ Len(inbox') = Len(inbox) - 1
         /\ \A i \in 1..Len(inbox') : inbox'[i] = inbox[i + 1]
<1>1. inbox # <<>> /\ inbox' = Tail(inbox) /\ rest = <<>> /\ Message = Head(inbox) /\ Message.op = op
  BY DEF Gets, Message
<1>2. Len(inbox) \in Nat /\ Len(inbox) > 0 /\ Head(inbox) = inbox[1]
  BY <1>1, EmptySeq
<1> QED BY <1>1, <1>2, HeadTailProperties

\* What kinds of messages there are.
LEMMA MessageTypes ==
  ASSUME NEW m \in Messages
  PROVE  /\ m.op \in {"connect", "disconnect"} => m.user \in Everybody
         /\ m.op = "proposals" => m.base \in Nat /\ m.some \subseteq Proposals
         /\ Joins(m) => m.id \in Nat /\ m.state \in Nat
         /\ m.op = "prepareTransition" => m.id \in Nat /\ m.version = 0
BY DEF Messages, Joins, Everybody

\* The steps of createEncryptor, one after the other.
LEMMA Steps ==
  ASSUME rest \in Stages, rest # <<>>
  PROVE  /\ rest \in Fresh => Head(rest) = "keyratchet" /\ Tail(rest) \in Emplaces
         /\ rest \in FreshFields => Head(rest) = "keyratchet" /\ Tail(rest) \in Nonces
         /\ rest \in Emplaces => Head(rest) = "emplace" /\ Tail(rest) \in Over
         /\ rest \in Nonces => Head(rest) = "nonce" /\ Tail(rest) \in PreviousNonces
         /\ rest \in PreviousNonces => Head(rest) = "previousNonce" /\ Tail(rest) \in Generations
         /\ rest \in Generations => Head(rest) = "generation" /\ Tail(rest) \in LastFields
         /\ rest \in LastFields => Head(rest) = "key" /\ Tail(rest) \in Over
         /\ rest \in Over => Head(rest) = "speak" /\ Tail(rest) = <<>>
<1>1. rest \in Fresh => Head(rest) = "keyratchet" /\ Tail(rest) \in Emplaces
  <2>1. Head(<<"keyratchet", "emplace">>) = "keyratchet" /\ Tail(<<"keyratchet", "emplace">>) = <<"emplace">>
    OBVIOUS
  <2>2. Head(<<"keyratchet", "emplace", "speak">>) = "keyratchet"
        /\ Tail(<<"keyratchet", "emplace", "speak">>) = <<"emplace", "speak">>
    OBVIOUS
  <2> QED BY <2>1, <2>2 DEF Fresh, Emplaces
<1>2. rest \in FreshFields => Head(rest) = "keyratchet" /\ Tail(rest) \in Nonces
  <2>1. Head(<<"keyratchet", "nonce", "previousNonce", "generation", "key">>) = "keyratchet"
        /\ Tail(<<"keyratchet", "nonce", "previousNonce", "generation", "key">>) =
              <<"nonce", "previousNonce", "generation", "key">>
    OBVIOUS
  <2>2. Head(<<"keyratchet", "nonce", "previousNonce", "generation", "key", "speak">>) = "keyratchet"
        /\ Tail(<<"keyratchet", "nonce", "previousNonce", "generation", "key", "speak">>) =
              <<"nonce", "previousNonce", "generation", "key", "speak">>
    OBVIOUS
  <2> QED BY <2>1, <2>2 DEF FreshFields, Nonces
<1>3. rest \in Emplaces => Head(rest) = "emplace" /\ Tail(rest) \in Over
  <2>1. Head(<<"emplace">>) = "emplace" /\ Tail(<<"emplace">>) = <<>>
    OBVIOUS
  <2>2. Head(<<"emplace", "speak">>) = "emplace" /\ Tail(<<"emplace", "speak">>) = <<"speak">>
    OBVIOUS
  <2> QED BY <2>1, <2>2 DEF Emplaces, Over
<1>4. rest \in Nonces => Head(rest) = "nonce" /\ Tail(rest) \in PreviousNonces
  <2>1. Head(<<"nonce", "previousNonce", "generation", "key">>) = "nonce"
        /\ Tail(<<"nonce", "previousNonce", "generation", "key">>) = <<"previousNonce", "generation", "key">>
    OBVIOUS
  <2>2. Head(<<"nonce", "previousNonce", "generation", "key", "speak">>) = "nonce"
        /\ Tail(<<"nonce", "previousNonce", "generation", "key", "speak">>) =
              <<"previousNonce", "generation", "key", "speak">>
    OBVIOUS
  <2> QED BY <2>1, <2>2 DEF Nonces, PreviousNonces
<1>5. rest \in PreviousNonces => Head(rest) = "previousNonce" /\ Tail(rest) \in Generations
  <2>1. Head(<<"previousNonce", "generation", "key">>) = "previousNonce"
        /\ Tail(<<"previousNonce", "generation", "key">>) = <<"generation", "key">>
    OBVIOUS
  <2>2. Head(<<"previousNonce", "generation", "key", "speak">>) = "previousNonce"
        /\ Tail(<<"previousNonce", "generation", "key", "speak">>) = <<"generation", "key", "speak">>
    OBVIOUS
  <2> QED BY <2>1, <2>2 DEF PreviousNonces, Generations
<1>6. rest \in Generations => Head(rest) = "generation" /\ Tail(rest) \in LastFields
  <2>1. Head(<<"generation", "key">>) = "generation" /\ Tail(<<"generation", "key">>) = <<"key">>
    OBVIOUS
  <2>2. Head(<<"generation", "key", "speak">>) = "generation"
        /\ Tail(<<"generation", "key", "speak">>) = <<"key", "speak">>
    OBVIOUS
  <2> QED BY <2>1, <2>2 DEF Generations, LastFields
<1>7. rest \in LastFields => Head(rest) = "key" /\ Tail(rest) \in Over
  <2>1. Head(<<"key">>) = "key" /\ Tail(<<"key">>) = <<>>
    OBVIOUS
  <2>2. Head(<<"key", "speak">>) = "key" /\ Tail(<<"key", "speak">>) = <<"speak">>
    OBVIOUS
  <2> QED BY <2>1, <2>2 DEF LastFields, Over
<1>8. rest \in Over => Head(rest) = "speak" /\ Tail(rest) = <<>>
  <2>1. Head(<<"speak">>) = "speak" /\ Tail(<<"speak">>) = <<>>
    OBVIOUS
  <2> QED BY <2>1 DEF Over
<1> QED BY <1>1, <1>2, <1>3, <1>4, <1>5, <1>6, <1>7, <1>8

\* A stage of the replacement is of one kind only.
LEMMA Apart ==
  /\ (Fresh \cup FreshFields) \cap (Partway \cup Over) = {}
  /\ Partway \cap Over = {}
  /\ Emplaces \cap Fields = {}
  /\ Nonces \cap (PreviousNonces \cup Generations \cup LastFields) = {}
  /\ PreviousNonces \cap (Generations \cup LastFields) = {}
  /\ Generations \cap LastFields = {}
  /\ Fresh \cap FreshFields = {}
<1> USE DEF Fresh, FreshFields, Emplaces, Nonces, PreviousNonces, Generations, LastFields, Over
<1>1. (Fresh \cup FreshFields) \cap Partway = {}
  BY DEF Partway, Fields
<1>2. (Fresh \cup FreshFields) \cap Over = {}
  OBVIOUS
<1>3. Partway \cap Over = {}
  BY DEF Partway, Fields
<1>4. Emplaces \cap Fields = {}
  BY DEF Fields
<1>5. Nonces \cap (PreviousNonces \cup Generations \cup LastFields) = {}
  OBVIOUS
<1>6. PreviousNonces \cap (Generations \cup LastFields) = {}
  OBVIOUS
<1>7. Generations \cap LastFields = {} /\ Fresh \cap FreshFields = {}
  OBVIOUS
<1> HIDE DEF Fresh, FreshFields, Emplaces, Nonces, PreviousNonces, Generations, LastFields, Over
<1> QED BY <1>1, <1>2, <1>3, <1>4, <1>5, <1>6, <1>7

\* What is done next to an encryptor, or to none.
LEMMA Created ==
  ASSUME NEW d
  PROVE  /\ d.currentState = None => CreateEncryptor(d) \in Over /\ CreateEncryptor(d) \o <<"speak">> \in Over
         /\ d.currentState # None /\ d.encryptor = None =>
              CreateEncryptor(d) \in Fresh /\ CreateEncryptor(d) \o <<"speak">> \in Fresh
         /\ d.currentState # None /\ d.encryptor # None =>
              /\ CreateEncryptor(d) \in FreshFields
              /\ CreateEncryptor(d) \o <<"speak">> \in FreshFields \cap Speaking
<1>1. <<>> \o <<"speak">> = <<"speak">>
  OBVIOUS
<1> DEFINE Names == {"keyratchet", "emplace", "nonce", "previousNonce", "generation", "key", "speak"}
           speak == <<"speak">>
<1>2. <<"keyratchet", "emplace">> \o <<"speak">> = <<"keyratchet", "emplace", "speak">>
  <2> DEFINE s == <<"keyratchet", "emplace">>
             u == <<"keyratchet", "emplace", "speak">>
  <2>1. s \in Seq(Names) /\ u \in Seq(Names)
    OBVIOUS
  <2>2. speak \in Seq(Names)
    OBVIOUS
  <2>3. Len(s) = 2 /\ Len(u) = 3 /\ s[1] = u[1] /\ s[2] = u[2]
    OBVIOUS
  <2>4. Len(speak) = 1 /\ speak[1] = u[3]
    OBVIOUS
  <2> HIDE DEF Names, speak, s, u
  <2>5. /\ s \o speak \in Seq(Names) /\ Len(s \o speak) = Len(s) + Len(speak)
        /\ \A i \in 1..(Len(s) + Len(speak)) :
             (s \o speak)[i] = IF i <= Len(s) THEN s[i] ELSE speak[i - Len(s)]
    BY <2>1, <2>2, ConcatProperties
  <2>6. Len(s \o speak) = 3 /\ \A i \in 1..3 : (s \o speak)[i] = u[i]
    BY <2>3, <2>4, <2>5
  <2>7. s \o speak = u
    BY <2>1, <2>3, <2>5, <2>6, SeqEqual
  <2> QED BY <2>7 DEF speak, s, u
<1>3. <<"keyratchet", "nonce", "previousNonce", "generation", "key">> \o <<"speak">> =
            <<"keyratchet", "nonce", "previousNonce", "generation", "key", "speak">>
  <2> DEFINE s == <<"keyratchet", "nonce", "previousNonce", "generation", "key">>
             u == <<"keyratchet", "nonce", "previousNonce", "generation", "key", "speak">>
  <2>1. s \in Seq(Names) /\ u \in Seq(Names)
    OBVIOUS
  <2>2. speak \in Seq(Names)
    OBVIOUS
  <2>3. Len(s) = 5 /\ Len(u) = 6 /\ s[1] = u[1] /\ s[2] = u[2] /\ s[3] = u[3] /\ s[4] = u[4] /\ s[5] = u[5]
    OBVIOUS
  <2>4. Len(speak) = 1 /\ speak[1] = u[6]
    OBVIOUS
  <2> HIDE DEF Names, speak, s, u
  <2>5. /\ s \o speak \in Seq(Names) /\ Len(s \o speak) = Len(s) + Len(speak)
        /\ \A i \in 1..(Len(s) + Len(speak)) :
             (s \o speak)[i] = IF i <= Len(s) THEN s[i] ELSE speak[i - Len(s)]
    BY <2>1, <2>2, ConcatProperties
  <2>6. Len(s \o speak) = 6 /\ \A i \in 1..6 : (s \o speak)[i] = u[i]
    BY <2>3, <2>4, <2>5
  <2>7. s \o speak = u
    BY <2>1, <2>3, <2>5, <2>6, SeqEqual
  <2> QED BY <2>7 DEF speak, s, u
<1> QED BY <1>1, <1>2, <1>3 DEF CreateEncryptor, Fresh, FreshFields, Over, Speaking

\* The handlers of the messages of the gateway.
AnyMessage ==
  \/ HandleSessionDescription \/ AddUsers \/ RemoveUsers \/ ProcessExternalSender
  \/ PrepareEpoch \/ ProcessProposals \/ ProcessCommitTransition \/ ProcessWelcome
  \/ PrepareTransition \/ ExecuteTransition

\* The handler of a message keeps the types.
LEMMA MessageKeepsType ==
  ASSUME TypeInv, UNCHANGED gatewayVars,
         AnyMessage
  PROVE  TypeInv'
<1>1. \E op : Gets(op)
  BY DEF AnyMessage, HandleSessionDescription, AddUsers, RemoveUsers, ProcessExternalSender, PrepareEpoch,
         ProcessProposals, ProcessCommitTransition, ProcessWelcome, PrepareTransition, ExecuteTransition
<1>2. Message \in Messages /\ inbox' \in Seq(Messages)
  BY <1>1, Got DEF TypeInv, GatewayType
<1>3. dave \in Daves /\ heard \in [package : Nat, offer : Offers, invalid : BOOLEAN] /\ rest \in Stages
  BY DEF TypeInv, SessionType, GatewayType
<1>4. \A n \in Nat : n \in Epochs
  BY DEF Epochs
<1>5. None \in Epochs /\ None \in Offers
  BY DEF Epochs, Offers
<1>6. ASSUME NEW d \in Daves
      PROVE  /\ GetKeyPackage(d) \in Daves /\ GetKeyPackage(d).keyPackage \in Nat
             /\ Reset(d) \in Daves
             /\ [d EXCEPT !.currentState = None] \in Daves
             /\ [d EXCEPT !.pendingState = 0] \in Daves
             /\ [d EXCEPT !.transitionInfo = None] \in Daves
             /\ [d EXCEPT !.encryptor = IF @ = None THEN None ELSE [@ EXCEPT !.passthrough = TRUE]] \in Daves
  <2>1. GetKeyPackage(d) \in Daves /\ GetKeyPackage(d).keyPackage \in Nat
    BY DEF GetKeyPackage, Daves
  <2>2. Reset(d) \in Daves
    BY <1>5 DEF Reset, Daves
  <2>3. [d EXCEPT !.currentState = None] \in Daves
    BY <1>5 DEF Daves
  <2>4. [d EXCEPT !.pendingState = 0] \in Daves
    BY <1>4 DEF Daves
  <2>5. [d EXCEPT !.transitionInfo = None] \in Daves
    BY DEF Daves
  <2>6. [d EXCEPT !.encryptor = IF @ = None THEN None ELSE [@ EXCEPT !.passthrough = TRUE]] \in Daves
    BY DEF Daves, Encryptors
  <2> QED BY <2>1, <2>2, <2>3, <2>4, <2>5, <2>6
<1>7. ASSUME NEW package \in Nat, NEW offer \in Offers, NEW invalid \in BOOLEAN,
             Says(package, offer, invalid)
      PROVE  heard' \in [package : Nat, offer : Offers, invalid : BOOLEAN]
  BY <1>7 DEF Says
<1>8. heard.offer \in Offers /\ heard.invalid \in BOOLEAN /\ heard.package \in Nat
  BY <1>3
<1>9. FrameType'
  BY DEF AnyMessage, TypeInv, FrameType, Tears, frameVars, HandleSessionDescription, AddUsers, RemoveUsers,
         ProcessExternalSender, PrepareEpoch, ProcessProposals, ProcessCommitTransition,
         ProcessWelcome, PrepareTransition, ExecuteTransition
<1>10. SUFFICES /\ dave' \in Daves /\ rest' \in Stages
                /\ heard' \in [package : Nat, offer : Offers, invalid : BOOLEAN]
  BY <1>2, <1>9 DEF TypeInv, GatewayType, SessionType, gatewayVars
<1>11. CASE HandleSessionDescription
  BY <1>3, <1>6, <1>7, <1>8, <1>11 DEF HandleSessionDescription
<1>12. CASE AddUsers \/ RemoveUsers
  <2>1. Message.op \in {"connect", "disconnect"}
    BY <1>12 DEF AddUsers, RemoveUsers, Gets, Message
  <2>2. Message.user \in Everybody
    BY <1>2, <2>1, MessageTypes
  <2>3. dave' \in Daves
    BY <1>3, <1>12, <2>2 DEF AddUsers, RemoveUsers, Daves
  <2> QED BY <1>3, <1>12, <2>3 DEF AddUsers, RemoveUsers
<1>13. CASE ProcessExternalSender
  BY <1>3, <1>6, <1>13 DEF ProcessExternalSender
<1>14. CASE PrepareEpoch
  <2>1. dave' \in {dave, GetKeyPackage([Reset(dave) EXCEPT !.pendingState = 0])}
    BY <1>14 DEF PrepareEpoch
  <2>2. [Reset(dave) EXCEPT !.pendingState = 0] \in Daves
    BY <1>3, <1>6
  <2>3. dave' \in Daves /\ dave'.keyPackage \in Nat
    <3>1. dave.keyPackage \in Nat
      BY <1>3 DEF Daves
    <3> QED BY <1>3, <1>6, <2>1, <2>2, <3>1
  <2> QED BY <1>3, <1>7, <1>8, <1>14, <2>3 DEF PrepareEpoch
<1>15. CASE ProcessProposals
  <2> DEFINE m == Message
             kept == dave.proposalCache \ m.some
             handled == IF m.revoke THEN kept ELSE m.some
             worked == [base |-> Base, of |-> handled]
             cached == IF m.revoke THEN kept ELSE dave.proposalCache \union m.some
  <2>1. Message.op = "proposals"
    BY <1>15 DEF ProcessProposals, Gets, Message
  <2>2. m.some \subseteq Proposals
    BY <1>2, <2>1, MessageTypes
  <2>3. dave.proposalCache \subseteq Proposals /\ Base \in Epochs
    BY <1>3 DEF Base, Daves
  <2>4. handled \subseteq Proposals /\ cached \subseteq Proposals
    BY <2>2, <2>3
  <2>5. ASSUME NEW ps \in SUBSET Proposals
        PROVE  [base |-> Base, of |-> ps] \in Offers
    BY <2>3 DEF Offers
  <2>6. \/ /\ dave' = [dave EXCEPT !.proposalCache = cached, !.commitState = worked, !.cachedState = worked]
           /\ Says(heard.package, worked, heard.invalid)
        \/ /\ \E before \in SUBSET m.some :
                 dave' = [dave EXCEPT !.commitState = [base |-> Base, of |-> before],
                                      !.proposalCache = dave.proposalCache \union before]
           /\ UNCHANGED heard
        \/ UNCHANGED <<dave, heard>>
    BY <1>15 DEF ProcessProposals
  <2>7. rest' = rest
    BY <1>15 DEF ProcessProposals
  <2>8. CASE /\ dave' = [dave EXCEPT !.proposalCache = cached, !.commitState = worked, !.cachedState = worked]
             /\ Says(heard.package, worked, heard.invalid)
    <3>1. worked \in Offers
      BY <2>4, <2>5
    <3> HIDE DEF cached, worked
    <3>2. dave' \in Daves
      BY <1>3, <2>4, <2>8, <3>1 DEF Daves
    <3> QED BY <1>3, <1>7, <1>8, <2>7, <2>8, <3>1, <3>2
  <2>9. ASSUME NEW before \in SUBSET m.some, UNCHANGED heard,
               dave' = [dave EXCEPT !.commitState = [base |-> Base, of |-> before],
                                    !.proposalCache = dave.proposalCache \union before]
        PROVE  /\ dave' \in Daves /\ rest' \in Stages
               /\ heard' \in [package : Nat, offer : Offers, invalid : BOOLEAN]
    <3> DEFINE work == [base |-> Base, of |-> before]
               known == dave.proposalCache \union before
    <3>1. work \in Offers /\ known \in SUBSET Proposals
      BY <2>2, <2>3, <2>5
    <3>2. dave' = [dave EXCEPT !.commitState = work, !.proposalCache = known]
      BY <2>9
    <3> HIDE DEF work, known
    <3>3. dave' \in Daves
      BY <1>3, <3>1, <3>2 DEF Daves
    <3> QED BY <1>3, <2>7, <2>9, <3>3
  <2> HIDE DEF m, kept, handled, worked, cached
  <2> QED BY <1>3, <2>6, <2>7, <2>8, <2>9
<1>16. CASE ProcessCommitTransition \/ ProcessWelcome
  <2>1. Joins(Message)
    BY <1>16 DEF ProcessCommitTransition, ProcessWelcome, Gets, Message, Joins
  <2>2. Message.state \in Nat /\ Message.id \in Nat
    BY <1>2, <2>1, MessageTypes
  <2>3. \/ UNCHANGED <<dave, rest, heard>>
        \/ Complain(dave) \/ Complain([dave EXCEPT !.currentState = None])
        \/ MoveTo(Message.state, Message.id) /\ UNCHANGED heard
    BY <1>16 DEF ProcessCommitTransition, ProcessWelcome
  <2>4. ASSUME NEW d \in Daves, Complain(d)
        PROVE  /\ dave' \in Daves /\ rest' \in Stages
               /\ heard' \in [package : Nat, offer : Offers, invalid : BOOLEAN]
    BY <1>3, <1>5, <1>6, <1>7, <2>4 DEF Complain
  <2>5. CASE MoveTo(Message.state, Message.id) /\ UNCHANGED heard
    <3>1. Moved(Message.state) \in Daves
      BY <1>3, <1>4, <1>5, <2>2 DEF Moved, Daves
    <3>2. [Moved(Message.state) EXCEPT !.transitionInfo = [id |-> Message.id, version |-> 1]] \in Daves
      <4>1. [id |-> Message.id, version |-> 1] \in [id : Nat, version : 0..1]
        BY <2>2
      <4> DEFINE d == Moved(Message.state)
                 t == [id |-> Message.id, version |-> 1]
      <4> HIDE DEF d, t
      <4>2. [d EXCEPT !.transitionInfo = t] \in Daves
        BY <3>1, <4>1 DEF Daves, d, t
      <4> QED BY <4>2 DEF d, t
    <3>3. CreateEncryptor(Moved(Message.state)) \in Stages
      BY Created DEF Stages
    <3> QED BY <1>3, <2>5, <3>1, <3>2, <3>3 DEF MoveTo
  <2> QED BY <1>3, <1>6, <2>3, <2>4, <2>5
<1>17. CASE PrepareTransition
  <2>1. Message.op = "prepareTransition"
    BY <1>17 DEF PrepareTransition, Gets, Message
  <2>2. Message.id \in Nat /\ Message.version = 0
    BY <1>2, <2>1, MessageTypes
  <2>3. dave' \in Daves
    BY <1>3, <1>17, <2>2 DEF PrepareTransition, Daves
  <2> QED BY <1>3, <1>17, <2>3 DEF PrepareTransition
<1>18. CASE ExecuteTransition
  <2>1. CreateEncryptor(dave) \o <<"speak">> \in Stages
    BY Created DEF Stages
  <2>2. dave' \in Daves
    <3> DEFINE d == [dave EXCEPT !.transitionInfo = None]
               e == [dave EXCEPT !.transitionInfo = None,
                                 !.encryptor = IF @ = None THEN None ELSE [@ EXCEPT !.passthrough = TRUE]]
    <3>1. dave' = dave \/ dave' = d \/ dave' = e
      BY <1>18 DEF ExecuteTransition
    <3>2. d \in Daves
      BY <1>3, <1>6
    <3>3. e = [d EXCEPT !.encryptor = IF @ = None THEN None ELSE [@ EXCEPT !.passthrough = TRUE]]
      BY <1>3 DEF Daves
    <3>4. e \in Daves
      <4> HIDE DEF d, e
      <4> QED BY <1>6, <3>2, <3>3
    <3> QED BY <1>3, <3>1, <3>2, <3>4
  <2> QED BY <1>3, <1>18, <2>1, <2>2 DEF ExecuteTransition
<1> QED BY <1>11, <1>12, <1>13, <1>14, <1>15, <1>16, <1>17, <1>18 DEF AnyMessage

\* What a step of createEncryptor does, by what it does next.
LEMMA EncryptorSteps ==
  ASSUME TypeInv, RestInv, EncryptorStep
  PROVE  /\ dave' \in Daves /\ rest' \in Stages
         /\ dave'.currentState = dave.currentState /\ dave'.transitionInfo = dave.transitionInfo
         /\ torn' = (frame.pc # "idle" \/ (torn /\ rest \notin Fresh \cup FreshFields))
         /\ rest \in Fresh \cup FreshFields =>
              /\ dave'.keyratchet = dave.currentState /\ dave'.encryptor = dave.encryptor
              /\ rest' \in IF rest \in Fresh THEN Emplaces ELSE Nonces
         /\ rest \notin Fresh \cup FreshFields => dave'.keyratchet = dave.keyratchet
         /\ rest \in Emplaces =>
              /\ dave'.encryptor = [nonce |-> 0, previousNonce |-> 0, generation |-> 0,
                                    key |-> <<dave.currentState, 0>>, passthrough |-> FALSE]
              /\ rest' \in Over
         /\ rest \in Nonces =>
              dave'.encryptor = [dave.encryptor EXCEPT !.nonce = 0] /\ rest' \in PreviousNonces
         /\ rest \in PreviousNonces =>
              dave'.encryptor = [dave.encryptor EXCEPT !.previousNonce = 0] /\ rest' \in Generations
         /\ rest \in Generations =>
              dave'.encryptor = [dave.encryptor EXCEPT !.generation = 0] /\ rest' \in LastFields
         /\ rest \in LastFields =>
              dave'.encryptor = [dave.encryptor EXCEPT !.key = <<dave.currentState, 0>>] /\ rest' \in Over
         /\ rest \in Over =>
              /\ dave'.encryptor = IF dave.encryptor = None THEN None
                                   ELSE [dave.encryptor EXCEPT !.passthrough = FALSE]
              /\ rest' = <<>>
<1>1. dave \in Daves /\ rest \in Stages /\ rest # <<>> /\ rest' = Tail(rest)
  BY DEF TypeInv, SessionType, EncryptorStep
<1>2. dave.currentState \in Epochs /\ dave.encryptor \in Encryptors \cup {None} /\ 0 \in 0..(NonceSize - 1)
  BY <1>1, DaveAssumption DEF Daves
<1>3. torn' = (frame.pc # "idle" \/ (torn /\ Head(rest) # "keyratchet"))
  BY DEF EncryptorStep, Tears
<1>4. rest \in Fields => dave.encryptor \in Encryptors
  BY DEF RestInv
<1>5. CASE rest \in Fresh \cup FreshFields
  <2>1. Head(rest) = "keyratchet" /\ rest' \in IF rest \in Fresh THEN Emplaces ELSE Nonces
    BY <1>1, <1>5, Steps
  <2>2. dave' = [dave EXCEPT !.keyratchet = dave.currentState]
    BY <2>1 DEF EncryptorStep
  <2>3. dave' \in Daves /\ dave'.currentState = dave.currentState
        /\ dave'.transitionInfo = dave.transitionInfo
        /\ dave'.keyratchet = dave.currentState /\ dave'.encryptor = dave.encryptor
    BY <1>1, <1>2, <2>2 DEF Daves
  <2>4. rest' \in Stages
    BY <2>1 DEF Stages, Partway, Fields
  <2> QED BY <1>3, <1>5, <2>1, <2>3, <2>4, Apart DEF Partway, Fields
<1>6. CASE rest \in Emplaces
  <2> DEFINE e == [nonce |-> 0, previousNonce |-> 0, generation |-> 0,
                   key |-> <<dave.currentState, 0>>, passthrough |-> FALSE]
  <2>1. Head(rest) = "emplace" /\ rest' \in Over
    BY <1>1, <1>6, Steps
  <2>2. dave' = [dave EXCEPT !.encryptor = e]
    BY <2>1 DEF EncryptorStep
  <2>3. e \in Encryptors
    BY <1>2 DEF Encryptors, Keys
  <2> HIDE DEF e
  <2>4. dave' \in Daves /\ dave'.currentState = dave.currentState
        /\ dave'.transitionInfo = dave.transitionInfo
        /\ dave'.keyratchet = dave.keyratchet /\ dave'.encryptor = e
    BY <1>1, <2>2, <2>3 DEF Daves
  <2>5. rest' \in Stages
    BY <2>1 DEF Stages
  <2> QED BY <1>3, <1>6, <2>1, <2>4, <2>5, Apart DEF Partway, Fields, e
<1>7. CASE rest \in Nonces
  <2>1. Head(rest) = "nonce" /\ rest' \in PreviousNonces
    BY <1>1, <1>7, Steps
  <2>2. dave' = [dave EXCEPT !.encryptor.nonce = 0]
    BY <2>1 DEF EncryptorStep
  <2>3. dave.encryptor \in Encryptors
    BY <1>2, <1>4, <1>7 DEF Fields
  <2>4. dave' \in Daves /\ dave'.currentState = dave.currentState
        /\ dave'.transitionInfo = dave.transitionInfo
        /\ dave'.keyratchet = dave.keyratchet /\ dave'.encryptor = [dave.encryptor EXCEPT !.nonce = 0]
    BY <1>1, <1>2, <2>2, <2>3 DEF Daves, Encryptors
  <2>5. rest' \in Stages
    BY <2>1 DEF Stages, Partway, Fields
  <2> QED BY <1>3, <1>7, <2>1, <2>4, <2>5, Apart DEF Partway, Fields
<1>8. CASE rest \in PreviousNonces
  <2>1. Head(rest) = "previousNonce" /\ rest' \in Generations
    BY <1>1, <1>8, Steps
  <2>2. dave' = [dave EXCEPT !.encryptor.previousNonce = 0]
    BY <2>1 DEF EncryptorStep
  <2>3. dave.encryptor \in Encryptors
    BY <1>2, <1>4, <1>8 DEF Fields
  <2>4. dave' \in Daves /\ dave'.currentState = dave.currentState
        /\ dave'.transitionInfo = dave.transitionInfo
        /\ dave'.keyratchet = dave.keyratchet /\ dave'.encryptor = [dave.encryptor EXCEPT !.previousNonce = 0]
    BY <1>1, <1>2, <2>2, <2>3 DEF Daves, Encryptors
  <2>5. rest' \in Stages
    BY <2>1 DEF Stages, Partway, Fields
  <2> QED BY <1>3, <1>8, <2>1, <2>4, <2>5, Apart DEF Partway, Fields
<1>9. CASE rest \in Generations
  <2>1. Head(rest) = "generation" /\ rest' \in LastFields
    BY <1>1, <1>9, Steps
  <2>2. dave' = [dave EXCEPT !.encryptor.generation = 0]
    BY <2>1 DEF EncryptorStep
  <2>3. dave.encryptor \in Encryptors
    BY <1>2, <1>4, <1>9 DEF Fields
  <2>4. dave' \in Daves /\ dave'.currentState = dave.currentState
        /\ dave'.transitionInfo = dave.transitionInfo
        /\ dave'.keyratchet = dave.keyratchet /\ dave'.encryptor = [dave.encryptor EXCEPT !.generation = 0]
    BY <1>1, <1>2, <2>2, <2>3 DEF Daves, Encryptors
  <2>5. rest' \in Stages
    BY <2>1 DEF Stages, Partway, Fields
  <2> QED BY <1>3, <1>9, <2>1, <2>4, <2>5, Apart DEF Partway, Fields
<1>10. CASE rest \in LastFields
  <2> DEFINE k == <<dave.currentState, 0>>
  <2>1. Head(rest) = "key" /\ rest' \in Over
    BY <1>1, <1>10, Steps
  <2>2. dave' = [dave EXCEPT !.encryptor.key = k]
    BY <2>1 DEF EncryptorStep
  <2>3. dave.encryptor \in Encryptors /\ k \in Keys
    BY <1>2, <1>4, <1>10 DEF Fields, Keys
  <2> HIDE DEF k
  <2>4. dave' \in Daves /\ dave'.currentState = dave.currentState
        /\ dave'.transitionInfo = dave.transitionInfo
        /\ dave'.keyratchet = dave.keyratchet /\ dave'.encryptor = [dave.encryptor EXCEPT !.key = k]
    BY <1>1, <1>2, <2>2, <2>3 DEF Daves, Encryptors
  <2>5. rest' \in Stages
    BY <2>1 DEF Stages
  <2> QED BY <1>3, <1>10, <2>1, <2>4, <2>5, Apart DEF Partway, Fields, k
<1>11. CASE rest \in Over
  <2> DEFINE e == IF dave.encryptor = None THEN None ELSE [dave.encryptor EXCEPT !.passthrough = FALSE]
  <2>1. Head(rest) = "speak" /\ rest' = <<>>
    BY <1>1, <1>11, Steps
  <2>2. dave' = [dave EXCEPT !.encryptor = e]
    BY <2>1 DEF EncryptorStep
  <2>3. e \in Encryptors \cup {None}
    BY <1>2 DEF Encryptors
  <2> HIDE DEF e
  <2>4. dave' \in Daves /\ dave'.currentState = dave.currentState
        /\ dave'.transitionInfo = dave.transitionInfo
        /\ dave'.keyratchet = dave.keyratchet /\ dave'.encryptor = e
    BY <1>1, <2>2, <2>3 DEF Daves
  <2>5. rest' \in Stages
    BY <2>1 DEF Stages, Over
  <2> QED BY <1>3, <1>11, <2>1, <2>4, <2>5, Apart DEF Partway, Fields, e
<1> QED BY <1>1, <1>5, <1>6, <1>7, <1>8, <1>9, <1>10, <1>11 DEF Stages, Partway, Fields

\* So it keeps the types.
LEMMA EncryptorKeepsType ==
  ASSUME TypeInv, RestInv, EncryptorStep, UNCHANGED gatewayVars
  PROVE  TypeInv'
<1>1. torn' \in BOOLEAN
  BY DEF EncryptorStep, Tears
<1> QED BY <1>1, EncryptorSteps
        DEF TypeInv, GatewayType, SessionType, FrameType, EncryptorStep, gatewayVars

\* What a step of the UDP thread does to the session.
LEMMA FrameSteps ==
  ASSUME TypeInv, SpentInv, FrameStep
  PROVE  /\ TypeInv' /\ rest' = rest
         /\ dave'.currentState = dave.currentState /\ dave'.transitionInfo = dave.transitionInfo
         /\ dave'.keyratchet = dave.keyratchet
         /\ dave.encryptor = None => dave' = dave
         /\ dave.encryptor # None => dave'.encryptor \in Encryptors
<1> DEFINE Kept == /\ dave' \in Daves
                   /\ dave'.currentState = dave.currentState /\ dave'.transitionInfo = dave.transitionInfo
                   /\ dave'.keyratchet = dave.keyratchet
                   /\ dave.encryptor = None => dave' = dave
                   /\ dave.encryptor # None => dave'.encryptor \in Encryptors
<1>1. dave \in Daves /\ dave.keyratchet \in Epochs /\ dave.encryptor \in Encryptors \cup {None}
  BY DEF TypeInv, SessionType, Daves
<1>2. UNCHANGED <<gatewayVars, inbox, heard, rest>>
  BY DEF FrameStep
<1>3. UNCHANGED dave => Kept
  BY <1>1
<1>4. NoFrame \in [pc : {"idle", "turn", "seal", "number"}, key : Keys \cup {None}, nonce : Nat]
  BY DEF NoFrame
<1>5. frame \in [pc : {"idle", "turn", "seal", "number"}, key : Keys \cup {None}, nonce : Nat]
      /\ frames \in Nat
      /\ torn \in BOOLEAN /\ repeated \in BOOLEAN /\ unreadable \in BOOLEAN /\ used \subseteq Keys \X Nat
  BY DEF TypeInv, FrameType
<1>6. SUFFICES Kept /\ FrameType'
  BY <1>2 DEF TypeInv, GatewayType, SessionType, gatewayVars
<1>7. CASE BeginFrame
  BY <1>3, <1>4, <1>5, <1>7 DEF BeginFrame, FrameType, NoFrame
<1>8. CASE Turn
  <2> DEFINE e == dave.encryptor
             turns == e.nonce \div GenSize # e.previousNonce
             g == e.generation + 1
             f == [e EXCEPT !.generation = IF turns THEN g ELSE @,
                            !.key = IF turns THEN <<dave.keyratchet, g>> ELSE @,
                            !.previousNonce = e.nonce \div GenSize]
  <2>1. e \in Encryptors /\ dave' = [dave EXCEPT !.encryptor = f]
    BY <1>1, <1>8 DEF Turn
  <2>2. g \in Nat /\ <<dave.keyratchet, g>> \in Keys /\ e.nonce \div GenSize \in Nat
    BY <1>1, <2>1, DaveAssumption DEF Encryptors, Keys
  <2>3. f \in Encryptors
    BY <2>1, <2>2 DEF Encryptors
  <2> HIDE DEF f
  <2>4. Kept
    BY <1>1, <1>8, <2>1, <2>3 DEF Turn, Daves
  <2>5. FrameType'
    BY <1>5, <1>8 DEF Turn, FrameType
  <2> QED BY <2>4, <2>5
<1>9. CASE Seal
  <2>1. dave.encryptor.key \in Keys /\ dave.encryptor.nonce \in Nat
    BY <1>1, <1>9 DEF Seal, Encryptors
  <2>2. FrameType'
    BY <1>5, <1>9, <2>1 DEF Seal, FrameType
  <2> QED BY <1>3, <1>9, <2>2 DEF Seal
<1>10. CASE Number
  <2>1. dave.encryptor \in Encryptors /\ (dave.encryptor.nonce + 1) % NonceSize \in 0..(NonceSize - 1)
    BY <1>1, <1>10, DaveAssumption DEF Number, Encryptors
  <2>2. dave' = [dave EXCEPT !.encryptor.nonce = (dave.encryptor.nonce + 1) % NonceSize]
    BY <1>10 DEF Number
  <2>3. Kept
    BY <1>1, <1>10, <2>1, <2>2 DEF Number, Daves, Encryptors
  <2>4. FrameType'
    <3>1. frame.key \in Keys /\ frame.nonce \in Nat
      BY <1>5, <1>10 DEF Number, SpentInv
    <3>2. used' \subseteq Keys \X Nat
      BY <1>5, <1>10, <3>1 DEF Number
    <3>3. frame' = NoFrame /\ UNCHANGED <<frames, torn>>
      BY <1>10 DEF Number
    <3>4. unreadable' \in BOOLEAN /\ repeated' \in BOOLEAN
      BY <1>10 DEF Number
    <3> QED BY <1>4, <1>5, <3>2, <3>3, <3>4 DEF FrameType
  <2> QED BY <2>3, <2>4
<1>11. CASE Vanish
  BY <1>3, <1>4, <1>5, <1>11 DEF Vanish, FrameType
<1> QED BY <1>7, <1>8, <1>9, <1>10, <1>11 DEF FrameStep

-----------------------------------------------------------------------------
(* Epochs *)

\* A message that is sent is no commit or welcome, or it is of the next epoch.
LEMMA SentInOrder ==
  ASSUME TypeInv, OrderInv, NEW m \in Messages, inbox' = Append(inbox, m), dave' = dave,
         commits' \in Nat, executed'.created <=> commits' > 0,
         IF Joins(m)
         THEN commits' = commits + 1 /\ m.state = commits' /\ m.id = IF m.state = 1 THEN 0 ELSE m.state
         ELSE commits' = commits
  PROVE  OrderInv'
<1>1. commits \in Nat /\ commits <= commits'
  BY DEF TypeInv, GatewayType
<1>2. /\ Len(inbox) \in Nat /\ Len(inbox') = Len(inbox) + 1
      /\ \A i \in 1..Len(inbox) : inbox'[i] = inbox[i]
      /\ inbox'[Len(inbox) + 1] = m
  BY AppendProperties DEF TypeInv, GatewayType
<1>3. dave.currentState \in Epochs /\ dave.keyratchet \in Epochs
      /\ dave.transitionInfo \in [id : Nat, version : 0..1] \cup {None}
  BY DEF TypeInv, SessionType, Daves
<1>4. \A n \in Nat : commits < n => Later(dave', n)
  BY <1>1, <1>3 DEF OrderInv, Later, Announced, Epochs
<1>5. Joins(m) => m.state \in 1..commits' /\ Later(dave', m.state)
  BY <1>1, <1>4
<1>6. ASSUME NEW i \in 1..Len(inbox), Joins(inbox[i])
      PROVE  /\ inbox[i].state \in 1..commits
             /\ inbox[i].id = IF inbox[i].state = 1 THEN 0 ELSE inbox[i].state
             /\ Later(dave', inbox[i].state)
             /\ \A j \in 1..Len(inbox) : i < j /\ Joins(inbox[j]) => inbox[i].state < inbox[j].state
  BY <1>6 DEF OrderInv, Later, Announced
<1>7. ASSUME NEW i \in 1..Len(inbox'), Joins(inbox'[i])
      PROVE  /\ inbox'[i].state \in 1..commits'
             /\ inbox'[i].id = IF inbox'[i].state = 1 THEN 0 ELSE inbox'[i].state
             /\ Later(dave', inbox'[i].state)
             /\ \A j \in 1..Len(inbox') : i < j /\ Joins(inbox'[j]) => inbox'[i].state < inbox'[j].state
  <2>1. CASE i \in 1..Len(inbox)
    <3>1. inbox'[i] = inbox[i]
      BY <1>2, <2>1
    <3>2. /\ inbox[i].state \in 1..commits
          /\ inbox[i].id = IF inbox[i].state = 1 THEN 0 ELSE inbox[i].state
          /\ Later(dave', inbox[i].state)
          /\ \A j \in 1..Len(inbox) : i < j /\ Joins(inbox[j]) => inbox[i].state < inbox[j].state
      BY <1>6, <1>7, <2>1, <3>1
    <3>3. ASSUME NEW j \in 1..Len(inbox'), i < j, Joins(inbox'[j])
          PROVE  inbox'[i].state < inbox'[j].state
      <4>1. CASE j \in 1..Len(inbox)
        BY <1>2, <3>1, <3>2, <3>3, <4>1
      <4>2. CASE j = Len(inbox) + 1
        BY <1>1, <1>2, <3>1, <3>2, <3>3, <4>2
      <4> QED BY <1>2, <4>1, <4>2
    <3> QED BY <1>1, <3>1, <3>2, <3>3
  <2>2. CASE i = Len(inbox) + 1
    <3>1. inbox'[i] = m
      BY <1>2, <2>2
    <3>2. ~ \E j \in 1..Len(inbox') : i < j
      BY <1>2, <2>2
    <3> QED BY <1>5, <1>7, <3>1, <3>2
  <2> QED BY <1>2, <2>1, <2>2
<1>8. Later(dave', commits' + 1)
  BY <1>1, <1>4
<1>9. executed'.created <=> commits' > 0
  OBVIOUS
<1> QED BY <1>7, <1>8, <1>9 DEF OrderInv

\* So the gateway announces epochs in order.
LEMMA GatewayOrder ==
  ASSUME TypeInv, OrderInv, GatewayStep
  PROVE  OrderInv'
<1>1. dave' = dave /\ GatewayType
  BY DEF GatewayStep, TypeInv
<1>2. commits \in Nat /\ executed \in Executeds /\ (executed.created <=> commits > 0)
  BY <1>1 DEF GatewayType, OrderInv
<1>3. ASSUME NEW m, m \in Messages, ~Joins(m), Send(m) \/ UNCHANGED inbox, UNCHANGED commits,
             executed'.created = executed.created
      PROVE  OrderInv'
  <2>1. CASE Send(m)
    BY <1>1, <1>2, <1>3, <2>1, SentInOrder DEF Send
  <2>2. CASE UNCHANGED inbox
    BY <1>1, <1>3, <2>2 DEF OrderInv, Later, Announced
  <2> QED BY <1>3, <2>1, <2>2
<1>4. ASSUME NEW u \in Users, Arrive(u) \/ Leave(u)
      PROVE  OrderInv'
  <2>1. \A op \in {"connect", "disconnect"} :
           [op |-> op, user |-> u] \in Messages /\ ~Joins([op |-> op, user |-> u])
    BY DEF Messages, Joins
  <2> QED BY <1>3, <1>4, <2>1 DEF Arrive, Leave
<1>5. ASSUME NEW u \in Everybody, NEW inline \in BOOLEAN, Commit(u, inline)
      PROVE  OrderInv'
  <2> DEFINE n == commits + 1
             id == IF executed.created THEN n ELSE 0
             joined == (members \union Adds(proposals) \union (IF epoch = 0 THEN {Bot} ELSE {}))
                         \ Removes(proposals)
             welcome == [op |-> "welcome", id |-> id, state |-> n, roster |-> joined, package |-> invited]
             commit == [op |-> "commit", id |-> id, base |-> epoch, state |-> n, of |-> proposals,
                   inline |-> inline]
  <2>1. n \in Nat /\ id \in Nat /\ id = (IF n = 1 THEN 0 ELSE n)
    BY <1>2
  <2>2. joined \subseteq Everybody /\ proposals \subseteq Proposals /\ epoch \in Nat /\ invited \in Nat
    BY <1>1, AddsType DEF Everybody, GatewayType
  <2>3. commits' = n
    BY <1>5 DEF Commit
  <2>4. executed'.created
    BY <1>2, <1>5 DEF Commit, Executeds
  <2>5. \E m \in {welcome, commit} : Send(m)
    BY <1>5 DEF Commit
  <2>6. ASSUME NEW m \in {welcome, commit}
        PROVE  m \in Messages /\ Joins(m) /\ m.state = n /\ m.id = id
    <3> HIDE DEF n, id, joined
    <3> QED BY <2>1, <2>2 DEF Messages, Joins
  <2> HIDE DEF welcome, commit, id
  <2> QED BY <1>1, <1>2, <2>1, <2>3, <2>4, <2>5, <2>6, SentInOrder DEF Send
<1>6. CASE Propose
  <2> DEFINE m == [op |-> "proposals", revoke |-> FALSE, base |-> epoch, some |-> Needed \ proposals]
  <2>1. m \in Messages /\ ~Joins(m)
    <3>1. Needed \ proposals \subseteq Proposals /\ epoch \in Nat
      BY <1>1, NeededType DEF GatewayType
    <3> QED BY <3>1 DEF Messages, Joins
  <2>2. (Send(m) \/ UNCHANGED inbox) /\ UNCHANGED <<commits, executed>>
    BY <1>6 DEF Propose, Tell
  <2> HIDE DEF m
  <2> QED BY <1>3, <2>1, <2>2
<1>7. CASE Revoke
  <2> DEFINE m == [op |-> "proposals", revoke |-> TRUE, base |-> epoch, some |-> proposals \ Needed]
  <2>1. m \in Messages /\ ~Joins(m)
    BY <1>1 DEF Messages, Joins, GatewayType
  <2>2. (Send(m) \/ UNCHANGED inbox) /\ UNCHANGED <<commits, executed>>
    BY <1>7 DEF Revoke, Tell
  <2> HIDE DEF m
  <2> QED BY <1>3, <2>1, <2>2
<1>8. CASE Downgrade
  <2> DEFINE id == MaxCommits + moves + 1
             m == [op |-> "prepareTransition", id |-> id, version |-> 0]
  <2>1. m \in Messages /\ ~Joins(m)
    <3>1. id \in Nat
      BY <1>1, DaveAssumption DEF GatewayType
    <3> HIDE DEF id
    <3> QED BY <3>1 DEF Messages, Joins
  <2>2. Send(m) /\ UNCHANGED commits /\ executed' = [executed EXCEPT !.target = 0]
    BY <1>8 DEF Downgrade
  <2>3. executed'.created = executed.created
    BY <1>2, <2>2 DEF Executeds
  <2> HIDE DEF m
  <2> QED BY <1>3, <2>1, <2>2, <2>3
<1>9. CASE Upgrade
  <2> DEFINE m == [op |-> "prepareEpoch", epoch |-> 1]
  <2>1. m \in Messages /\ ~Joins(m)
    BY DEF Messages, Joins
  <2>2. Send(m) /\ UNCHANGED commits /\ executed' = [executed EXCEPT !.target = 1]
    BY <1>9 DEF Upgrade
  <2>3. executed'.created = executed.created
    BY <1>2, <2>2 DEF Executeds
  <2> HIDE DEF m
  <2> QED BY <1>3, <2>1, <2>2, <2>3
<1>10. CASE Execute
  <2> DEFINE t == Head(transitions)
             m == [op |-> "executeTransition", id |-> t.id]
  <2>1. t.id \in Nat
    <3>1. Head(transitions) \in [id : Nat, version : 0..1, epoch : Nat]
      BY <1>1, <1>10, HeadTailProperties DEF Execute, GatewayType
    <3> QED BY <3>1
  <2>2. m \in Messages /\ ~Joins(m)
    <3> HIDE DEF t
    <3> QED BY <2>1 DEF Messages, Joins
  <2>3. Send(m) /\ UNCHANGED commits
    BY <1>10 DEF Execute
  <2>4. executed'.created = executed.created
    BY <1>2, <1>10 DEF Execute, Executeds
  <2> HIDE DEF m
  <2> QED BY <1>3, <2>2, <2>3, <2>4
<1>11. CASE Expel
  <2>1. executed'.created = executed.created
    BY <1>2, <1>11 DEF Expel, Executeds
  <2>2. UNCHANGED <<inbox, commits>>
    BY <1>11 DEF Expel
  <2> QED BY <1>1, <2>1, <2>2 DEF OrderInv, Later, Announced
<1> QED BY <1>4, <1>5, <1>6, <1>7, <1>8, <1>9, <1>10, <1>11 DEF GatewayStep

\* When a message is taken the rest are in order, and beyond it if it is a
\* commit or welcome.
LEMMA TakenInOrder ==
  ASSUME TypeInv, OrderInv, NEW op, Gets(op), UNCHANGED <<commits, executed>>,
         \A n \in Nat : Later(dave, n) /\ (Joins(Message) => Message.state < n) => Later(dave', n)
  PROVE  OrderInv'
<1>1. /\ Message = inbox[1] /\ Len(inbox) \in Nat /\ Len(inbox) > 0 /\ Len(inbox') = Len(inbox) - 1
      /\ \A i \in 1..Len(inbox') : inbox'[i] = inbox[i + 1]
  BY Got DEF TypeInv, GatewayType
<1>2. commits \in Nat
  BY DEF TypeInv, GatewayType
<1>3. \A i \in 1..Len(inbox') : i + 1 \in 1..Len(inbox) /\ 1 < i + 1
  BY <1>1
<1>4. Joins(Message) => Message.state \in 1..commits
  BY <1>1 DEF OrderInv
<1>5. Later(dave', commits + 1)
  BY <1>2, <1>4 DEF OrderInv
<1>6. ASSUME NEW i \in 1..Len(inbox'), Joins(inbox'[i])
      PROVE  /\ inbox'[i].state \in 1..commits
             /\ inbox'[i].id = IF inbox'[i].state = 1 THEN 0 ELSE inbox'[i].state
             /\ Later(dave', inbox'[i].state)
             /\ \A j \in 1..Len(inbox') : i < j /\ Joins(inbox'[j]) => inbox'[i].state < inbox'[j].state
  <2>1. inbox'[i] = inbox[i + 1] /\ i + 1 \in 1..Len(inbox) /\ Joins(inbox[i + 1])
    BY <1>1, <1>3, <1>6
  <2>2. /\ inbox[i + 1].state \in 1..commits
        /\ inbox[i + 1].id = IF inbox[i + 1].state = 1 THEN 0 ELSE inbox[i + 1].state
        /\ Later(dave, inbox[i + 1].state)
        /\ \A j \in 1..Len(inbox) : i + 1 < j /\ Joins(inbox[j]) => inbox[i + 1].state < inbox[j].state
    BY <2>1 DEF OrderInv
  <2>3. Joins(Message) => Message.state < inbox[i + 1].state
    <3>1. 1 \in 1..Len(inbox) /\ 1 < i + 1
      BY <1>1, <1>3
    <3> QED BY <1>1, <2>1, <3>1 DEF OrderInv
  <2>4. Later(dave', inbox'[i].state)
    BY <1>2, <2>1, <2>2, <2>3
  <2>5. \A j \in 1..Len(inbox') : i < j => i + 1 < j + 1 /\ j + 1 \in 1..Len(inbox)
        /\ inbox'[j] = inbox[j + 1]
    BY <1>1, <1>3
  <2> QED BY <2>1, <2>2, <2>4, <2>5
<1> QED BY <1>5, <1>6 DEF OrderInv

-----------------------------------------------------------------------------
(* Messages *)

\* What the frames see of an encryptor is the same.
SameNumbers ==
  /\ dave.encryptor = None => dave'.encryptor = None
  /\ dave.encryptor # None =>
       /\ dave'.encryptor.nonce = dave.encryptor.nonce
       /\ dave'.encryptor.previousNonce = dave.encryptor.previousNonce
       /\ dave'.encryptor.generation = dave.encryptor.generation
       /\ dave'.encryptor.key = dave.encryptor.key

\* Either nothing is created, or it is for an epoch.
Creates ==
  /\ dave'.encryptor = dave.encryptor
  /\ \/ rest' \in Over
     \/ /\ dave'.currentState # None /\ rest' \in Fresh \cup FreshFields
        /\ rest' \in FreshFields => dave.encryptor \in Encryptors /\ dave.encryptor # None

\* A message that announces no epoch.
NoEpoch ==
  /\ dave'.currentState = dave.currentState \/ dave'.currentState = None
  /\ Announced(dave') => dave'.transitionInfo = dave.transitionInfo
  /\ rest' = rest

Joined ==
  /\ Joins(Message) /\ Message.state \in Nat /\ Message.id \in Nat
  /\ dave'.currentState = Message.state /\ dave'.encryptor = dave.encryptor
  /\ IF Message.id # 0
     THEN rest' = rest /\ dave'.transitionInfo = [id |-> Message.id, version |-> 1]
     ELSE Creates /\ dave'.transitionInfo = dave.transitionInfo

Executed ==
  /\ Announced(dave) /\ ~Announced(dave')
  /\ dave'.currentState = dave.currentState
  /\ Creates

\* What a message does to the keys.
LEMMA MessageSteps ==
  ASSUME TypeInv, AnyMessage
  PROVE  /\ dave'.keyratchet = dave.keyratchet
         /\ UNCHANGED <<used, frame, repeated, unreadable>>
         /\ \/ SameNumbers /\ torn' = torn
            \/ dave'.encryptor = None /\ torn' = (frame.pc # "idle" \/ torn)
         /\ NoEpoch \/ Joined \/ Executed
<1>1. dave \in Daves /\ dave.encryptor \in Encryptors \cup {None}
  BY DEF TypeInv, SessionType, Daves
<1>2. UNCHANGED <<used, frame, repeated, unreadable>>
  BY DEF AnyMessage, frameVars, HandleSessionDescription, AddUsers, RemoveUsers,
         ProcessExternalSender, PrepareEpoch, ProcessProposals, ProcessCommitTransition, ProcessWelcome,
         PrepareTransition, ExecuteTransition
<1> DEFINE Same(d) == /\ d.keyratchet = dave.keyratchet /\ d.encryptor = dave.encryptor
                      /\ d.currentState = dave.currentState /\ d.transitionInfo = dave.transitionInfo
<1>3. ASSUME torn' = torn, rest' = rest, Same(dave')
      PROVE  dave'.keyratchet = dave.keyratchet /\ SameNumbers /\ NoEpoch
  BY <1>3 DEF SameNumbers, NoEpoch
<1>4. CASE HandleSessionDescription
  <2>1. Same(dave')
    BY <1>1, <1>4 DEF HandleSessionDescription, GetKeyPackage, Daves
  <2>2. torn' = torn /\ rest' = rest
    BY <1>4 DEF HandleSessionDescription, frameVars
  <2> QED BY <1>2, <1>3, <2>1, <2>2
<1>5. CASE AddUsers \/ RemoveUsers \/ ProcessExternalSender
  <2>1. Same(dave')
    BY <1>1, <1>5 DEF AddUsers, RemoveUsers, ProcessExternalSender, Daves
  <2>2. torn' = torn /\ rest' = rest
    BY <1>5 DEF AddUsers, RemoveUsers, ProcessExternalSender, frameVars
  <2> QED BY <1>2, <1>3, <2>1, <2>2
<1>6. CASE PrepareEpoch
  <2>1. CASE Message.epoch = 1
    <3>1. dave' = GetKeyPackage([Reset(dave) EXCEPT !.pendingState = 0])
      BY <1>6, <2>1 DEF PrepareEpoch
    <3>2. /\ dave'.encryptor = None /\ dave'.currentState = None
          /\ dave'.keyratchet = dave.keyratchet /\ dave'.transitionInfo = dave.transitionInfo
      BY <1>1, <3>1 DEF GetKeyPackage, Reset, Daves
    <3>3. torn' = (frame.pc # "idle" \/ torn) /\ rest' = rest
      BY <1>6, <2>1 DEF PrepareEpoch, Tears
    <3> QED BY <1>2, <3>2, <3>3 DEF NoEpoch
  <2>2. CASE Message.epoch # 1
    <3>1. Same(dave')
      BY <1>6, <2>2 DEF PrepareEpoch
    <3>2. torn' = torn /\ rest' = rest
      BY <1>6, <2>2 DEF PrepareEpoch
    <3> QED BY <1>2, <1>3, <3>1, <3>2
  <2> QED BY <2>1, <2>2
<1>7. CASE ProcessProposals
  <2>1. \/ dave' = dave
        \/ \E work, known : dave' = [dave EXCEPT !.commitState = work, !.proposalCache = known]
        \/ \E work, known : dave' = [dave EXCEPT !.proposalCache = known, !.commitState = work,
                                                 !.cachedState = work]
    BY <1>7 DEF ProcessProposals
  <2>2. Same(dave')
    BY <1>1, <2>1 DEF Daves
  <2>3. torn' = torn /\ rest' = rest
    BY <1>7 DEF ProcessProposals, frameVars
  <2> QED BY <1>2, <1>3, <2>2, <2>3
<1>8. CASE ProcessCommitTransition \/ ProcessWelcome
  <2>1. torn' = torn
    BY <1>8 DEF ProcessCommitTransition, ProcessWelcome, frameVars
  <2>2. \/ UNCHANGED <<dave, rest>>
        \/ Complain(dave) \/ Complain([dave EXCEPT !.currentState = None])
        \/ MoveTo(Message.state, Message.id)
    BY <1>8 DEF ProcessCommitTransition, ProcessWelcome
  <2>3. CASE UNCHANGED <<dave, rest>>
    BY <1>2, <1>3, <2>1, <2>3
  <2>4. CASE Complain(dave) \/ Complain([dave EXCEPT !.currentState = None])
    <3>1. /\ dave'.keyratchet = dave.keyratchet /\ dave'.encryptor = dave.encryptor
          /\ dave'.currentState = dave.currentState \/ dave'.currentState = None
          /\ dave'.transitionInfo = dave.transitionInfo
      BY <1>1, <2>4 DEF Complain, GetKeyPackage, Daves
    <3>2. rest' = rest
      BY <2>4 DEF Complain
    <3> QED BY <1>2, <2>1, <3>1, <3>2 DEF NoEpoch, SameNumbers
  <2>5. CASE MoveTo(Message.state, Message.id)
    <3> DEFINE d == Moved(Message.state)
               t == [id |-> Message.id, version |-> 1]
    <3>1. /\ d.keyratchet = dave.keyratchet /\ d.encryptor = dave.encryptor
          /\ d.currentState = Message.state /\ d.transitionInfo = dave.transitionInfo
          /\ [d EXCEPT !.transitionInfo = t].keyratchet = d.keyratchet
          /\ [d EXCEPT !.transitionInfo = t].encryptor = d.encryptor
          /\ [d EXCEPT !.transitionInfo = t].currentState = d.currentState
          /\ [d EXCEPT !.transitionInfo = t].transitionInfo = t
      BY <1>1 DEF Moved, Daves
    <3>2. IF Message.id # 0 THEN dave' = [d EXCEPT !.transitionInfo = t] /\ rest' = rest
          ELSE dave' = d /\ rest' = CreateEncryptor(d)
      BY <2>5 DEF MoveTo
    <3>3. Joins(Message) /\ Message \in Messages
      <4>1. (\E op \in {"commit", "welcome"} : Gets(op)) /\ inbox \in Seq(Messages)
        BY <1>8 DEF ProcessCommitTransition, ProcessWelcome, TypeInv, GatewayType
      <4> QED BY <4>1, Got DEF Joins
    <3>4. Message.state \in Nat /\ Message.id \in Nat
      BY <3>3, MessageTypes
    <3>5. Message.id = 0 => Creates
      <4> HIDE DEF d
      <4> QED BY <1>1, <3>1, <3>2, Created, Apart DEF Creates
    <3> HIDE DEF d, t
    <3>6. Joined /\ dave'.keyratchet = dave.keyratchet /\ SameNumbers
      BY <3>1, <3>2, <3>3, <3>4, <3>5 DEF Joined, SameNumbers, t
    <3> QED BY <1>2, <2>1, <3>6
  <2> QED BY <2>2, <2>3, <2>4, <2>5
<1>9. CASE PrepareTransition
  <2>1. Message \in Messages /\ Message.op = "prepareTransition"
    BY <1>9, Got DEF PrepareTransition, TypeInv, GatewayType
  <2>2. Message.id \in Nat /\ Message.version = 0
    BY <2>1, MessageTypes
  <2>3. /\ dave'.keyratchet = dave.keyratchet /\ dave'.encryptor = dave.encryptor
        /\ dave'.currentState = dave.currentState /\ ~Announced(dave')
    BY <1>1, <1>9, <2>2 DEF PrepareTransition, Daves, Announced
  <2>4. torn' = torn /\ rest' = rest
    BY <1>9 DEF PrepareTransition, frameVars
  <2> QED BY <1>2, <2>3, <2>4 DEF NoEpoch, SameNumbers
<1>10. CASE ExecuteTransition
  <2>1. torn' = torn
    BY <1>10 DEF ExecuteTransition, frameVars
  <2>2. CASE UNCHANGED <<dave, rest>>
    BY <1>2, <1>3, <2>1, <2>2
  <2>3. CASE dave.transitionInfo # None /\ dave.transitionInfo.version = 0 /\ ~ UNCHANGED <<dave, rest>>
    <3>1. dave' = [dave EXCEPT !.transitionInfo = None,
                               !.encryptor = IF @ = None THEN None ELSE [@ EXCEPT !.passthrough = TRUE]]
          /\ rest' = rest
      BY <1>10, <2>3 DEF ExecuteTransition
    <3>2. /\ dave'.keyratchet = dave.keyratchet /\ dave'.currentState = dave.currentState
          /\ dave'.transitionInfo = None
          /\ dave'.encryptor = IF dave.encryptor = None THEN None
                ELSE [dave.encryptor EXCEPT !.passthrough = TRUE]
      BY <1>1, <3>1 DEF Daves
    <3>3. SameNumbers
      BY <1>1, <3>2 DEF SameNumbers, Encryptors
    <3> QED BY <1>2, <2>1, <3>1, <3>2, <3>3 DEF NoEpoch, Announced
  <2>4. CASE dave.transitionInfo # None /\ dave.transitionInfo.version # 0 /\ ~ UNCHANGED <<dave, rest>>
    <3>1. dave' = [dave EXCEPT !.transitionInfo = None] /\ rest' = CreateEncryptor(dave) \o <<"speak">>
      BY <1>10, <2>4 DEF ExecuteTransition
    <3>2. /\ dave'.keyratchet = dave.keyratchet /\ dave'.currentState = dave.currentState
          /\ dave'.transitionInfo = None /\ dave'.encryptor = dave.encryptor
      BY <1>1, <3>1 DEF Daves
    <3>3. Announced(dave) /\ ~Announced(dave')
      <4>1. dave.transitionInfo.version \in 0..1
        BY <1>1, <2>4 DEF Daves
      <4> QED BY <2>4, <3>2, <4>1 DEF Announced
    <3>4. Creates
      BY <1>1, <3>1, <3>2, Created, Apart DEF Creates
    <3> QED BY <1>2, <2>1, <3>2, <3>3, <3>4 DEF Executed, SameNumbers
  <2> QED BY <1>10, <2>2, <2>3, <2>4 DEF ExecuteTransition
<1> QED BY <1>4, <1>5, <1>6, <1>7, <1>8, <1>9, <1>10 DEF AnyMessage

\* Handling a message keeps the invariant.
LEMMA MessageInv ==
  ASSUME TypeInv, DaveInv, AnyMessage, UNCHANGED gatewayVars
  PROVE  DaveInv'
<1>1. /\ dave'.keyratchet = dave.keyratchet
      /\ UNCHANGED <<used, frame, repeated, unreadable>>
      /\ \/ SameNumbers /\ torn' = torn
         \/ dave'.encryptor = None /\ torn' = (frame.pc # "idle" \/ torn)
      /\ NoEpoch \/ Joined \/ Executed
  BY MessageSteps
<1>2. rest = <<>> /\ (\E op : Gets(op)) /\ inbox \in Seq(Messages) /\ TypeInv'
  BY MessageKeepsType DEF AnyMessage, HandleSessionDescription, AddUsers, RemoveUsers,
     ProcessExternalSender, PrepareEpoch, ProcessProposals, ProcessCommitTransition, ProcessWelcome,
     PrepareTransition, ExecuteTransition, Gets, TypeInv, GatewayType
<1>3. UNCHANGED <<commits, executed>>
  BY DEF gatewayVars
<1>4. rest \in Over /\ rest \notin Partway
  BY <1>2, Apart DEF Over
<1>5. /\ dave.currentState \in Epochs /\ dave.keyratchet \in Epochs
      /\ dave.transitionInfo \in [id : Nat, version : 0..1] \cup {None}
  BY DEF TypeInv, SessionType, Daves
<1>6. OrderInv /\ RestInv /\ SpentInv /\ WholeInv /\ ~repeated /\ ~unreadable
  BY DEF DaveInv
<1>7. Joins(Message) => /\ Later(dave, Message.state) /\ Message.state > 0
                        /\ Message.id = IF Message.state = 1 THEN 0 ELSE Message.state
  <2>1. Message = inbox[1] /\ 1 \in 1..Len(inbox)
    BY <1>2, Got
  <2> QED BY <1>6, <2>1 DEF OrderInv
<1>8. Joined => (Announced(dave) => Message.id # 0)
  BY <1>5, <1>6, <1>7 DEF Joined, RestInv, Later, Announced
<1>9. OrderInv'
  <2>1. ASSUME NEW n \in Nat, Later(dave, n), Joins(Message) => Message.state < n
        PROVE  Later(dave', n)
    <3>1. CASE NoEpoch
      BY <1>1, <2>1, <3>1 DEF NoEpoch, Later, Announced
    <3>2. CASE Executed
      BY <1>1, <2>1, <3>2 DEF Executed, Later
    <3>3. CASE Joined /\ Message.id # 0
      BY <1>1, <1>7, <2>1, <3>3 DEF Joined, Later
    <3>4. CASE Joined /\ Message.id = 0
      BY <1>1, <2>1, <3>4 DEF Joined, Later, Announced
    <3> QED BY <1>1, <3>1, <3>2, <3>3, <3>4
  <2> QED BY <1>2, <1>3, <1>6, <2>1, TakenInOrder
<1>10. RestInv'
  <2>1. CASE NoEpoch
    <3>1. Announced(dave') => Announced(dave)
      BY <2>1 DEF NoEpoch, Announced
    <3> QED BY <1>1, <1>2, <1>4, <1>6, <2>1, <3>1, Apart DEF NoEpoch, RestInv, KeyOfLater,
           Stages, Over, Partway
  <2>2. CASE Executed
    <3>1. dave.currentState # None => KeyOfLater
      BY <1>6, <2>2 DEF Executed, RestInv
    <3> QED BY <1>1, <1>2, <2>2, <3>1, Apart DEF Executed, Creates, RestInv, KeyOfLater, Partway
  <2>3. CASE Joined /\ Message.id # 0
    <3>1. dave.keyratchet # None => dave.keyratchet < Message.state
      BY <1>7, <2>3 DEF Joined, Later
    <3>2. Message.id > 0
      BY <2>3 DEF Joined
    <3> QED BY <1>1, <1>2, <1>4, <2>3, <3>1, <3>2, Apart DEF Joined, RestInv, KeyOfLater, Over, Partway
  <2>4. CASE Joined /\ Message.id = 0
    <3>1. dave.keyratchet # None => dave.keyratchet < Message.state
      BY <1>7, <2>4 DEF Joined, Later
    <3>2. ~Announced(dave')
      BY <1>8, <2>4 DEF Joined, Announced
    <3> QED BY <1>1, <2>4, <3>1, <3>2, Apart DEF Joined, Creates, RestInv, KeyOfLater, Partway
  <2> QED BY <1>1, <2>1, <2>2, <2>3, <2>4
<1>11. SpentInv'
  <2>1. \A k : Spent(k) => Spent(k)'
    BY <1>1 DEF Spent
  <2>2. dave'.encryptor # None => dave.encryptor # None /\ dave'.encryptor.key = dave.encryptor.key
    BY <1>1 DEF SameNumbers
  <2>3. rest' \in FreshFields \cup Fields => dave'.encryptor # None
    BY <1>1, <1>4, Apart DEF NoEpoch, Joined, Executed, Creates, Partway
  <2> QED BY <1>1, <1>6, <2>1, <2>2, <2>3 DEF SpentInv, Spent
<1>12. WholeInv'
  <2>1. SUFFICES ASSUME ~torn' PROVE rest' \notin Partway /\ (dave'.encryptor # None => Numbered')
    BY DEF WholeInv
  <2>2. rest' \notin Partway
    BY <1>1, <1>4, Apart DEF NoEpoch, Joined, Executed, Creates
  <2>3. ASSUME dave'.encryptor # None
        PROVE  Numbered'
    <3>1. ~torn /\ SameNumbers /\ dave.encryptor # None
      BY <1>1, <2>1, <2>3 DEF SameNumbers
    <3>2. Numbered
      BY <1>4, <1>6, <3>1 DEF WholeInv
    <3> QED BY <1>1, <3>1, <3>2 DEF SameNumbers, Numbered, Turns
  <2> QED BY <2>2, <2>3
<1> QED BY <1>1, <1>6, <1>9, <1>10, <1>11, <1>12 DEF DaveInv

-----------------------------------------------------------------------------
(* Replacing the encryptor *)

\* A step of createEncryptor keeps the invariant.
LEMMA EncryptorInv ==
  ASSUME TypeInv, DaveInv, EncryptorStep, UNCHANGED gatewayVars
  PROVE  DaveInv'
<1>1. OrderInv /\ RestInv /\ SpentInv /\ WholeInv /\ ~repeated /\ ~unreadable
  BY DEF DaveInv
<1>2. UNCHANGED <<inbox, commits, executed, frame, used, repeated, unreadable>> /\ rest \in Stages
      /\ rest # <<>>
  BY DEF EncryptorStep, gatewayVars, TypeInv, SessionType
<1>3. /\ dave.currentState \in Epochs /\ dave.keyratchet \in Epochs
      /\ dave.encryptor \in Encryptors \cup {None}
      /\ used \subseteq Keys \X Nat /\ frame.key \in Keys \cup {None}
  BY DEF TypeInv, SessionType, Daves, FrameType
<1>4. /\ dave' \in Daves /\ rest' \in Stages
      /\ dave'.currentState = dave.currentState /\ dave'.transitionInfo = dave.transitionInfo
      /\ torn' = (frame.pc # "idle" \/ (torn /\ rest \notin Fresh \cup FreshFields))
      /\ rest \in Fresh \cup FreshFields =>
           dave'.keyratchet = dave.currentState /\ dave'.encryptor = dave.encryptor
      /\ rest \notin Fresh \cup FreshFields => dave'.keyratchet = dave.keyratchet
  BY <1>1, EncryptorSteps
<1>5. rest \in Fresh \cup FreshFields => dave.currentState # None /\ KeyOfLater
  BY <1>1 DEF RestInv
<1>6. ~Announced(dave) /\ ~Announced(dave')
  BY <1>1, <1>2, <1>4 DEF RestInv, Announced
<1>7. OrderInv'
  <2>1. ASSUME NEW n, Later(dave, n)
        PROVE  Later(dave', n)
    BY <1>4, <1>5, <1>6, <2>1 DEF Later
  <2> QED BY <1>1, <1>2, <2>1 DEF OrderInv
<1>8. \A k \in Keys : Spent(k) => Spent(k)'
  BY <1>3, <1>4, <1>5 DEF Spent, KeyOfLater, Keys, Epochs
<1>9. CASE rest \in Fresh \cup FreshFields
  <2>1. rest' \in Partway /\ rest' \notin Fresh \cup FreshFields
        /\ rest' \notin PreviousNonces \cup Generations \cup LastFields
        /\ (rest' \in Fields => rest \in FreshFields)
    BY <1>1, <1>9, EncryptorSteps, Apart DEF Partway, Fields
  <2>2. dave'.keyratchet = dave.currentState /\ dave'.encryptor = dave.encryptor
    BY <1>4, <1>9
  <2>3. RestInv'
    BY <1>1, <1>4, <1>5, <1>6, <1>9, <2>1, <2>2 DEF RestInv
  <2>4. SpentInv'
    <3>1. rest' \in FreshFields \cup Fields => rest \in FreshFields
      BY <2>1 DEF Partway
    <3>2. rest \in FreshFields \/ dave.encryptor # None => dave.encryptor.key \in Keys
      BY <1>1, <1>3 DEF RestInv, Encryptors
    <3> QED BY <1>1, <1>2, <1>3, <1>8, <2>2, <3>1, <3>2 DEF SpentInv
  <2>5. WholeInv'
    <3>1. torn' = (frame.pc # "idle")
      BY <1>4, <1>9
    <3>2. \A u \in used : u[1][1] < dave.currentState
      BY <1>1, <1>3, <1>5, <1>9 DEF SpentInv, Spent, KeyOfLater, Keys, Epochs
    <3> QED BY <1>2, <2>1, <2>2, <3>1, <3>2 DEF WholeInv, ResetInv
  <2> QED BY <1>1, <1>2, <1>7, <2>3, <2>4, <2>5 DEF DaveInv
<1>10. CASE rest \in Partway
  <2>1. rest \notin Fresh \cup FreshFields /\ rest \notin Over
    BY <1>10, Apart
  <2>2. /\ dave.currentState # None /\ dave.keyratchet = dave.currentState
        /\ dave'.keyratchet = dave.keyratchet /\ dave.currentState \in Nat
    BY <1>1, <1>3, <1>4, <1>10, <2>1 DEF RestInv, Epochs
  <2>3. rest' \in Over \/ rest' \in PreviousNonces \cup Generations \cup LastFields
    BY <1>1, <1>10, EncryptorSteps DEF Partway, Fields
  <2>4. rest' \in Fields => dave'.encryptor \in Encryptors
    <3>1. CASE rest \in Emplaces \cup LastFields
      BY <1>1, <3>1, EncryptorSteps, Apart DEF Partway
    <3>2. CASE rest \in Nonces \cup PreviousNonces \cup Generations
      <4>1. dave.encryptor \in Encryptors /\ 0 \in 0..(NonceSize - 1)
        BY <1>1, <3>2, DaveAssumption DEF RestInv, Fields
      <4>2. \/ dave'.encryptor = [dave.encryptor EXCEPT !.nonce = 0]
            \/ dave'.encryptor = [dave.encryptor EXCEPT !.previousNonce = 0]
            \/ dave'.encryptor = [dave.encryptor EXCEPT !.generation = 0]
        BY <1>1, <3>2, EncryptorSteps
      <4> QED BY <4>1, <4>2 DEF Encryptors
    <3> QED BY <1>10, <3>1, <3>2 DEF Partway, Fields
  <2>5. RestInv'
    BY <1>4, <1>6, <2>2, <2>3, <2>4, Apart DEF RestInv, Partway, Fields
  <2>6. SpentInv'
    <3>1. dave'.encryptor.key = <<dave.currentState, 0>> \/ Spent(dave.encryptor.key)'
      <4>1. CASE rest \in Emplaces
        BY <1>1, <4>1, EncryptorSteps
      <4>2. CASE rest \in Fields
        <5>1. dave.encryptor \in Encryptors
          BY <1>1, <4>2 DEF RestInv
        <5>2. CASE rest \in LastFields
          BY <1>1, <5>1, <5>2, EncryptorSteps DEF Encryptors
        <5>3. CASE rest \in Nonces \cup PreviousNonces \cup Generations
          <6>1. dave'.encryptor.key = dave.encryptor.key
            BY <1>1, <5>1, <5>3, EncryptorSteps DEF Encryptors
          <6>2. dave.encryptor.key \in Keys /\ Spent(dave.encryptor.key)
            BY <1>1, <4>2, <5>1 DEF Encryptors, SpentInv
          <6> QED BY <2>2, <6>1, <6>2 DEF Spent
        <5> QED BY <4>2, <5>2, <5>3 DEF Fields
      <4> QED BY <1>10, <4>1, <4>2 DEF Partway
    <3>2. Spent(<<dave.currentState, 0>>)'
      BY <1>4, <2>2 DEF Spent
    <3>3. Spent(dave.encryptor.key)'
      BY <1>4, <2>2, <3>1 DEF Spent
    <3> QED BY <1>1, <1>2, <1>3, <1>8, <3>3 DEF SpentInv, Spent
  <2>7. WholeInv'
    <3>a. ASSUME ~torn'
          PROVE  frame.pc = "idle" /\ ~torn
      BY <1>4, <2>1, <3>a
    <3>b. ~torn' => \A u \in used : u[1][1] < dave'.keyratchet
      BY <1>1, <1>10, <2>2, <3>a DEF WholeInv
    <3>1. SUFFICES ASSUME ~torn'
                   PROVE  /\ rest' \in Partway => ResetInv'
                          /\ rest' \in Over => Numbered'
      BY <1>2, <2>3, <3>a, <3>b DEF WholeInv, Partway, Fields
    <3>2. frame.pc = "idle" /\ ~torn /\ ResetInv /\ \A u \in used : u[1][1] < dave.keyratchet
      BY <1>1, <1>4, <1>10, <2>1, <3>1 DEF WholeInv
    <3> DEFINE e == dave'.encryptor
    <3>3. ASSUME e.nonce = 0, e.previousNonce = 0, e.generation = 0, e.key = <<dave.currentState, 0>>
          PROVE  Numbered'
      <4>1. 0 \div GenSize = 0 /\ 0 % Turnings = 0
        BY TurningsAreTwo
      <4>2. \A u \in used : u[1][1] \in Epochs
        BY <1>3 DEF Keys
      <4>3. \A u \in used : u[1][1] # dave.keyratchet
        BY <2>2, <3>2, <4>2
      <4>4. ~Turns'
        BY <3>3, <4>1 DEF Turns
      <4>5. frame'.pc = "idle"
        BY <1>2, <3>2
      <4> QED BY <1>2, <2>2, <3>3, <4>1, <4>3, <4>4, <4>5 DEF Numbered
    <3>4. CASE rest \in Emplaces
      <4>1. Numbered' /\ rest' \in Over
        BY <1>1, <3>3, <3>4, EncryptorSteps
      <4> QED BY <4>1, Apart
    <3>5. CASE rest \in Fields
      <4>1. dave.encryptor \in Encryptors
        BY <1>1, <3>5 DEF RestInv
      <4>2. CASE rest \in Nonces
        <5>1. e.nonce = 0 /\ rest' \in PreviousNonces
          BY <1>1, <4>1, <4>2, EncryptorSteps DEF Encryptors
        <5> QED BY <5>1, Apart DEF ResetInv, Partway, Fields
      <4>3. CASE rest \in PreviousNonces
        <5>1. e.nonce = 0 /\ e.previousNonce = 0 /\ rest' \in Generations
          BY <1>1, <3>2, <4>1, <4>3, EncryptorSteps DEF Encryptors, ResetInv
        <5> QED BY <5>1, Apart DEF ResetInv, Partway, Fields
      <4>4. CASE rest \in Generations
        <5>1. e.nonce = 0 /\ e.previousNonce = 0 /\ e.generation = 0 /\ rest' \in LastFields
          BY <1>1, <3>2, <4>1, <4>4, EncryptorSteps DEF Encryptors, ResetInv
        <5> QED BY <5>1, Apart DEF ResetInv, Partway, Fields
      <4>5. CASE rest \in LastFields
        <5>1. /\ e.nonce = 0 /\ e.previousNonce = 0 /\ e.generation = 0 /\ rest' \in Over
              /\ e.key = <<dave.currentState, 0>>
          BY <1>1, <3>2, <4>1, <4>5, EncryptorSteps DEF Encryptors, ResetInv
        <5> QED BY <3>3, <5>1, Apart
      <4> QED BY <3>5, <4>2, <4>3, <4>4, <4>5 DEF Fields
    <3> QED BY <1>10, <3>4, <3>5 DEF Partway
  <2> QED BY <1>1, <1>2, <1>7, <2>5, <2>6, <2>7 DEF DaveInv
<1>11. CASE rest \in Over
  <2>1. rest' = <<>> /\ rest' \in Over /\ dave'.keyratchet = dave.keyratchet /\ rest \notin Partway
        /\ rest' \notin Partway /\ rest \notin Fresh \cup FreshFields
    BY <1>1, <1>4, <1>11, EncryptorSteps, Apart DEF Over
  <2>2. SameNumbers
    <3>1. dave'.encryptor = IF dave.encryptor = None THEN None
                ELSE [dave.encryptor EXCEPT !.passthrough = FALSE]
      BY <1>1, <1>11, EncryptorSteps
    <3> QED BY <1>3, <3>1 DEF SameNumbers, Encryptors
  <2>3. RestInv'
    BY <1>6, <2>1, Apart DEF RestInv, Partway
  <2>4. SpentInv'
    BY <1>1, <1>2, <2>1, <2>2, Apart DEF SpentInv, Spent, SameNumbers, Partway
  <2>5. WholeInv'
    <3>1. ASSUME ~torn', dave'.encryptor # None
          PROVE  Numbered'
      <4>1. ~torn /\ dave.encryptor # None
        BY <1>4, <2>1, <2>2, <3>1 DEF SameNumbers
      <4>2. Numbered
        BY <1>1, <2>1, <4>1 DEF WholeInv
      <4> QED BY <1>2, <2>1, <2>2, <4>1, <4>2 DEF SameNumbers, Numbered, Turns
    <3> QED BY <2>1, <3>1 DEF WholeInv
  <2> QED BY <1>1, <1>2, <1>7, <2>3, <2>4, <2>5 DEF DaveInv
<1> QED BY <1>2, <1>9, <1>10, <1>11 DEF Stages

-----------------------------------------------------------------------------
(* Frames *)

\* A frame turns the key with the nonce and takes a nonce nobody has used.
LEMMA FrameNumbers ==
  ASSUME TypeInv, SpentInv, FrameStep, Numbered, dave.encryptor # None
  PROVE  /\ Numbered'
         /\ (~repeated /\ ~unreadable) => (~repeated' /\ ~unreadable')
<1> DEFINE e == dave.encryptor
           R == Turnings
<1>1. /\ dave \in Daves /\ e \in Encryptors
      /\ e.nonce \in 0..(NonceSize - 1) /\ e.previousNonce \in Nat /\ e.generation \in Nat
      /\ used \subseteq Keys \X Nat
      /\ frame \in [pc : {"idle", "turn", "seal", "number"}, key : Keys \cup {None}, nonce : Nat]
  BY DEF TypeInv, SessionType, FrameType, Daves, Encryptors
<1>2. \A u \in used : u[1][2] \in Nat /\ u[2] \in Nat
  BY <1>1 DEF Keys
<1>3. dave'.keyratchet = dave.keyratchet
  BY FrameSteps
<1>4. /\ e.key = <<dave.keyratchet, e.generation>>
      /\ e.previousNonce = e.generation % R
      /\ Turns => frame.pc \in {"idle", "turn"} /\ e.nonce \div GenSize = (e.generation + 1) % R
      /\ frame.pc = "number" => frame.key = e.key /\ frame.nonce = e.nonce
      /\ \A u \in used : u[1][1] = dave.keyratchet =>
           \/ u[1][2] < e.generation
           \/ u[1][2] = e.generation /\ (Turns \/ u[2] < e.nonce)
  BY DEF Numbered
<1>5. NoFrame.pc = "idle"
  BY DEF NoFrame
<1>6. CASE BeginFrame
  <2>1. /\ dave' = dave /\ UNCHANGED <<used, repeated, unreadable>>
        /\ frame'.pc = "turn" /\ Turns' = Turns
    BY <1>6 DEF BeginFrame, NoFrame, Turns
  <2> QED BY <1>4, <2>1 DEF Numbered
<1>7. CASE Turn
  <2> DEFINE g == e.generation + 1
  <2>1. /\ UNCHANGED <<used, repeated, unreadable>>
        /\ frame.pc = "turn" /\ frame'.pc = "seal"
    BY <1>1, <1>7 DEF Turn
  <2>2. dave' = [dave EXCEPT !.encryptor =
                    [e EXCEPT !.generation = IF Turns THEN g ELSE @,
                              !.key = IF Turns THEN <<dave.keyratchet, g>> ELSE @,
                              !.previousNonce = e.nonce \div GenSize]]
    BY <1>7 DEF Turn, Turns
  <2>3. /\ dave'.encryptor.nonce = e.nonce /\ dave'.encryptor.previousNonce = e.nonce \div GenSize
        /\ dave'.encryptor.generation = (IF Turns THEN g ELSE e.generation)
        /\ dave'.encryptor.key = IF Turns THEN <<dave.keyratchet, g>> ELSE e.key
    BY <1>1, <2>2 DEF Daves, Encryptors
  <2>4. ~Turns'
    BY <2>3 DEF Turns
  <2>5. CASE Turns
    <3>1. \A u \in used : u[1][1] = dave.keyratchet => u[1][2] < g
      BY <1>1, <1>2, <1>4
    <3> QED BY <1>3, <1>4, <2>1, <2>3, <2>4, <2>5, <3>1 DEF Numbered
  <2>6. CASE ~Turns
    <3>1. e.nonce \div GenSize = e.previousNonce
      BY <2>6 DEF Turns
    <3> QED BY <1>3, <1>4, <2>1, <2>3, <2>4, <2>6, <3>1 DEF Numbered
  <2> QED BY <2>5, <2>6
<1>8. CASE Seal
  <2>1. /\ dave' = dave /\ UNCHANGED <<used, repeated, unreadable>>
        /\ frame.pc = "seal" /\ frame'.key = e.key /\ frame'.nonce = e.nonce
        /\ Turns' = Turns
    BY <1>1, <1>8 DEF Seal, Turns
  <2> QED BY <1>4, <2>1 DEF Numbered
<1>9. CASE Number
  <2> DEFINE next == (e.nonce + 1) % NonceSize
             k == <<frame.key, frame.nonce>>
  <2>1. /\ frame.pc = "number" /\ frame'.pc = "idle" /\ used' = used \cup {k}
        /\ dave' = [dave EXCEPT !.encryptor.nonce = next]
    BY <1>5, <1>9 DEF Number
  <2>2. ~Turns /\ frame.key = e.key /\ frame.nonce = e.nonce /\ e.nonce \div GenSize = e.generation % R
    BY <1>4, <2>1 DEF Turns
  <2>3. /\ dave'.encryptor.nonce = next /\ dave'.encryptor.previousNonce = e.previousNonce
        /\ dave'.encryptor.generation = e.generation /\ dave'.encryptor.key = e.key
    BY <1>1, <2>1 DEF Daves, Encryptors
  <2>4. k \notin used
    <3>1. k[1][1] = dave.keyratchet /\ k[1][2] = e.generation /\ k[2] = e.nonce
      BY <1>4, <2>2
    <3>2. ~(e.nonce < e.nonce) /\ ~(e.generation < e.generation)
      BY <1>1
    <3> HIDE DEF k
    <3> QED BY <1>4, <2>2, <3>1, <3>2
  <2>5. repeated' = repeated
    <3>1. repeated' = (repeated \/ (~torn /\ k \in used))
      BY <1>9 DEF Number
    <3>2. repeated \in BOOLEAN
      BY DEF TypeInv, FrameType
    <3> HIDE DEF k
    <3> QED BY <2>4, <3>1, <3>2
  <2>6. unreadable' = unreadable
    <3>1. frame.key[2] = e.generation
      BY <1>4, <2>2
    <3>2. unreadable' = (unreadable \/ (~torn /\
            ~(e.nonce = frame.nonce /\ frame.key[2] % R = e.nonce \div GenSize)))
      BY <1>9 DEF Number, Turnings
    <3>3. unreadable \in BOOLEAN
      BY DEF TypeInv, FrameType
    <3> HIDE DEF e, R
    <3> QED BY <2>2, <3>1, <3>2, <3>3
  <2>7. \/ next = e.nonce + 1 /\ next \div GenSize = e.nonce \div GenSize
        \/ /\ next \div GenSize = (e.nonce \div GenSize + 1) % R
           /\ next \div GenSize # e.nonce \div GenSize
    BY <1>1, NextNonce
  <2>8. ((e.generation % R) + 1) % R = (e.generation + 1) % R
    BY <1>1, NextRemainder, TurningsAreTwo
  <2> HIDE DEF next, R
  <2>9. Turns' <=> next \div GenSize # e.nonce \div GenSize
    BY <1>4, <2>2, <2>3 DEF Turns
  <2>10. Turns' => next \div GenSize = (e.generation + 1) % R
    BY <2>2, <2>7, <2>8, <2>9
  <2>11. ~Turns' => next = e.nonce + 1
    BY <2>7, <2>9
  <2>12. ASSUME NEW u \in used', u[1][1] = dave.keyratchet
         PROVE  \/ u[1][2] < e.generation
                \/ u[1][2] = e.generation /\ (Turns' \/ u[2] < next)
    <3>1. CASE u \in used
      <4>1. u[2] < e.nonce => u[2] < e.nonce + 1
        BY <1>1, <1>2, <3>1
      <4> QED BY <1>4, <2>2, <2>11, <2>12, <3>1, <4>1
    <3>2. CASE u = k
      <4>1. u[1][2] = e.generation /\ u[2] = e.nonce
        BY <1>4, <2>2, <3>2
      <4>2. e.nonce < e.nonce + 1
        BY <1>1
      <4> QED BY <2>11, <4>1, <4>2
    <3> QED BY <2>1, <2>12, <3>1, <3>2
  <2> QED BY <1>3, <1>4, <2>1, <2>3, <2>5, <2>6, <2>10, <2>12 DEF Numbered, R
<1> QED BY <1>6, <1>7, <1>8, <1>9 DEF FrameStep, Vanish

\* A step of the UDP thread keeps the invariant.
LEMMA FrameInv ==
  ASSUME TypeInv, DaveInv, FrameStep
  PROVE  DaveInv'
<1>1. OrderInv /\ RestInv /\ SpentInv /\ WholeInv /\ ~repeated /\ ~unreadable
  BY DEF DaveInv
<1>2. /\ TypeInv' /\ rest' = rest
      /\ dave'.currentState = dave.currentState /\ dave'.transitionInfo = dave.transitionInfo
      /\ dave'.keyratchet = dave.keyratchet
      /\ dave.encryptor = None => dave' = dave
      /\ dave.encryptor # None => dave'.encryptor \in Encryptors
  BY <1>1, FrameSteps
<1>3. UNCHANGED <<inbox, commits, executed>>
  BY DEF FrameStep, gatewayVars
<1>4. /\ dave \in Daves /\ dave.keyratchet \in Epochs /\ dave.encryptor \in Encryptors \cup {None}
      /\ frame \in [pc : {"idle", "turn", "seal", "number"}, key : Keys \cup {None}, nonce : Nat]
      /\ torn \in BOOLEAN
  BY DEF TypeInv, SessionType, FrameType, Daves
<1>5. OrderInv'
  BY <1>1, <1>2, <1>3 DEF OrderInv, Later, Announced
<1>6. RestInv'
  BY <1>1, <1>2 DEF RestInv, KeyOfLater, Announced
<1>7. SpentInv'
  <2>1. \A k : Spent(k)' = Spent(k)
    BY <1>2 DEF Spent
  <2>2. CASE Turn
    <3> DEFINE turns == dave.encryptor.nonce \div GenSize # dave.encryptor.previousNonce
               key == IF turns THEN <<dave.keyratchet, dave.encryptor.generation + 1>> ELSE dave.encryptor.key
    <3>1. dave.encryptor # None /\ Spent(dave.encryptor.key) /\ UNCHANGED used /\ frame'.pc = "seal"
      BY <1>1, <1>4, <2>2 DEF Turn, SpentInv
    <3>2. dave'.encryptor.key = key
      BY <1>4, <2>2, <3>1 DEF Turn, Daves, Encryptors
    <3>3. Spent(key)
      BY <1>4, <3>1 DEF Spent, Epochs
    <3> HIDE DEF key
    <3> QED BY <1>1, <2>1, <3>1, <3>2, <3>3 DEF SpentInv, Spent
  <2>3. CASE BeginFrame \/ Vanish
    <3>1. UNCHANGED <<dave, used>> /\ frame'.pc # "number"
      BY <2>3 DEF BeginFrame, Vanish, NoFrame
    <3> QED BY <1>1, <1>2, <2>1, <3>1 DEF SpentInv, Spent
  <2>4. CASE Seal
    <3>1. UNCHANGED <<dave, used>> /\ frame'.key = dave.encryptor.key /\ dave.encryptor # None
      BY <1>4, <2>4 DEF Seal
    <3>2. Spent(dave.encryptor.key) /\ dave.encryptor.key \in Keys
      BY <1>1, <1>4, <3>1 DEF SpentInv, Encryptors
    <3> QED BY <1>1, <1>2, <2>1, <3>1, <3>2 DEF SpentInv, Spent
  <2>5. CASE Number
    <3>1. frame.pc = "number" /\ frame'.pc = "idle" /\ dave.encryptor # None
      BY <2>5 DEF Number, NoFrame
    <3>2. used' = used \cup {<<frame.key, frame.nonce>>} /\ Spent(frame.key)
      BY <1>1, <2>5, <3>1 DEF Number, SpentInv
    <3>3. dave'.encryptor.key = dave.encryptor.key
      BY <1>4, <2>5, <3>1 DEF Number, Daves, Encryptors
    <3> QED BY <1>1, <1>2, <2>1, <3>1, <3>2, <3>3 DEF SpentInv, Spent
  <2> QED BY <2>2, <2>3, <2>4, <2>5 DEF FrameStep
<1>8. torn => torn'
  BY <1>4 DEF FrameStep, BeginFrame, Turn, Seal, Number, Vanish
<1>10. ~torn /\ rest \notin Partway /\ dave.encryptor # None
         => Numbered' /\ ~repeated' /\ ~unreadable'
  BY <1>1, FrameNumbers DEF WholeInv
<1>11. dave.encryptor = None => UNCHANGED <<dave, used, repeated, unreadable>>
  BY <1>2 DEF FrameStep, BeginFrame, Ready, Turn, Seal, Number, Vanish
<1>12. torn => ~repeated' /\ ~unreadable'
  BY <1>1 DEF FrameStep, BeginFrame, Turn, Seal, Number, Vanish
<1>13. rest \in Partway /\ ~torn => UNCHANGED <<repeated, unreadable>>
  <2>1. ASSUME ~torn, rest \in Partway
        PROVE  UNCHANGED <<repeated, unreadable>>
    <3>1. frame.pc = "idle"
      BY <1>1, <2>1 DEF WholeInv
    <3> QED BY <3>1 DEF FrameStep, BeginFrame, Turn, Seal, Number, Vanish
  <2> QED BY <2>1
<1>14. ~repeated' /\ ~unreadable'
  BY <1>1, <1>4, <1>10, <1>11, <1>12, <1>13
<1>15. WholeInv'
  <2>1. SUFFICES ASSUME ~torn'
                 PROVE  rest \notin Partway /\ (dave'.encryptor # None => Numbered')
    BY <1>2 DEF WholeInv
  <2>2. ~torn
    BY <1>8, <2>1
  <2>3. rest \notin Partway
    <3>1. ASSUME rest \in Partway
          PROVE  torn'
      <4>1. frame.pc = "idle" /\ rest # <<>>
        BY <1>1, <2>2, <3>1, Apart DEF WholeInv, Over
      <4> QED BY <4>1 DEF FrameStep, BeginFrame, Turn, Seal, Number, Vanish
    <3> QED BY <2>1, <3>1
  <2>4. dave'.encryptor # None => dave.encryptor # None
    BY <1>2
  <2> QED BY <1>10, <2>2, <2>3, <2>4
<1> QED BY <1>5, <1>6, <1>7, <1>14, <1>15 DEF DaveInv

-----------------------------------------------------------------------------
(* The invariant *)

\* The gateway moves nothing of the bot's but the inbox.
LEMMA GatewayInv ==
  ASSUME TypeInv, DaveInv, GatewayStep
  PROVE  TypeInv' /\ DaveInv'
<1>1. OrderInv'
  BY GatewayOrder DEF DaveInv
<1>2. UNCHANGED <<dave, rest, frame, frames, torn, used, repeated, unreadable>>
  BY DEF GatewayStep, frameVars
<1>3. TypeInv'
  BY <1>2, GatewayKeepsType DEF TypeInv, SessionType, FrameType
<1>4. RestInv' /\ SpentInv' /\ WholeInv'
  BY <1>2 DEF DaveInv, RestInv, KeyOfLater, SpentInv, Spent, WholeInv, ResetInv, Numbered, Turns
<1> QED BY <1>1, <1>2, <1>3, <1>4 DEF DaveInv

\* The bot starts without a group, a key or an encryptor.
LEMMA InitInv ==
  ASSUME Init
  PROVE  TypeInv /\ DaveInv
<1> DEFINE First == {[op |-> "description"], [op |-> "externalSender"], [op |-> "prepareEpoch", epoch |-> 2]}
<1>1. \A m \in First : m \in Messages /\ ~Joins(m)
  BY DEF Messages, Joins
<1> HIDE DEF First
<1>2. inbox \in Seq(First)
  <2>1. <<[op |-> "description"], [op |-> "externalSender"]>> \in Seq(First)
    BY DEF First
  <2>2. <<>> \in Seq(First) /\ <<[op |-> "prepareEpoch", epoch |-> 2]>> \in Seq(First)
    BY DEF First
  <2>3. \E later \in Seq(First) : inbox = <<[op |-> "description"], [op |-> "externalSender"]>> \o later
    BY <2>2 DEF Init
  <2> QED BY <2>1, <2>3, ConcatProperties
<1>3. inbox \in Seq(Messages) /\ \A i \in 1..Len(inbox) : ~Joins(inbox[i])
  <2>1. \A i \in 1..Len(inbox) : inbox[i] \in First
    BY <1>2
  <2> QED BY <1>1, <1>2, <2>1, SeqDef
<1>4. executed \in Executeds /\ ~executed.created
  BY DEF Init, Executeds
<1>5. GatewayType
  <2>1. heard \in [package : Nat, offer : Offers, invalid : BOOLEAN]
    BY DEF Init, Offers
  <2>2. transitions \in Seq([id : Nat, version : 0..1, epoch : Nat])
    BY DEF Init
  <2>3. present \subseteq Everybody
    BY DEF Init, Everybody
  <2> QED BY <1>3, <1>4, <2>1, <2>2, <2>3 DEF Init, GatewayType
<1>6. dave \in Daves /\ rest = <<>>
  BY <1>5 DEF Init, Daves, Offers, Epochs, GatewayType
<1>7. rest \in Over /\ rest \notin Partway /\ rest \notin Fresh \cup FreshFields
  <2>1. rest \in Over
    BY <1>6 DEF Over
  <2> QED BY <2>1, Apart
<1>8. FrameType
  BY DEF Init, FrameType, NoFrame
<1>9. OrderInv
  BY <1>3, <1>4 DEF Init, OrderInv, Later, Announced
<1>10. RestInv /\ SpentInv /\ WholeInv
  BY <1>7 DEF Init, RestInv, SpentInv, WholeInv, Announced, NoFrame, Partway
<1> QED BY <1>5, <1>6, <1>7, <1>8, <1>9, <1>10 DEF TypeInv, SessionType, DaveInv, Init, Stages

\* The types and the invariant hold always: epochs arrive in order, each
\* encryptor is numbered from its key on, and no key comes back.
THEOREM DaveInvariant == Spec => [](TypeInv /\ DaveInv)
<1>1. Init => TypeInv /\ DaveInv
  BY InitInv
<1>2. TypeInv /\ DaveInv /\ [Next]_vars => (TypeInv /\ DaveInv)'
  <2> SUFFICES ASSUME TypeInv, DaveInv, [Next]_vars
               PROVE  TypeInv' /\ DaveInv'
    OBVIOUS
  <2>1. CASE GatewayStep
    BY <2>1, GatewayInv
  <2>2. CASE AnyMessage /\ UNCHANGED gatewayVars
    BY <2>2, MessageInv, MessageKeepsType
  <2>3. CASE EncryptorStep /\ UNCHANGED gatewayVars
    BY <2>3, EncryptorInv, EncryptorKeepsType DEF DaveInv
  <2>4. CASE FrameStep
    BY <2>4, FrameInv, FrameSteps DEF DaveInv
  <2>5. CASE UNCHANGED vars
    BY <2>5 DEF vars, gatewayVars, frameVars, TypeInv, GatewayType, SessionType, FrameType, DaveInv,
       OrderInv, Later, Announced, RestInv, KeyOfLater, SpentInv, Spent, WholeInv, ResetInv, Numbered, Turns
  <2> QED BY <2>1, <2>2, <2>3, <2>4, <2>5 DEF Next, SessionStep, AnyMessage
<1> QED BY <1>1, <1>2, PTL DEF Spec

\* No key encrypts two frames with one nonce, whatever the sizes of nonces
\* and generations, unless the encryptor was replaced under a frame.
THEOREM DaveNonceOnce == Spec => []NonceOnce
<1>1. DaveInv => NonceOnce
  BY DEF DaveInv, NonceOnce
<1> QED BY <1>1, DaveInvariant, PTL

\* The receivers can tell the generation and the nonce of every frame, with
\* the same exception.
THEOREM DaveFramesAreReadable == Spec => []FramesAreReadable
<1>1. DaveInv => FramesAreReadable
  BY DEF DaveInv, FramesAreReadable
<1> QED BY <1>1, DaveInvariant, PTL

-----------------------------------------------------------------------------
(* What the bot speaks with *)

\* The message of a group that is created is its announcement and its execution.
Founds(m) == Joins(m) /\ m.id = 0
Announces(m) == (Joins(m) /\ m.id # 0) \/ m.op = "prepareTransition"
Renews(m) == m.op = "prepareEpoch" /\ m.epoch = 1
Executes(m) == m.op = "executeTransition"

Transitions == [id : Nat, version : 0..1, epoch : Nat]
Newest == transitions[Len(transitions)]

\* m announces the transition t.
AnnouncesIt(m, t) ==
  /\ Announces(m) /\ m.id = t.id
  /\ IF Joins(m) THEN t.version = 1 /\ m.state = t.epoch ELSE t.version = 0

\* m leaves t as it was announced.
Passes(m, t) == ~Announces(m) /\ ~Renews(m) /\ ~(Executes(m) /\ m.id = t.id)

\* The session remembers t, and is in its epoch.
Knows(t) ==
  /\ dave.transitionInfo = [id |-> t.id, version |-> t.version]
  /\ t.version = 1 => dave.currentState = t.epoch

\* When the session comes to the i-th message it will know t.
Pending(i, t) ==
  \/ Knows(t) /\ \A k \in 1..Len(inbox) : k < i => Passes(inbox[k], t)
  \/ \E j \in 1..Len(inbox) : /\ j < i /\ AnnouncesIt(inbox[j], t)
                              /\ \A k \in 1..Len(inbox) : j < k /\ k < i => Passes(inbox[k], t)

CountInv ==
  /\ commits <= MaxCommits
  /\ \A i \in 1..Len(transitions) :
       transitions[i].id \in 1..commits \/ transitions[i].id \in (MaxCommits + 1)..(MaxCommits + moves)
  /\ \A i, j \in 1..Len(transitions) : transitions[i].id = transitions[j].id => i = j
  /\ Len(transitions) > 1 => overlap

\* Nobody commits on the way back to version 0.
TargetInv ==
  executed.target = 0 =>
    /\ proposals = {}
    /\ IF transitions = <<>> THEN executed.version = 0 ELSE Newest.version = 0

\* Nothing is announced before the group is created.
FirstInv ==
  /\ commits = 0 => transitions = <<>> /\ \A i \in 1..Len(inbox) : ~Announces(inbox[i])
  /\ \A i, k \in 1..Len(inbox) : Founds(inbox[i]) /\ k < i => ~Announces(inbox[k])
  /\ \A i \in 1..Len(inbox) : inbox[i].op = "prepareTransition" => inbox[i].id # 0
  /\ commits = 0 \/ (\E i \in 1..Len(inbox) : Founds(inbox[i])) =>
       dave.encryptor = None /\ dave.transitionInfo = None /\ rest = <<>>

Told == Running /\ ~heard.invalid

\* The transition announced last is on its way to the bot, or known to it.
PendingInv == Told /\ Bot \in members /\ transitions # <<>> => Pending(Len(inbox) + 1, Newest)

\* What was executed last, by the number it was announced with.
ExecutedAs(id) == [id |-> id, version |-> executed.version, epoch |-> executed.epoch]

\* Behind the i-th message nothing is executed, and nothing takes the key away.
After(i) ==
  \A k \in 1..Len(inbox) : k > i =>
    ~Executes(inbox[k]) /\ ~Founds(inbox[k]) /\ (Renews(inbox[k]) => executed.version = 0)

\* What is left of createEncryptor ends with the encryptor of what was executed.
Will ==
  IF executed.version = 0
  THEN rest = <<>> /\ (dave.encryptor # None => dave.encryptor.passthrough)
  ELSE /\ dave.currentState # None
       /\ rest # <<>> => dave.currentState = executed.epoch
       /\ rest \notin Fresh \cup FreshFields => dave.keyratchet = executed.epoch
       /\ rest \notin Fresh \cup Emplaces =>
            /\ dave.encryptor # None
            /\ rest \in Over => dave.encryptor.key[1] = executed.epoch
            /\ rest = <<>> => ~dave.encryptor.passthrough
            /\ rest # <<>> => rest \in Speaking

\* The bot speaks with what was executed last, or will when it has heard of it.
ExecutedInv ==
  Told /\ executed.bot /\ ~overlap =>
    \/ After(0) /\ Will
    \/ \E i \in 1..Len(inbox) :
         /\ After(i)
         /\ \/ Executes(inbox[i]) /\ Pending(i, ExecutedAs(inbox[i].id))
            \/ Founds(inbox[i]) /\ executed.version = 1 /\ inbox[i].state = executed.epoch

SpeaksInv == CountInv /\ TargetInv /\ FirstInv /\ PendingInv /\ ExecutedInv

\* A message at the end changes nothing before it.
LEMMA PendingStays ==
  ASSUME inbox \in Seq(Messages), NEW m \in Messages, inbox' = inbox \/ inbox' = Append(inbox, m), dave' = dave,
         NEW t, NEW i \in Nat, i <= Len(inbox) + 1, Pending(i, t)
  PROVE  Pending(i, t)'
<1>1. /\ Len(inbox) \in Nat /\ Len(inbox') \in Nat /\ Len(inbox) <= Len(inbox')
      /\ \A k \in 1..Len(inbox) : k \in 1..Len(inbox') /\ inbox'[k] = inbox[k]
  BY AppendProperties
<1>2. \A k \in 1..Len(inbox') : k < i => k \in 1..Len(inbox)
  BY <1>1
<1>3. CASE Knows(t) /\ \A k \in 1..Len(inbox) : k < i => Passes(inbox[k], t)
  BY <1>1, <1>2, <1>3 DEF Pending, Knows
<1>4. CASE \E j \in 1..Len(inbox) : /\ j < i /\ AnnouncesIt(inbox[j], t)
                                    /\ \A k \in 1..Len(inbox) : j < k /\ k < i => Passes(inbox[k], t)
  BY <1>1, <1>2, <1>4 DEF Pending
<1> QED BY <1>3, <1>4 DEF Pending

\* And a message at the end that passes t leaves it to be known.
LEMMA PendingPasses ==
  ASSUME inbox \in Seq(Messages), NEW m \in Messages, inbox' = Append(inbox, m), dave' = dave,
         NEW t, Pending(Len(inbox) + 1, t), Passes(m, t)
  PROVE  Pending(Len(inbox) + 1, t)'
<1>1. /\ Len(inbox) \in Nat /\ Len(inbox') = Len(inbox) + 1
      /\ \A k \in 1..Len(inbox) : k \in 1..Len(inbox') /\ inbox'[k] = inbox[k]
      /\ \A k \in 1..Len(inbox') : k \in 1..Len(inbox) \/ inbox'[k] = m
      /\ \A k \in 1..Len(inbox) : k < Len(inbox) + 1
      /\ \A k \in 1..Len(inbox') : k < Len(inbox') => k \in 1..Len(inbox)
      /\ \A k \in 1..Len(inbox) : k < Len(inbox') /\ k < Len(inbox') + 1
  BY AppendProperties
<1>3. CASE Knows(t) /\ \A k \in 1..Len(inbox) : k < Len(inbox) + 1 => Passes(inbox[k], t)
  BY <1>1, <1>3 DEF Pending, Knows
<1>4. CASE \E j \in 1..Len(inbox) : /\ j < Len(inbox) + 1 /\ AnnouncesIt(inbox[j], t)
                                    /\ \A k \in 1..Len(inbox) : j < k /\ k < Len(inbox) + 1 => Passes(inbox[k], t)
  <2>1. PICK j \in 1..Len(inbox) :
           /\ j < Len(inbox) + 1 /\ AnnouncesIt(inbox[j], t)
           /\ \A k \in 1..Len(inbox) : j < k /\ k < Len(inbox) + 1 => Passes(inbox[k], t)
    BY <1>4
  <2>2. j \in 1..Len(inbox') /\ inbox'[j] = inbox[j] /\ j < Len(inbox') /\ j < Len(inbox') + 1
    BY <1>1
  <2>3. \A k \in 1..Len(inbox') : j < k => Passes(inbox'[k], t)
    BY <1>1, <2>1
  <2> QED BY <2>1, <2>2, <2>3 DEF Pending
<1> QED BY <1>3, <1>4 DEF Pending

\* What has just been announced is pending.
LEMMA PendingAnnounced ==
  ASSUME inbox \in Seq(Messages), NEW m \in Messages, inbox' = Append(inbox, m), NEW t, AnnouncesIt(m, t)
  PROVE  Pending(Len(inbox) + 1, t)'
<1>1. Len(inbox') \in 1..Len(inbox') /\ Len(inbox') < Len(inbox') + 1 /\ inbox'[Len(inbox')] = m
      /\ \A k \in 1..Len(inbox') : ~(Len(inbox') < k)
  BY AppendProperties
<1> QED BY <1>1 DEF Pending

\* What is executed, created or renewed last is so behind whatever comes.
LEMMA AfterStays ==
  ASSUME inbox \in Seq(Messages), NEW m \in Messages, inbox' = inbox \/ inbox' = Append(inbox, m),
         executed'.version = executed.version,
         inbox' = Append(inbox, m) =>
           ~Executes(m) /\ ~Founds(m) /\ (Renews(m) => executed.version = 0),
         NEW i \in Nat, After(i)
  PROVE  After(i)'
<1>1. /\ \A k \in 1..Len(inbox) : k \in 1..Len(inbox') /\ inbox'[k] = inbox[k]
      /\ \A k \in 1..Len(inbox') : k \in 1..Len(inbox) \/ (inbox' = Append(inbox, m) /\ inbox'[k] = m)
  BY AppendProperties
<1> QED BY <1>1 DEF After

\* The bot will speak as before while nothing is executed.
LEMMA ExecutedKept ==
  ASSUME inbox \in Seq(Messages), NEW m \in Messages, inbox' = inbox \/ inbox' = Append(inbox, m),
         dave' = dave, rest' = rest,
         executed'.version = executed.version, executed'.epoch = executed.epoch,
         inbox' = Append(inbox, m) =>
           ~Executes(m) /\ ~Founds(m) /\ (Renews(m) => executed.version = 0),
         Told' /\ executed'.bot /\ ~overlap' => Told /\ executed.bot /\ ~overlap,
         ExecutedInv
  PROVE  ExecutedInv'
<1>1. SUFFICES ASSUME Told', executed'.bot, ~overlap'
               PROVE  \/ After(0)' /\ Will'
                      \/ \E i \in 1..Len(inbox') :
                           /\ After(i)'
                           /\ \/ Executes(inbox'[i]) /\ Pending(i, ExecutedAs(inbox[i].id))'
                              \/ Founds(inbox'[i]) /\ executed'.version = 1 /\ inbox'[i].state = executed'.epoch
  BY DEF ExecutedInv
<1>2. /\ Len(inbox) \in Nat
      /\ \A k \in 1..Len(inbox) : k \in 1..Len(inbox') /\ inbox'[k] = inbox[k] /\ k \in Nat /\ k <= Len(inbox) + 1
  BY AppendProperties
<1>3. CASE After(0) /\ Will
  <2>1. After(0)'
    BY <1>3, AfterStays
  <2>2. Will'
    BY <1>3 DEF Will
  <2> QED BY <2>1, <2>2
<1>4. ASSUME NEW i \in 1..Len(inbox), After(i)
      PROVE  After(i)'
  BY <1>2, <1>4, AfterStays
<1>5. ASSUME NEW i \in 1..Len(inbox), After(i), Executes(inbox[i]), Pending(i, ExecutedAs(inbox[i].id))
      PROVE  Pending(i, ExecutedAs(inbox[i].id))'
  <2>1. PICK t : t = ExecutedAs(inbox[i].id)
    OBVIOUS
  <2>2. Pending(i, t)'
    BY <1>2, <1>5, <2>1, PendingStays
  <2>3. ExecutedAs(inbox[i].id)' = t
    BY <1>2, <2>1 DEF ExecutedAs
  <2> QED BY <2>2, <2>3
<1>6. CASE \E i \in 1..Len(inbox) :
              /\ After(i)
              /\ \/ Executes(inbox[i]) /\ Pending(i, ExecutedAs(inbox[i].id))
                 \/ Founds(inbox[i]) /\ executed.version = 1 /\ inbox[i].state = executed.epoch
  BY <1>2, <1>4, <1>5, <1>6
<1> QED BY <1>1, <1>3, <1>6 DEF ExecutedInv

-----------------------------------------------------------------------------
(* What a message does *)

\* What the session does on m, when it can follow.
Hears(m) ==
  /\ dave'.keyratchet = dave.keyratchet
  /\ Announces(m) /\ m.id # 0 =>
       /\ dave'.transitionInfo = [id |-> m.id, version |-> IF Joins(m) THEN 1 ELSE 0]
       /\ dave'.currentState = IF Joins(m) THEN m.state ELSE dave.currentState
       /\ dave'.encryptor = dave.encryptor /\ rest' = <<>>
  /\ Founds(m) =>
       /\ dave'.transitionInfo = dave.transitionInfo /\ dave'.currentState = m.state
       /\ dave'.encryptor = dave.encryptor
       /\ dave.encryptor = None => rest' \in Fresh
  /\ Renews(m) =>
       dave'.transitionInfo = dave.transitionInfo /\ dave'.encryptor = None /\ rest' = <<>>
  /\ Executes(m) /\ dave.transitionInfo # None /\ dave.transitionInfo.id = m.id =>
       /\ dave'.transitionInfo = None /\ dave'.currentState = dave.currentState
       /\ IF dave.transitionInfo.version = 0
          THEN rest' = <<>> /\ (dave'.encryptor # None => dave'.encryptor.passthrough)
          ELSE /\ dave'.encryptor = dave.encryptor
               /\ dave.currentState # None =>
                    rest' \in IF dave.encryptor = None THEN Fresh ELSE FreshFields \cap Speaking
  /\ \/ Announces(m) \/ Founds(m) \/ Renews(m)
     \/ Executes(m) /\ dave.transitionInfo # None /\ dave.transitionInfo.id = m.id
     \/ /\ dave'.transitionInfo = dave.transitionInfo /\ dave'.currentState = dave.currentState
        /\ dave'.encryptor = dave.encryptor /\ rest' = <<>>

\* Nothing of what the bot speaks with has changed.
SameSession ==
  /\ dave'.transitionInfo = dave.transitionInfo /\ dave'.currentState = dave.currentState
  /\ dave'.encryptor = dave.encryptor /\ dave'.keyratchet = dave.keyratchet /\ rest' = rest

\* The session follows a message, or asks to be added again, or the process ends.
LEMMA Hearing ==
  ASSUME TypeInv, AnyMessage, Running
  PROVE  \/ Hears(Message) /\ (Told' => Told)
         \/ /\ ~Told' /\ rest' = rest /\ dave'.encryptor = dave.encryptor
            /\ dave'.transitionInfo = dave.transitionInfo
<1>1. /\ dave \in Daves /\ dave.encryptor \in Encryptors \cup {None} /\ inbox \in Seq(Messages)
      /\ dave.transitionInfo \in [id : Nat, version : 0..1] \cup {None}
  BY DEF TypeInv, SessionType, GatewayType, Daves
<1>2. \A d : GetKeyPackage(d) = [d EXCEPT !.keyPackage = d.keyPackage + 1]
  BY DEF GetKeyPackage
<1>3. \A p, o, i : Says(p, o, i) => heard'.invalid = i
  BY DEF Says
<1>4. ASSUME NEW op, Gets(op)
      PROVE  Message \in Messages /\ Message.op = op /\ rest = <<>>
  BY <1>1, <1>4, Got
<1>5. ASSUME NEW op \in {"description", "connect", "disconnect", "externalSender", "proposals"}, Gets(op), SameSession,
             heard'.invalid = heard.invalid, died' = died
      PROVE  Hears(Message) /\ (Told' => Told)
  <2>1. Message.op = op /\ rest = <<>>
    BY <1>4, <1>5
  <2>2. ~Announces(Message) /\ ~Founds(Message) /\ ~Renews(Message) /\ ~Executes(Message)
    BY <2>1 DEF Announces, Founds, Renews, Executes, Joins
  <2>3. Hears(Message)
    BY <1>5, <2>1, <2>2 DEF Hears, SameSession
  <2>4. Told' => Told
    BY <1>5 DEF Told, Running
  <2> QED BY <2>3, <2>4
<1>6. CASE HandleSessionDescription
  <2>1. SameSession
    BY <1>1, <1>2, <1>6 DEF HandleSessionDescription, SameSession, Daves
  <2>2. Gets("description") /\ heard'.invalid = heard.invalid /\ died' = died
    BY <1>3, <1>6 DEF HandleSessionDescription
  <2> QED BY <1>5, <2>1, <2>2
<1>7. CASE AddUsers \/ RemoveUsers \/ ProcessExternalSender
  <2>1. SameSession
    BY <1>1, <1>7 DEF AddUsers, RemoveUsers, ProcessExternalSender, SameSession, Daves
  <2>2. (Gets("connect") \/ Gets("disconnect") \/ Gets("externalSender")) /\ heard' = heard /\ died' = died
    BY <1>7 DEF AddUsers, RemoveUsers, ProcessExternalSender
  <2> QED BY <1>5, <2>1, <2>2
<1>8. CASE PrepareEpoch
  <2>1. Message.op = "prepareEpoch" /\ rest = <<>> /\ rest' = rest /\ died' = died
    BY <1>4, <1>8 DEF PrepareEpoch
  <2>2. ~Announces(Message) /\ ~Founds(Message) /\ ~Executes(Message) /\ (Renews(Message) <=> Message.epoch = 1)
    BY <2>1 DEF Announces, Founds, Renews, Executes, Joins
  <2>3. heard'.invalid = heard.invalid
    BY <1>3, <1>8 DEF PrepareEpoch
  <2>4. Told' => Told
    BY <2>1, <2>3 DEF Told, Running
  <2>5. CASE Message.epoch = 1
    <3>1. dave' = GetKeyPackage([Reset(dave) EXCEPT !.pendingState = 0])
      BY <1>8, <2>5 DEF PrepareEpoch
    <3>2. /\ dave'.encryptor = None
          /\ dave'.keyratchet = dave.keyratchet /\ dave'.transitionInfo = dave.transitionInfo
      BY <1>1, <3>1 DEF GetKeyPackage, Reset, Daves
    <3> QED BY <2>1, <2>2, <2>4, <2>5, <3>2 DEF Hears
  <2>6. CASE Message.epoch # 1
    <3>1. dave' = dave
      BY <1>8, <2>6 DEF PrepareEpoch
    <3> QED BY <2>1, <2>2, <2>4, <2>6, <3>1 DEF Hears
  <2> QED BY <2>5, <2>6
<1>9. CASE ProcessProposals
  <2>1. \/ dave' = dave
        \/ \E work, known : dave' = [dave EXCEPT !.commitState = work, !.proposalCache = known]
        \/ \E work, known : dave' = [dave EXCEPT !.proposalCache = known, !.commitState = work,
                                                 !.cachedState = work]
    BY <1>9 DEF ProcessProposals
  <2>2. dave'.transitionInfo = dave.transitionInfo /\ dave'.currentState = dave.currentState
        /\ dave'.encryptor = dave.encryptor /\ dave'.keyratchet = dave.keyratchet
    BY <1>1, <2>1 DEF Daves
  <2>3. Gets("proposals") /\ rest' = rest /\ heard'.invalid = heard.invalid /\ died' \in {died, "proposals"}
    BY <1>3, <1>9 DEF ProcessProposals
  <2>4. SameSession
    BY <2>2, <2>3 DEF SameSession
  <2>5. CASE died' = died
    BY <1>5, <2>3, <2>4, <2>5
  <2>6. CASE died' = "proposals"
    <3>1. ~Told'
      BY <2>6, NoneAssumption DEF Told, Running
    <3> QED BY <2>2, <2>3, <3>1
  <2> QED BY <2>3, <2>5, <2>6
<1>10. CASE ProcessCommitTransition \/ ProcessWelcome
  <2>1. \/ UNCHANGED <<dave, rest>> /\ died' \in {"commit", "welcome"}
        \/ Complain(dave) \/ Complain([dave EXCEPT !.currentState = None])
        \/ MoveTo(Message.state, Message.id) /\ UNCHANGED <<heard, died>>
    BY <1>10 DEF ProcessCommitTransition, ProcessWelcome
  <2>2. Joins(Message) /\ rest = <<>> /\ Message \in Messages
    <3>1. Gets("commit") \/ Gets("welcome")
      BY <1>10 DEF ProcessCommitTransition, ProcessWelcome
    <3> QED BY <1>4, <3>1 DEF Joins
  <2>3. CASE UNCHANGED <<dave, rest>> /\ died' \in {"commit", "welcome"}
    <3>1. ~Told'
      BY <2>3, NoneAssumption DEF Told, Running
    <3> QED BY <2>3, <3>1
  <2>4. CASE Complain(dave) \/ Complain([dave EXCEPT !.currentState = None])
    <3>1. dave'.encryptor = dave.encryptor /\ dave'.transitionInfo = dave.transitionInfo
      BY <1>1, <1>2, <2>4 DEF Complain, Daves
    <3>2. rest' = rest /\ heard'.invalid = TRUE
      BY <1>3, <2>4 DEF Complain
    <3>3. ~Told'
      BY <3>2 DEF Told
    <3> QED BY <3>1, <3>2, <3>3
  <2>5. CASE MoveTo(Message.state, Message.id) /\ UNCHANGED <<heard, died>>
    <3> DEFINE d == Moved(Message.state)
               t == [id |-> Message.id, version |-> 1]
    <3>1. /\ d.keyratchet = dave.keyratchet /\ d.encryptor = dave.encryptor
          /\ d.currentState = Message.state /\ d.transitionInfo = dave.transitionInfo
          /\ [d EXCEPT !.transitionInfo = t].keyratchet = d.keyratchet
          /\ [d EXCEPT !.transitionInfo = t].encryptor = d.encryptor
          /\ [d EXCEPT !.transitionInfo = t].currentState = d.currentState
          /\ [d EXCEPT !.transitionInfo = t].transitionInfo = t
      BY <1>1 DEF Moved, Daves
    <3>2. IF Message.id # 0 THEN dave' = [d EXCEPT !.transitionInfo = t] /\ rest' = rest
          ELSE dave' = d /\ rest' = CreateEncryptor(d)
      BY <2>5 DEF MoveTo
    <3>3. Message.state # None /\ Message.op # "prepareTransition"
          /\ ~Renews(Message) /\ ~Executes(Message)
      BY <2>2, MessageTypes, NoneAssumption DEF Renews, Executes, Joins
    <3>4. Told' => Told
      BY <2>5 DEF Told, Running
    <3> HIDE DEF d
    <3>5. CASE Message.id # 0
      <4>1. Announces(Message) /\ ~Founds(Message)
        BY <2>2, <3>5 DEF Announces, Founds
      <4>2. dave'.transitionInfo = [id |-> Message.id, version |-> IF Joins(Message) THEN 1 ELSE 0]
        BY <2>2, <3>1, <3>2, <3>5
      <4>3. dave'.keyratchet = dave.keyratchet /\ dave'.currentState = Message.state
            /\ dave'.encryptor = dave.encryptor /\ rest' = <<>>
        BY <2>2, <3>1, <3>2, <3>5
      <4> QED BY <2>2, <3>3, <3>4, <4>1, <4>2, <4>3 DEF Hears
    <3>6. CASE Message.id = 0
      <4>1. Founds(Message) /\ ~Announces(Message)
        BY <2>2, <3>3, <3>6 DEF Announces, Founds
      <4>2. dave'.keyratchet = dave.keyratchet /\ dave'.currentState = Message.state
            /\ dave'.encryptor = dave.encryptor /\ dave'.transitionInfo = dave.transitionInfo
        BY <3>1, <3>2, <3>6
      <4>3. dave.encryptor = None => rest' \in Fresh
        BY <3>1, <3>2, <3>3, <3>6, Created
      <4> QED BY <3>3, <3>4, <4>1, <4>2, <4>3 DEF Hears
    <3> QED BY <3>5, <3>6
  <2> QED BY <2>1, <2>3, <2>4, <2>5
<1>11. CASE PrepareTransition
  <2>1. Message \in Messages /\ Message.op = "prepareTransition" /\ rest = <<>>
    BY <1>4, <1>11 DEF PrepareTransition
  <2>2. Message.version = 0 /\ Announces(Message) /\ ~Joins(Message)
        /\ ~Founds(Message) /\ ~Renews(Message) /\ ~Executes(Message)
    BY <2>1, MessageTypes DEF Announces, Founds, Renews, Executes, Joins
  <2>3. /\ dave'.keyratchet = dave.keyratchet /\ dave'.encryptor = dave.encryptor
        /\ dave'.currentState = dave.currentState
        /\ Message.id # 0 => dave'.transitionInfo = [id |-> Message.id, version |-> Message.version]
    BY <1>1, <1>11 DEF PrepareTransition, Daves
  <2>4. rest' = rest /\ heard' = heard /\ died' = died
    BY <1>11 DEF PrepareTransition
  <2>5. Told' => Told
    BY <2>4 DEF Told, Running
  <2> QED BY <2>1, <2>2, <2>3, <2>4, <2>5 DEF Hears
<1>12. CASE ExecuteTransition
  <2>1. Message.op = "executeTransition" /\ rest = <<>>
    BY <1>4, <1>12 DEF ExecuteTransition
  <2>2. Executes(Message) /\ ~Announces(Message) /\ ~Founds(Message) /\ ~Renews(Message)
    BY <2>1 DEF Announces, Founds, Renews, Executes, Joins
  <2>3. heard' = heard /\ died' = died
    BY <1>12 DEF ExecuteTransition
  <2>4. Told' => Told
    BY <2>3 DEF Told, Running
  <2>5. CASE dave.transitionInfo = None \/ dave.transitionInfo.id # Message.id
    <3>1. dave' = dave /\ rest' = rest
      BY <1>12, <2>5 DEF ExecuteTransition
    <3> QED BY <2>1, <2>2, <2>4, <2>5, <3>1 DEF Hears
  <2>6. CASE ~(dave.transitionInfo = None \/ dave.transitionInfo.id # Message.id) /\ dave.transitionInfo.version = 0
    <3>1. dave' = [dave EXCEPT !.transitionInfo = None,
                               !.encryptor = IF @ = None THEN None ELSE [@ EXCEPT !.passthrough = TRUE]]
          /\ rest' = rest
      BY <1>12, <2>6 DEF ExecuteTransition
    <3>2. /\ dave'.keyratchet = dave.keyratchet /\ dave'.currentState = dave.currentState
          /\ dave'.transitionInfo = None
          /\ dave'.encryptor = IF dave.encryptor = None THEN None
                ELSE [dave.encryptor EXCEPT !.passthrough = TRUE]
      BY <1>1, <3>1 DEF Daves
    <3>3. dave'.encryptor # None => dave'.encryptor.passthrough
      BY <1>1, <3>2 DEF Encryptors
    <3> QED BY <2>1, <2>2, <2>4, <2>6, <3>1, <3>2, <3>3 DEF Hears
  <2>7. CASE ~(dave.transitionInfo = None \/ dave.transitionInfo.id # Message.id) /\ dave.transitionInfo.version # 0
    <3>1. dave' = [dave EXCEPT !.transitionInfo = None] /\ rest' = CreateEncryptor(dave) \o <<"speak">>
      BY <1>12, <2>7 DEF ExecuteTransition
    <3>2. /\ dave'.keyratchet = dave.keyratchet /\ dave'.currentState = dave.currentState
          /\ dave'.transitionInfo = None /\ dave'.encryptor = dave.encryptor
      BY <1>1, <3>1 DEF Daves
    <3>3. dave.currentState # None =>
            rest' \in IF dave.encryptor = None THEN Fresh ELSE FreshFields \cap Speaking
      BY <3>1, Created
    <3> QED BY <2>2, <2>4, <2>7, <3>2, <3>3 DEF Hears
  <2> QED BY <2>5, <2>6, <2>7
<1> QED BY <1>6, <1>7, <1>8, <1>9, <1>10, <1>11, <1>12 DEF AnyMessage

\* When a message is taken, what was pending is so one message earlier.
LEMMA PendingTaken ==
  ASSUME TypeInv, FirstInv, AnyMessage, Hears(Message),
         NEW t \in Transitions, NEW i \in Nat, i >= 2, i <= Len(inbox) + 1, Pending(i, t)
  PROVE  Pending(i - 1, t)'
<1>1. /\ Message = inbox[1] /\ Len(inbox) \in Nat /\ Len(inbox) > 0 /\ Len(inbox') = Len(inbox) - 1
      /\ \A k \in 1..Len(inbox') : inbox'[k] = inbox[k + 1]
      /\ rest = <<>> /\ Message \in Messages /\ inbox \in Seq(Messages)
  <2>1. (\E op : Gets(op)) /\ inbox \in Seq(Messages)
    BY DEF AnyMessage, HandleSessionDescription, AddUsers, RemoveUsers, ProcessExternalSender, PrepareEpoch,
       ProcessProposals, ProcessCommitTransition, ProcessWelcome, PrepareTransition, ExecuteTransition,
       TypeInv, GatewayType
  <2> QED BY <2>1, Got
<1>2. t.id \in Nat /\ t.version \in 0..1 /\ t.epoch \in Nat
  BY DEF Transitions
<1>3. \A k \in 1..Len(inbox') : k < i - 1 => inbox'[k] = inbox[k + 1] /\ k + 1 \in 1..Len(inbox) /\ k + 1 < i
  BY <1>1
<1>4. CASE Knows(t) /\ \A k \in 1..Len(inbox) : k < i => Passes(inbox[k], t)
  <2>1. Passes(Message, t)
    BY <1>1, <1>4
  <2>2. dave.transitionInfo = [id |-> t.id, version |-> t.version] /\ dave.transitionInfo # None
        /\ dave.transitionInfo.id = t.id
    BY <1>2, <1>4, NoneAssumption DEF Knows
  <2>3. ~Founds(Message)
    BY <1>1, <2>2 DEF FirstInv
  <2>4. /\ dave'.transitionInfo = dave.transitionInfo /\ dave'.currentState = dave.currentState
    BY <2>1, <2>2, <2>3 DEF Hears, Passes
  <2>5. Knows(t)'
    BY <1>4, <2>4 DEF Knows
  <2>6. \A k \in 1..Len(inbox') : k < i - 1 => Passes(inbox'[k], t)
    BY <1>3, <1>4
  <2> QED BY <2>5, <2>6 DEF Pending
<1>5. CASE \E j \in 1..Len(inbox) : /\ j < i /\ AnnouncesIt(inbox[j], t)
                                    /\ \A k \in 1..Len(inbox) : j < k /\ k < i => Passes(inbox[k], t)
  <2>1. PICK j \in 1..Len(inbox) : /\ j < i /\ AnnouncesIt(inbox[j], t)
                                   /\ \A k \in 1..Len(inbox) : j < k /\ k < i => Passes(inbox[k], t)
    BY <1>5
  <2>2. CASE j = 1
    <3>1. AnnouncesIt(Message, t)
      BY <1>1, <2>1, <2>2
    <3>2. Message.id # 0
      <4>1. CASE Joins(Message)
        BY <3>1, <4>1 DEF AnnouncesIt, Announces, Joins
      <4>2. CASE Message.op = "prepareTransition"
        BY <1>1, <4>2 DEF FirstInv
      <4> QED BY <3>1, <4>1, <4>2 DEF AnnouncesIt, Announces
    <3>3. /\ dave'.transitionInfo = [id |-> Message.id, version |-> IF Joins(Message) THEN 1 ELSE 0]
          /\ dave'.currentState = IF Joins(Message) THEN Message.state ELSE dave.currentState
      BY <3>1, <3>2 DEF Hears, AnnouncesIt
    <3>4. Knows(t)'
      BY <3>1, <3>3 DEF Knows, AnnouncesIt
    <3>5. \A k \in 1..Len(inbox') : k < i - 1 => Passes(inbox'[k], t)
      <4>1. \A k \in 1..Len(inbox') : j < k + 1
        BY <1>1, <2>2
      <4> QED BY <1>3, <2>1, <4>1
    <3> QED BY <3>4, <3>5 DEF Pending
  <2>3. CASE j # 1
    <3>1. PICK l : l = j - 1
      OBVIOUS
    <3>2. l \in 1..Len(inbox') /\ l < i - 1 /\ inbox'[l] = inbox[j]
      BY <1>1, <2>1, <2>3, <3>1
    <3>3. \A k \in 1..Len(inbox') : l < k => j < k + 1
      BY <1>1, <2>1, <3>1
    <3>4. \A k \in 1..Len(inbox') : l < k /\ k < i - 1 => Passes(inbox'[k], t)
      BY <1>3, <2>1, <3>3
    <3> QED BY <2>1, <3>2, <3>4 DEF Pending
  <2> QED BY <2>2, <2>3
<1> QED BY <1>4, <1>5 DEF Pending

\* A message that is handled leaves the invariant.
LEMMA MessageSpeaks ==
  ASSUME TypeInv, OrderInv, SpeaksInv, AnyMessage, Running, UNCHANGED gatewayVars
  PROVE  SpeaksInv'
<1>1. CountInv /\ TargetInv /\ FirstInv /\ PendingInv /\ ExecutedInv
  BY DEF SpeaksInv
<1>2. /\ Message = inbox[1] /\ Len(inbox) \in Nat /\ Len(inbox) > 0 /\ Len(inbox') = Len(inbox) - 1
      /\ \A k \in 1..Len(inbox') : inbox'[k] = inbox[k + 1]
      /\ rest = <<>> /\ Message \in Messages /\ inbox \in Seq(Messages)
  <2>1. (\E op : Gets(op)) /\ inbox \in Seq(Messages)
    BY DEF AnyMessage, HandleSessionDescription, AddUsers, RemoveUsers, ProcessExternalSender, PrepareEpoch,
       ProcessProposals, ProcessCommitTransition, ProcessWelcome, PrepareTransition, ExecuteTransition,
       TypeInv, GatewayType
  <2> QED BY <2>1, Got
<1>3. \A k \in 1..Len(inbox') : k + 1 \in 1..Len(inbox)
  BY <1>2
<1>4. /\ \/ Hears(Message) /\ (Told' => Told)
         \/ /\ ~Told' /\ rest' = rest /\ dave'.encryptor = dave.encryptor
            /\ dave'.transitionInfo = dave.transitionInfo
  BY Hearing
<1>5. UNCHANGED <<members, commits, moves, proposals, transitions, executed, overlap>>
  BY DEF gatewayVars
<1>6. /\ executed \in Executeds /\ transitions \in Seq(Transitions) /\ dave \in Daves /\ commits \in Nat
      /\ executed.version \in 0..1 /\ executed.epoch \in Nat
  BY DEF TypeInv, GatewayType, SessionType, Transitions, Executeds
<1>7. CountInv' /\ TargetInv'
  BY <1>1, <1>5 DEF CountInv, TargetInv, Newest
<1>8. FirstInv'
  <2>1. ASSUME commits' = 0 \/ \E i \in 1..Len(inbox') : Founds(inbox'[i])
        PROVE  dave'.encryptor = None /\ dave'.transitionInfo = None /\ rest' = <<>>
    <3>1. commits = 0 \/ \E i \in 1..Len(inbox') : Founds(inbox[i + 1])
      BY <1>2, <1>5, <2>1
    <3>2. dave.encryptor = None /\ dave.transitionInfo = None
      BY <1>1, <1>3, <3>1 DEF FirstInv
    <3>3. ~Announces(Message)
      <4>1. CASE commits = 0
        BY <1>1, <1>2, <4>1 DEF FirstInv
      <4>2. ASSUME NEW i \in 1..Len(inbox'), Founds(inbox[i + 1])
            PROVE  ~Announces(Message)
        BY <1>1, <1>2, <1>3, <4>2 DEF FirstInv
      <4> QED BY <3>1, <4>1, <4>2
    <3>4. ~Founds(Message)
      <4>1. SUFFICES ASSUME Founds(Message) PROVE FALSE
        OBVIOUS
      <4>2. Message.state \in 1..commits /\ Message.state = 1
        BY <1>2, <1>6, <4>1 DEF OrderInv, Founds
      <4>3. PICK i \in 1..Len(inbox') : Founds(inbox[i + 1])
        BY <1>6, <3>1, <4>2
      <4>4. i + 1 \in 1..Len(inbox) /\ 1 < i + 1 /\ 1 \in 1..Len(inbox)
        BY <1>2, <1>3
      <4>5. inbox[1].state < inbox[i + 1].state
        BY <1>2, <4>1, <4>3, <4>4 DEF OrderInv, Founds
      <4>6. inbox[i + 1].state = 1
        BY <1>6, <4>3, <4>4 DEF OrderInv, Founds
      <4> QED BY <1>2, <4>2, <4>5, <4>6
    <3> QED BY <1>2, <1>4, <3>2, <3>3, <3>4 DEF Hears
  <2>2. ASSUME NEW i \in 1..Len(inbox'), NEW k \in 1..Len(inbox'), Founds(inbox'[i]), k < i
        PROVE  ~Announces(inbox'[k])
    <3>1. i + 1 \in 1..Len(inbox) /\ k + 1 \in 1..Len(inbox) /\ k + 1 < i + 1
      BY <1>2, <1>3, <2>2
    <3> QED BY <1>1, <1>2, <2>2, <3>1 DEF FirstInv
  <2>3. commits' = 0 => transitions' = <<>> /\ \A i \in 1..Len(inbox') : ~Announces(inbox'[i])
    BY <1>1, <1>2, <1>3, <1>5 DEF FirstInv
  <2>4. \A i \in 1..Len(inbox') : inbox'[i].op = "prepareTransition" => inbox'[i].id # 0
    BY <1>1, <1>2, <1>3 DEF FirstInv
  <2> QED BY <2>1, <2>2, <2>3, <2>4 DEF FirstInv
<1>9. PendingInv'
  <2>1. SUFFICES ASSUME Told', Bot \in members, transitions # <<>>
                 PROVE  Pending(Len(inbox) + 1, Newest)'
    BY <1>5 DEF PendingInv
  <2>2. Hears(Message) /\ Told
    BY <1>4, <2>1
  <2>3. PICK t : t = Newest
    OBVIOUS
  <2>4. t \in Transitions
    <3>1. Len(transitions) \in 1..Len(transitions)
      BY <1>6, <2>1, EmptySeq
    <3> QED BY <1>6, <2>3, <3>1 DEF Newest
  <2>5. Pending(Len(inbox) + 1, t)
    BY <1>1, <2>1, <2>2, <2>3 DEF PendingInv
  <2>6. PICK i : i = Len(inbox) + 1
    OBVIOUS
  <2>7. i \in Nat /\ i >= 2 /\ i <= Len(inbox) + 1 /\ i - 1 = Len(inbox') + 1
    BY <1>2, <2>6
  <2>8. Pending(i - 1, t)'
    BY <1>1, <2>2, <2>4, <2>5, <2>6, <2>7, PendingTaken
  <2>9. Newest' = t
    BY <1>5, <2>3 DEF Newest
  <2> QED BY <2>7, <2>8, <2>9
<1>10. ExecutedInv'
  <2>1. SUFFICES ASSUME Told', executed.bot, ~overlap
                 PROVE  \/ After(0)' /\ Will'
                        \/ \E i \in 1..Len(inbox') :
                             /\ After(i)'
                             /\ \/ Executes(inbox'[i]) /\ Pending(i, ExecutedAs(inbox[i].id))'
                                \/ Founds(inbox'[i]) /\ executed'.version = 1 /\ inbox'[i].state = executed'.epoch
    BY <1>5 DEF ExecutedInv
  <2>2. Hears(Message) /\ Told
    BY <1>4, <2>1
  <2>3. rest \in Over /\ rest \notin Fresh \cup FreshFields /\ rest \notin Fresh \cup Emplaces
    BY <1>2, Apart DEF Over, Partway
  <2>4. ASSUME NEW i \in 1..Len(inbox), After(i)
        PROVE  After(i - 1)'
    <3>1. \A k \in 1..Len(inbox') : k > i - 1 => k + 1 > i
      BY <1>2
    <3> QED BY <1>2, <1>3, <1>5, <2>4, <3>1 DEF After
  <2>5. CASE After(0) /\ Will
    <3>1. ~Executes(Message) /\ ~Founds(Message) /\ (Renews(Message) => executed.version = 0)
      BY <1>2, <2>5 DEF After
    <3>2. After(0)'
      <4>1. \A k \in 1..Len(inbox') : k + 1 > 0
        BY <1>2
      <4> QED BY <1>2, <1>3, <1>5, <2>5, <4>1 DEF After
    <3>3. Announces(Message) => Message.id # 0
      BY <1>1, <1>2 DEF Announces, FirstInv
    <3>4. Joins(Message) => Message.state # None
      BY <1>2, MessageTypes, NoneAssumption
    <3>5. CASE executed.version = 0
      <4>1. dave.encryptor # None => dave.encryptor.passthrough
        BY <2>5, <3>5 DEF Will
      <4>2. rest' = <<>> /\ (dave'.encryptor = dave.encryptor \/ dave'.encryptor = None)
        BY <2>2, <3>1, <3>3 DEF Hears
      <4>3. Will'
        BY <1>5, <3>5, <4>1, <4>2 DEF Will
      <4> QED BY <3>2, <4>3
    <3>6. CASE executed.version # 0
      <4>1. /\ dave.currentState # None /\ dave.keyratchet = executed.epoch /\ dave.encryptor # None
            /\ dave.encryptor.key[1] = executed.epoch /\ ~dave.encryptor.passthrough
        BY <1>2, <2>3, <2>5, <3>6 DEF Will
      <4>2. /\ dave'.currentState # None /\ dave'.encryptor = dave.encryptor /\ rest' = <<>>
            /\ dave'.keyratchet = dave.keyratchet
        BY <2>2, <3>1, <3>3, <3>4, <3>6, <4>1 DEF Hears
      <4>3. Will'
        BY <1>5, <3>6, <4>1, <4>2 DEF Will
      <4> QED BY <3>2, <4>3
    <3> QED BY <3>5, <3>6
  <2>6. ASSUME NEW i \in 1..Len(inbox), After(i), i # 1,
               \/ Executes(inbox[i]) /\ Pending(i, ExecutedAs(inbox[i].id))
               \/ Founds(inbox[i]) /\ executed.version = 1 /\ inbox[i].state = executed.epoch
        PROVE  \E l \in 1..Len(inbox') :
                   /\ After(l)'
                   /\ \/ Executes(inbox'[l]) /\ Pending(l, ExecutedAs(inbox[l].id))'
                      \/ Founds(inbox'[l]) /\ executed'.version = 1 /\ inbox'[l].state = executed'.epoch
    <3>1. PICK l : l = i - 1
      OBVIOUS
    <3>2. l \in 1..Len(inbox') /\ inbox'[l] = inbox[i] /\ i \in Nat /\ i >= 2 /\ i <= Len(inbox) + 1
      BY <1>2, <2>6, <3>1
    <3>3. After(l)'
      BY <2>4, <2>6, <3>1
    <3>4. ASSUME Executes(inbox[i]), Pending(i, ExecutedAs(inbox[i].id))
          PROVE  Pending(l, ExecutedAs(inbox[l].id))'
      <4>1. inbox[i] \in Messages /\ inbox[i].id \in Nat
        BY <1>2, <3>4 DEF Messages, Executes
      <4>2. PICK t : t = ExecutedAs(inbox[i].id)
        OBVIOUS
      <4>3. t \in Transitions
        BY <1>6, <4>1, <4>2 DEF Transitions, ExecutedAs
      <4>4. Pending(i - 1, t)'
        BY <1>1, <2>2, <3>2, <3>4, <4>2, <4>3, PendingTaken
      <4>5. ExecutedAs(inbox[l].id)' = t
        BY <1>5, <3>2, <4>2 DEF ExecutedAs
      <4> QED BY <3>1, <4>4, <4>5
    <3> QED BY <1>5, <2>6, <3>2, <3>3, <3>4
  <2>7. ASSUME After(1)
        PROVE  After(0)'
    <3>1. 1 \in 1..Len(inbox) /\ 1 - 1 = 0
      BY <1>2
    <3> QED BY <2>4, <2>7, <3>1
  <2>8. ASSUME Executes(Message), Pending(1, ExecutedAs(Message.id))
        PROVE  Will'
    <3>1. Knows(ExecutedAs(Message.id))
      <4>1. \A j \in 1..Len(inbox) : ~(j < 1)
        OBVIOUS
      <4> QED BY <2>8, <4>1 DEF Pending
    <3>2. /\ dave.transitionInfo = [id |-> Message.id, version |-> executed.version]
          /\ executed.version = 1 => dave.currentState = executed.epoch
      BY <3>1 DEF Knows, ExecutedAs
    <3>3. Message.id \in Nat
      BY <1>2, <2>8 DEF Messages, Executes
    <3>4. dave.transitionInfo # None /\ dave.transitionInfo.id = Message.id
          /\ dave.transitionInfo.version = executed.version
      BY <1>6, <3>2, <3>3, NoneAssumption
    <3>5. CASE executed.version = 0
      <4>1. rest' = <<>> /\ (dave'.encryptor # None => dave'.encryptor.passthrough)
        BY <2>2, <2>8, <3>4, <3>5 DEF Hears
      <4> QED BY <1>5, <3>5, <4>1 DEF Will
    <3>6. CASE executed.version = 1
      <4>1. dave.currentState = executed.epoch /\ dave.currentState # None
        BY <1>6, <3>2, <3>6, NoneAssumption
      <4>2. /\ dave'.currentState = dave.currentState /\ dave'.encryptor = dave.encryptor
            /\ rest' \in IF dave.encryptor = None THEN Fresh ELSE FreshFields \cap Speaking
        BY <2>2, <2>8, <3>4, <3>6, <4>1 DEF Hears
      <4>3. rest' \in Fresh \cup FreshFields /\ rest' \notin Over
            /\ (rest' \notin Fresh => dave'.encryptor # None /\ rest' \in Speaking)
        BY <4>2, Apart
      <4>4. rest' # <<>>
        BY <4>3 DEF Over
      <4> QED BY <1>5, <3>6, <4>1, <4>2, <4>3, <4>4 DEF Will
    <3> QED BY <1>6, <3>5, <3>6
  <2>9. ASSUME Founds(Message), executed.version = 1, Message.state = executed.epoch
        PROVE  Will'
    <3>1. dave.encryptor = None
      BY <1>1, <1>2, <2>9 DEF FirstInv
    <3>2. dave'.currentState = executed.epoch /\ rest' \in Fresh
      BY <2>2, <2>9, <3>1 DEF Hears
    <3>3. dave'.currentState # None
      BY <1>6, <3>2, NoneAssumption
    <3> QED BY <1>5, <2>9, <3>2, <3>3 DEF Will
  <2> QED BY <1>1, <1>2, <2>1, <2>2, <2>5, <2>6, <2>7, <2>8, <2>9 DEF ExecutedInv
<1> QED BY <1>7, <1>8, <1>9, <1>10 DEF SpeaksInv

-----------------------------------------------------------------------------
(* What the encryptor does *)

\* Speaking goes on to the end.
LEMMA SpeakingSteps ==
  ASSUME rest \in Speaking
  PROVE  rest \notin Over => Tail(rest) \in Speaking /\ Tail(rest) # <<>>
<1>1. Tail(<<"keyratchet", "nonce", "previousNonce", "generation", "key", "speak">>) =
        <<"nonce", "previousNonce", "generation", "key", "speak">>
  OBVIOUS
<1>2. Tail(<<"nonce", "previousNonce", "generation", "key", "speak">>) =
        <<"previousNonce", "generation", "key", "speak">>
  OBVIOUS
<1>3. Tail(<<"previousNonce", "generation", "key", "speak">>) = <<"generation", "key", "speak">>
  OBVIOUS
<1>4. Tail(<<"generation", "key", "speak">>) = <<"key", "speak">>
  OBVIOUS
<1>5. Tail(<<"key", "speak">>) = <<"speak">>
  OBVIOUS
<1>6. /\ <<"nonce", "previousNonce", "generation", "key", "speak">> # <<>>
      /\ <<"previousNonce", "generation", "key", "speak">> # <<>>
      /\ <<"generation", "key", "speak">> # <<>>
      /\ <<"key", "speak">> # <<>> /\ <<"speak">> # <<>>
  OBVIOUS
<1> QED BY <1>1, <1>2, <1>3, <1>4, <1>5, <1>6 DEF Speaking, Over

\* A step of the bot that handles no message.
LEMMA SameSpeaks ==
  ASSUME SpeaksInv, UNCHANGED <<gatewayVars, inbox, heard>>, Told' => Told,
         dave'.transitionInfo = dave.transitionInfo, dave'.currentState = dave.currentState,
         Will => Will',
         dave.encryptor = None /\ rest = <<>> => dave'.encryptor = None /\ rest' = <<>>
  PROVE  SpeaksInv'
<1>1. CountInv /\ TargetInv /\ FirstInv /\ PendingInv /\ ExecutedInv
  BY DEF SpeaksInv
<1>2. UNCHANGED <<members, commits, moves, proposals, transitions, executed, overlap>>
  BY DEF gatewayVars
<1>3. CountInv' /\ TargetInv'
  BY <1>1, <1>2 DEF CountInv, TargetInv, Newest
<1>4. FirstInv'
  BY <1>1, <1>2 DEF FirstInv
<1>5. ASSUME NEW i, NEW t, Pending(i, t)
      PROVE  Pending(i, t)'
  BY <1>5 DEF Pending, Knows
<1>6. PendingInv'
  <2>1. PICK t : t = Newest
    OBVIOUS
  <2>2. PICK i : i = Len(inbox) + 1
    OBVIOUS
  <2>3. Newest' = t /\ Len(inbox)' + 1 = i
    BY <1>2, <2>1, <2>2 DEF Newest
  <2>4. SUFFICES ASSUME Told', Bot \in members, transitions # <<>>
                 PROVE  Pending(Len(inbox) + 1, Newest)'
    BY <1>2 DEF PendingInv
  <2>5. Pending(i, t)
    BY <1>1, <2>1, <2>2, <2>4 DEF PendingInv
  <2>6. Pending(i, t)'
    BY <1>5, <2>5
  <2> QED BY <2>3, <2>6
<1>7. ExecutedInv'
  <2>1. SUFFICES ASSUME Told', executed.bot, ~overlap
                 PROVE  \/ After(0)' /\ Will'
                        \/ \E i \in 1..Len(inbox') :
                             /\ After(i)'
                             /\ \/ Executes(inbox'[i]) /\ Pending(i, ExecutedAs(inbox[i].id))'
                                \/ Founds(inbox'[i]) /\ executed'.version = 1 /\ inbox'[i].state = executed'.epoch
    BY <1>2 DEF ExecutedInv
  <2>2. ASSUME NEW i, After(i)
        PROVE  After(i)'
    BY <1>2, <2>2 DEF After
  <2>3. ASSUME NEW i \in 1..Len(inbox), Pending(i, ExecutedAs(inbox[i].id))
        PROVE  Pending(i, ExecutedAs(inbox[i].id))'
    <3>1. PICK t : t = ExecutedAs(inbox[i].id)
      OBVIOUS
    <3>2. ExecutedAs(inbox[i].id)' = t
      BY <1>2, <3>1 DEF ExecutedAs
    <3>3. Pending(i, t)'
      BY <1>5, <2>3, <3>1
    <3> QED BY <3>2, <3>3
  <2> QED BY <1>1, <1>2, <2>1, <2>2, <2>3 DEF ExecutedInv
<1> QED BY <1>3, <1>4, <1>6, <1>7 DEF SpeaksInv

\* A step of createEncryptor goes on to what was executed.
LEMMA EncryptorSpeaks ==
  ASSUME TypeInv, RestInv, SpeaksInv, EncryptorStep, UNCHANGED gatewayVars
  PROVE  SpeaksInv'
<1>1. rest # <<>> /\ rest \in Stages /\ rest' = Tail(rest) /\ UNCHANGED <<inbox, heard, died>>
  BY DEF EncryptorStep, TypeInv, SessionType
<1>2. dave.encryptor \in Encryptors \cup {None} /\ executed \in Executeds
  BY DEF TypeInv, SessionType, GatewayType, Daves
<1>3. ASSUME Will
      PROVE  Will'
  <2>1. executed.version # 0 /\ UNCHANGED executed
    BY <1>1, <1>3 DEF Will, gatewayVars
  <2>2. dave.currentState # None /\ dave.currentState = executed.epoch
    BY <1>1, <1>3, <2>1 DEF Will
  <2>3. dave'.currentState = dave.currentState
    BY EncryptorSteps
  <2>4. CASE rest \in Fresh
    <3>1. dave'.keyratchet = dave.currentState /\ rest' \in Emplaces
      BY <2>4, EncryptorSteps
    <3> QED BY <2>1, <2>2, <2>3, <3>1 DEF Will
  <2>5. CASE rest \in FreshFields
    <3>1. rest \notin Fresh /\ rest \notin Emplaces /\ rest \notin Over
      BY <2>5, Apart DEF Partway
    <3>2. dave'.keyratchet = dave.currentState /\ dave'.encryptor = dave.encryptor /\ rest' \in Nonces
      BY <2>5, <3>1, EncryptorSteps
    <3>3. dave.encryptor # None /\ rest \in Speaking
      BY <1>1, <1>3, <2>1, <3>1 DEF Will
    <3>4. rest' \in Speaking
      BY <1>1, <3>1, <3>3, SpeakingSteps
    <3>5. rest' \notin Over /\ rest' # <<>>
      BY <3>2, Apart DEF Partway, Fields, Over
    <3> QED BY <2>1, <2>2, <2>3, <3>2, <3>3, <3>4, <3>5 DEF Will
  <2>6. CASE rest \in Emplaces
    <3>1. rest \notin Fresh \cup FreshFields
      BY <2>6, Apart DEF Partway
    <3>2. dave'.keyratchet = executed.epoch
      BY <1>3, <2>1, <3>1, EncryptorSteps DEF Will
    <3>3. /\ dave'.encryptor = [nonce |-> 0, previousNonce |-> 0, generation |-> 0,
                                key |-> <<dave.currentState, 0>>, passthrough |-> FALSE]
          /\ rest' \in Over
      BY <2>6, EncryptorSteps
    <3>4. dave'.encryptor # None
      <4>1. dave' \in Daves /\ dave.currentState \in Nat
        BY <1>2, <2>2, EncryptorSteps DEF Executeds
      <4>2. <<dave.currentState, 0>> \in (Nat \union {None}) \X Nat
        BY <4>1
      <4>3. dave'.encryptor \in [nonce : Nat, previousNonce : Nat, generation : Nat,
                                 key : (Nat \union {None}) \X Nat, passthrough : BOOLEAN]
        BY <3>3, <4>2
      <4> QED BY <4>3, NoneAssumption
    <3>5. dave'.encryptor.key[1] = executed.epoch /\ ~dave'.encryptor.passthrough
      BY <2>2, <3>3
    <3>6. rest' # <<>> => rest' \in Speaking
      BY <3>3 DEF Over, Speaking
    <3> QED BY <2>1, <2>2, <2>3, <3>2, <3>4, <3>5, <3>6 DEF Will
  <2>7. CASE rest \in Fields \cup Over
    <3>1. rest \notin Fresh \cup FreshFields /\ rest \notin Fresh \cup Emplaces
      <4>1. rest \in Partway \cup Over
        BY <2>7 DEF Partway
      <4> QED BY <2>7, <4>1, Apart DEF Partway
    <3>2. /\ dave.keyratchet = executed.epoch /\ dave.encryptor # None /\ rest \in Speaking
          /\ rest \in Over => dave.encryptor.key[1] = executed.epoch
      BY <1>1, <1>3, <2>1, <3>1 DEF Will
    <3>3. dave'.keyratchet = executed.epoch
      BY <3>1, <3>2, EncryptorSteps
    <3>4. dave.encryptor \in Encryptors
      BY <1>2, <3>2
    <3>5. \A e \in Encryptors : e # None
      <4>1. \A e \in Encryptors : e \in [nonce : Nat, previousNonce : Nat, generation : Nat,
                                         key : (Nat \union {None}) \X Nat, passthrough : BOOLEAN]
        BY DEF Encryptors, Keys, Epochs
      <4> QED BY <4>1, NoneAssumption
    <3>6. CASE rest \in Over
      <4>1. /\ dave'.encryptor = [dave.encryptor EXCEPT !.passthrough = FALSE]
            /\ rest' = <<>>
        BY <3>2, <3>6, EncryptorSteps
      <4>2. dave'.encryptor \in Encryptors /\ dave'.encryptor.key = dave.encryptor.key /\ ~dave'.encryptor.passthrough
        BY <3>4, <4>1 DEF Encryptors
      <4> QED BY <2>1, <2>2, <2>3, <3>2, <3>3, <3>5, <3>6, <4>1, <4>2 DEF Will
    <3>7. CASE rest \in LastFields
      <4>1. rest \notin Over
        BY <3>7, Apart DEF Partway, Fields
      <4>2. dave'.encryptor = [dave.encryptor EXCEPT !.key = <<dave.currentState, 0>>]
        BY <3>7, EncryptorSteps
      <4>3. dave'.encryptor.key[1] = executed.epoch
        BY <2>2, <3>4, <4>2 DEF Encryptors
      <4>4. dave'.encryptor \in Encryptors
        <5>1. dave.currentState \in Epochs
          BY DEF TypeInv, SessionType, Daves
        <5> QED BY <3>4, <4>2, <5>1 DEF Encryptors, Keys
      <4>5. rest' \in Speaking
        BY <1>1, <3>2, <4>1, SpeakingSteps
      <4>6. rest' # <<>>
        BY <1>1, <3>2, <4>1, SpeakingSteps
      <4> QED BY <2>1, <2>2, <2>3, <3>3, <3>5, <4>3, <4>4, <4>5, <4>6 DEF Will
    <3>8. CASE rest \in Nonces \cup PreviousNonces \cup Generations
      <4>1. rest \notin Over
        BY <3>8, Apart DEF Partway, Fields
      <4>2. dave'.encryptor \in {[dave.encryptor EXCEPT !.nonce = 0], [dave.encryptor EXCEPT !.previousNonce = 0],
                                 [dave.encryptor EXCEPT !.generation = 0]}
            /\ rest' \in Fields
        BY <3>8, EncryptorSteps DEF Fields
      <4>3. dave'.encryptor \in Encryptors
        BY <3>4, <4>2, DaveAssumption DEF Encryptors
      <4>4. rest' \in Speaking
        BY <1>1, <3>2, <4>1, SpeakingSteps
      <4>5. rest' \notin Over /\ rest' # <<>>
        BY <4>2, Apart DEF Partway, Over
      <4> QED BY <2>1, <2>2, <2>3, <3>3, <3>5, <4>3, <4>4, <4>5 DEF Will
    <3> QED BY <2>7, <3>6, <3>7, <3>8 DEF Fields
  <2> QED BY <1>1, <2>4, <2>5, <2>6, <2>7 DEF Stages, Partway
<1>4. dave'.transitionInfo = dave.transitionInfo /\ dave'.currentState = dave.currentState
  BY EncryptorSteps
<1>5. Told' => Told
  BY <1>1 DEF Told, Running
<1> QED BY <1>1, <1>3, <1>4, <1>5, SameSpeaks

\* And the frames of the UDP thread change neither the epoch nor the mode.
LEMMA FrameKeepsMode ==
  ASSUME TypeInv, FrameStep, dave.encryptor # None
  PROVE  /\ dave'.encryptor.passthrough = dave.encryptor.passthrough
         /\ dave'.encryptor.key = dave.encryptor.key \/ dave'.encryptor.key[1] = dave.keyratchet
<1>1. dave \in Daves /\ dave.encryptor \in Encryptors
  BY DEF TypeInv, SessionType, Daves
<1>2. CASE dave' = dave
  BY <1>2
<1>3. CASE Turn
  <2> DEFINE e == dave.encryptor
             turns == e.nonce \div GenSize # e.previousNonce
             g == e.generation + 1
             f == [e EXCEPT !.generation = IF turns THEN g ELSE @,
                            !.key = IF turns THEN <<dave.keyratchet, g>> ELSE @,
                            !.previousNonce = e.nonce \div GenSize]
  <2>1. dave'.encryptor = f
    BY <1>1, <1>3 DEF Turn, Daves
  <2> HIDE DEF turns, g
  <2>2. f.passthrough = e.passthrough /\ f.key = IF turns THEN <<dave.keyratchet, g>> ELSE e.key
    BY <1>1 DEF Encryptors
  <2> QED BY <2>1, <2>2
<1>4. CASE Number
  <2> DEFINE n == (dave.encryptor.nonce + 1) % NonceSize
  <2>1. dave' = [dave EXCEPT !.encryptor.nonce = n]
    BY <1>4 DEF Number
  <2> HIDE DEF n
  <2> QED BY <1>1, <2>1 DEF Daves, Encryptors
<1> QED BY <1>2, <1>3, <1>4 DEF FrameStep, BeginFrame, Seal, Vanish

\* A step of a frame (a nonce drawn, a key fetched, a packet sealed) leaves true of every
\* epoch what the bot speaks with.
LEMMA FrameSpeaks ==
  ASSUME TypeInv, SpentInv, SpeaksInv, FrameStep
  PROVE  SpeaksInv'
<1>1. /\ rest' = rest
      /\ dave'.currentState = dave.currentState /\ dave'.transitionInfo = dave.transitionInfo
      /\ dave'.keyratchet = dave.keyratchet
      /\ dave.encryptor = None => dave' = dave
      /\ dave.encryptor # None => dave'.encryptor \in Encryptors
  BY FrameSteps
<1>2. UNCHANGED <<gatewayVars, inbox, heard>> /\ Running
  BY DEF FrameStep
<1>3. \A e \in Encryptors : e # None
  <2>1. \A e \in Encryptors : e \in [nonce : Nat, previousNonce : Nat, generation : Nat,
                                     key : (Nat \union {None}) \X Nat, passthrough : BOOLEAN]
    BY DEF Encryptors, Keys, Epochs
  <2> QED BY <2>1, NoneAssumption
<1>4. ASSUME Will
      PROVE  Will'
  <2>1. UNCHANGED executed
    BY <1>2 DEF gatewayVars
  <2>2. CASE dave.encryptor = None
    <3>1. dave' = dave
      BY <1>1, <2>2
    <3> QED BY <1>1, <1>4, <2>1, <3>1 DEF Will
  <2>3. CASE dave.encryptor # None
    <3>1. dave'.encryptor # None
      BY <1>1, <1>3, <2>3
    <3>2. /\ dave'.encryptor.passthrough = dave.encryptor.passthrough
          /\ dave'.encryptor.key = dave.encryptor.key \/ dave'.encryptor.key[1] = dave.keyratchet
      BY <2>3, FrameKeepsMode
    <3>3. CASE executed.version = 0
      BY <1>1, <1>4, <2>1, <2>3, <3>2, <3>3 DEF Will
    <3>4. CASE executed.version # 0
      <4>1. rest \in Over => rest \notin Fresh \cup FreshFields /\ rest \notin Fresh \cup Emplaces
        BY Apart DEF Partway
      <4>2. rest \in Over => dave'.encryptor.key[1] = executed.epoch
        BY <1>4, <2>3, <3>2, <3>4, <4>1 DEF Will
      <4> QED BY <1>1, <1>4, <2>1, <3>1, <3>2, <3>4, <4>2 DEF Will
    <3> QED BY <3>3, <3>4
  <2> QED BY <2>2, <2>3
<1>5. Told' => Told
  BY <1>2 DEF Told
<1> QED BY <1>1, <1>2, <1>4, <1>5, SameSpeaks

-----------------------------------------------------------------------------
(* What the gateway announces and executes *)

\* Numbers of transitions: those of commits, and those of ways back.
Ids == 1..commits \cup (MaxCommits + 1)..(MaxCommits + moves)

\* A message that is sent comes behind the group, or is the group's.
LEMMA FirstKept ==
  ASSUME inbox \in Seq(Messages), NEW m \in Messages, inbox' = inbox \/ inbox' = Append(inbox, m),
         dave' = dave, rest' = rest, FirstInv,
         commits' = 0 => commits = 0 /\ transitions' = <<>>,
         inbox' = Append(inbox, m) =>
           /\ Announces(m) => commits' # 0 /\ m.id # 0
           /\ Founds(m) => commits = 0
  PROVE  FirstInv'
<1>1. /\ Len(inbox) \in Nat /\ Len(inbox') \in Nat /\ Len(inbox) <= Len(inbox')
      /\ \A k \in 1..Len(inbox) : k \in 1..Len(inbox') /\ inbox'[k] = inbox[k]
      /\ \A k \in 1..Len(inbox') : \/ k \in 1..Len(inbox)
                                   \/ inbox' = Append(inbox, m) /\ inbox'[k] = m /\ k = Len(inbox')
  BY AppendProperties
<1>2. commits' = 0 => transitions' = <<>> /\ \A i \in 1..Len(inbox') : ~Announces(inbox'[i])
  BY <1>1 DEF FirstInv
<1>3. ASSUME NEW i \in 1..Len(inbox'), NEW k \in 1..Len(inbox'), Founds(inbox'[i]), k < i
      PROVE  ~Announces(inbox'[k])
  <2>1. k \in 1..Len(inbox) /\ inbox'[k] = inbox[k]
    BY <1>1, <1>3
  <2> QED BY <1>1, <1>3, <2>1 DEF FirstInv
<1>4. \A i \in 1..Len(inbox') : inbox'[i].op = "prepareTransition" => inbox'[i].id # 0
  BY <1>1 DEF FirstInv, Announces
<1>5. commits' = 0 \/ (\E i \in 1..Len(inbox') : Founds(inbox'[i])) =>
        dave'.encryptor = None /\ dave'.transitionInfo = None /\ rest' = <<>>
  BY <1>1 DEF FirstInv
<1> QED BY <1>2, <1>3, <1>4, <1>5 DEF FirstInv

\* A transition that is announced is the newest, and one of its own.
LEMMA CountTransit ==
  ASSUME transitions \in Seq(Transitions), NEW t \in Transitions, Transit(t), CountInv,
         commits \in Nat, moves \in Nat, commits' \in Nat, moves' \in Nat,
         commits <= commits', moves <= moves', commits' <= MaxCommits,
         t.id \in Ids' \ Ids
  PROVE  CountInv' /\ transitions' # <<>> /\ Newest' = t
<1>1. transitions' = Append(transitions, t) /\ overlap' = (overlap \/ transitions # <<>>)
  BY DEF Transit
<1>2. PICK n \in Nat : n = Len(transitions)
  OBVIOUS
<1>3. /\ Len(transitions') = n + 1 /\ transitions'[n + 1] = t /\ transitions' \in Seq(Transitions)
      /\ \A i \in 1..n : transitions'[i] = transitions[i]
  BY <1>1, <1>2, AppendProperties
<1>4. \A i \in 1..(n + 1) : i \in 1..n \/ i = n + 1
  BY <1>2
<1>5. Ids \subseteq Ids'
  BY SMTT(30), DaveAssumption DEF Ids
<1>6. \A i \in 1..n : transitions'[i].id \in Ids
  BY <1>2, <1>3 DEF CountInv, Ids
<1>7. \A i \in 1..(n + 1) : transitions'[i].id \in Ids'
  BY <1>3, <1>4, <1>5, <1>6
<1>8. ASSUME NEW i \in 1..(n + 1), NEW j \in 1..(n + 1), transitions'[i].id = transitions'[j].id
      PROVE  i = j
  <2>1. CASE i \in 1..n /\ j \in 1..n
    BY <1>2, <1>3, <1>8, <2>1 DEF CountInv
  <2>2. CASE ~(i \in 1..n /\ j \in 1..n)
    BY <1>3, <1>4, <1>6, <1>8, <2>2
  <2> QED BY <2>1, <2>2
<1>9. Len(transitions') > 1 => overlap'
  <2>1. CASE transitions = <<>>
    BY <1>2, <1>3, <2>1
  <2>2. CASE transitions # <<>>
    BY <1>1, <2>2
  <2> QED BY <2>1, <2>2
<1>10. transitions' # <<>> /\ Newest' = t
  BY <1>2, <1>3 DEF Newest
<1> QED BY <1>3, <1>7, <1>8, <1>9, <1>10 DEF CountInv, Ids

\* Of those that were executed the others are left.
LEMMA CountTail ==
  ASSUME transitions \in Seq(Transitions), transitions # <<>>, transitions' = Tail(transitions),
         overlap' = (overlap /\ transitions' # <<>>), CountInv, UNCHANGED <<commits, moves>>
  PROVE  /\ CountInv'
         /\ transitions' # <<>> => /\ Newest' = Newest /\ Newest.id # Head(transitions).id
                                   /\ overlap
         /\ transitions' = <<>> => Newest = Head(transitions)
<1>1. PICK n \in Nat : n = Len(transitions)
  OBVIOUS
<1>2. /\ n > 0 /\ Len(transitions') = n - 1 /\ Head(transitions) = transitions[1]
      /\ \A i \in 1..(n - 1) : transitions'[i] = transitions[i + 1]
      /\ transitions' \in Seq(Transitions)
  BY <1>1, HeadTailProperties, EmptySeq
<1>3. \A i \in 1..(n - 1) : i + 1 \in 1..n
  BY <1>1
<1>4. transitions' = <<>> <=> n = 1
  <2>1. transitions' = <<>> <=> Len(transitions') = 0
    BY <1>2, EmptySeq
  <2>2. n - 1 = 0 <=> n = 1
    BY <1>2
  <2> QED BY <1>2, <2>1, <2>2
<1>5. transitions' # <<>> => n > 1 /\ overlap
  BY <1>1, <1>2, <1>4 DEF CountInv
<1>6. CountInv'
  <2>1. commits' <= MaxCommits
    BY DEF CountInv
  <2>2. \A i \in 1..(n - 1) : transitions'[i].id \in Ids
    BY <1>1, <1>2, <1>3 DEF CountInv, Ids
  <2>3. \A i, j \in 1..(n - 1) : transitions'[i].id = transitions'[j].id => i = j
    <3>1. ASSUME NEW i \in 1..(n - 1), NEW j \in 1..(n - 1), transitions'[i].id = transitions'[j].id
          PROVE  i = j
      <4>1. i + 1 = j + 1
        BY <1>1, <1>2, <1>3, <3>1 DEF CountInv
      <4> QED BY <4>1
    <3> QED BY <3>1
  <2>4. Len(transitions') > 1 => overlap'
    <3>1. Len(transitions') > 1 => transitions' # <<>>
      BY <1>1, <1>2, <1>4
    <3> QED BY <1>5, <3>1
  <2>5. Ids' = Ids
    BY DEF Ids
  <2> QED BY <1>2, <2>1, <2>2, <2>3, <2>4, <2>5 DEF CountInv, Ids
<1>7. CASE n = 1
  BY <1>1, <1>2, <1>4, <1>6, <1>7 DEF Newest
<1>8. CASE n # 1
  <2>1. n - 1 \in 1..(n - 1) /\ n - 1 + 1 = n
    BY <1>1, <1>2, <1>8
  <2>2. Newest' = transitions[n] /\ Newest = transitions[n]
    BY <1>1, <1>2, <2>1 DEF Newest
  <2>3. n \in 1..n /\ 1 \in 1..n
    BY <1>1, <1>2
  <2>4. transitions[n].id # transitions[1].id
    BY <1>1, <1>8, <2>3 DEF CountInv
  <2> QED BY <1>2, <1>4, <1>5, <1>6, <1>8, <2>2, <2>4
<1> QED BY <1>6, <1>7, <1>8

\* A message that is about no transition.
LEMMA SendSpeaks ==
  ASSUME GatewayType, SpeaksInv, NEW m \in Messages, inbox' = inbox \/ inbox' = Append(inbox, m),
         UNCHANGED <<dave, rest, died, members, commits, executed, transitions, overlap, heard>>,
         moves' \in Nat, moves <= moves', TargetInv',
         ~Announces(m), ~Founds(m), ~Renews(m), ~Executes(m)
  PROVE  SpeaksInv'
<1>1. CountInv /\ TargetInv /\ FirstInv /\ PendingInv /\ ExecutedInv
  BY DEF SpeaksInv
<1>2. transitions \in Seq(Transitions) /\ moves \in Nat /\ inbox \in Seq(Messages)
  BY DEF GatewayType, Transitions
<1>3. CountInv'
  <2>1. (MaxCommits + 1)..(MaxCommits + moves) \subseteq (MaxCommits + 1)..(MaxCommits + moves')
    BY <1>2, DaveAssumption
  <2> QED BY <1>1, <2>1 DEF CountInv
<1>4. FirstInv'
  <2>1. commits' = 0 => commits = 0 /\ transitions' = <<>>
    BY <1>1 DEF FirstInv
  <2> QED BY <1>1, <1>2, <2>1, FirstKept
<1>5. PendingInv'
  <2>1. SUFFICES ASSUME Told', Bot \in members, transitions # <<>>
                 PROVE  Pending(Len(inbox) + 1, Newest)'
    BY DEF PendingInv
  <2>2. PICK t : t = Newest
    OBVIOUS
  <2>3. Newest' = t
    BY <2>2 DEF Newest
  <2>4. Told
    BY <2>1 DEF Told, Running
  <2>5. Pending(Len(inbox) + 1, t)
    BY <1>1, <2>1, <2>2, <2>4 DEF PendingInv
  <2>6. CASE inbox' = inbox
    <3>1. Pending(Len(inbox) + 1, t)'
      BY <2>5, <2>6 DEF Pending, Knows
    <3> QED BY <2>3, <3>1
  <2>7. CASE inbox' = Append(inbox, m)
    <3>1. Passes(m, t)
      BY DEF Passes
    <3>2. Pending(Len(inbox) + 1, t)'
      BY <1>2, <2>5, <2>7, <3>1, PendingPasses
    <3> QED BY <2>3, <3>2
  <2> QED BY <2>6, <2>7
<1>6. ExecutedInv'
  <2>1. Told' => Told
    BY DEF Told, Running
  <2> QED BY <1>1, <1>2, <2>1, ExecutedKept
<1> QED BY <1>3, <1>4, <1>5, <1>6 DEF SpeaksInv

\* The creation of the group, or another commit.
LEMMA CommitSpeaks ==
  ASSUME TypeInv, OrderInv, SpeaksInv, UNCHANGED <<dave, rest, died>>,
         NEW u \in Everybody, NEW inline \in BOOLEAN, Commit(u, inline)
  PROVE  SpeaksInv'
<1> DEFINE n == commits + 1
           id == IF executed.created THEN n ELSE 0
           joined == (members \union Adds(proposals) \union (IF epoch = 0 THEN {Bot} ELSE {}))
                       \ Removes(proposals)
           welcome == [op |-> "welcome", id |-> id, state |-> n, roster |-> joined, package |-> invited]
           commit == [op |-> "commit", id |-> id, base |-> epoch, state |-> n, of |-> proposals,
                      inline |-> inline]
           t == [id |-> id, version |-> 1, epoch |-> n]
<1>1. CountInv /\ TargetInv /\ FirstInv /\ PendingInv /\ ExecutedInv /\ GatewayType
  BY DEF SpeaksInv, TypeInv
<1>2. /\ executed \in Executeds /\ transitions \in Seq(Transitions) /\ commits \in Nat /\ moves \in Nat
      /\ inbox \in Seq(Messages) /\ (executed.created <=> commits > 0) /\ MaxCommits \in Nat
  BY <1>1, DaveAssumption DEF GatewayType, Transitions, OrderInv
<1>3. n \in Nat /\ id \in Nat /\ (executed.created => id = n /\ n # 0) /\ (~executed.created => id = 0 /\ n = 1)
  BY <1>2
<1>4. /\ commits < MaxCommits /\ commits' = n /\ proposals # {} /\ proposals' = {} /\ moves' = moves
      /\ heard' = [heard EXCEPT !.offer = None]
      /\ IF id = 0
         THEN /\ executed' = [executed EXCEPT !.version = 1, !.epoch = n, !.created = TRUE, !.bot = TRUE]
              /\ UNCHANGED <<transitions, overlap>>
         ELSE Transit(t) /\ UNCHANGED executed
  BY DEF Commit
<1>5. PICK m \in {welcome, commit} : inbox' = Append(inbox, m)
  BY DEF Commit, Send
<1>6. m \in Messages /\ Joins(m) /\ m.state = n /\ m.id = id
      /\ m.op # "prepareTransition" /\ m.op # "prepareEpoch" /\ m.op # "executeTransition"
  <2>1. joined \subseteq Everybody /\ proposals \subseteq Proposals /\ epoch \in Nat /\ invited \in Nat
    BY <1>1, AddsType DEF Everybody, GatewayType
  <2> HIDE DEF n, id, joined
  <2> QED BY <1>3, <1>5, <2>1 DEF Messages, Joins
<1> HIDE DEF welcome, commit
<1>7. ~Renews(m) /\ ~Executes(m)
  BY <1>6 DEF Renews, Executes
<1>8. executed.target # 0
  BY <1>1, <1>4 DEF TargetInv
<1>9. Told' = Told
  <2>1. heard'.invalid = heard.invalid
    BY <1>1, <1>4 DEF GatewayType
  <2> QED BY <2>1 DEF Told, Running
<1>10. CASE ~executed.created
  <2>1. id = 0 /\ n = 1 /\ commits = 0
    BY <1>2, <1>3, <1>10
  <2>2. Founds(m) /\ ~Announces(m)
    BY <1>6, <2>1 DEF Founds, Announces
  <2>3. executed' = [executed EXCEPT !.version = 1, !.epoch = n, !.created = TRUE, !.bot = TRUE]
        /\ UNCHANGED <<transitions, overlap>>
    BY <1>4, <2>1
  <2>4. executed'.version = 1 /\ executed'.epoch = n /\ executed'.target = executed.target
    <3> HIDE DEF n
    <3> QED BY <1>2, <2>3 DEF Executeds
  <2>5. transitions = <<>>
    BY <1>1, <2>1 DEF FirstInv
  <2>6. CountInv'
    <3>1. Len(transitions') = 0 /\ 1..0 = {}
      BY <2>3, <2>5
    <3>2. commits' <= MaxCommits
      BY <1>2, <1>4
    <3> QED BY <3>1, <3>2 DEF CountInv
  <2>7. TargetInv'
    BY <1>8, <2>4 DEF TargetInv
  <2>8. FirstInv'
    <3>1. commits' # 0
      BY <1>2, <1>4
    <3> QED BY <1>1, <1>2, <1>5, <1>6, <2>1, <2>2, <3>1, FirstKept
  <2>9. PendingInv'
    BY <2>3, <2>5 DEF PendingInv
  <2>10. ExecutedInv'
    <3>1. /\ Len(inbox') \in 1..Len(inbox') /\ inbox'[Len(inbox')] = m
          /\ \A k \in 1..Len(inbox') : ~(k > Len(inbox'))
      BY <1>2, <1>5, <1>6, AppendProperties
    <3>2. PICK i : i = Len(inbox')
      OBVIOUS
    <3>3. After(i)'
      BY <3>1, <3>2 DEF After
    <3>4. i \in 1..Len(inbox') /\ Founds(inbox'[i]) /\ executed'.version = 1 /\ inbox'[i].state = executed'.epoch
      BY <1>6, <2>2, <2>4, <3>1, <3>2
    <3> QED BY <3>3, <3>4 DEF ExecutedInv
  <2> QED BY <2>6, <2>7, <2>8, <2>9, <2>10 DEF SpeaksInv
<1>11. CASE executed.created
  <2>1. id = n /\ n # 0 /\ commits > 0
    BY <1>2, <1>3, <1>11
  <2>2. Announces(m) /\ ~Founds(m)
    BY <1>3, <1>6, <2>1 DEF Announces, Founds
  <2>3. Transit(t) /\ UNCHANGED executed
    BY <1>4, <2>1
  <2>4. PICK a \in Transitions : a = t
    <3>1. t \in Transitions
      <4> HIDE DEF n, id
      <4> QED BY <1>3 DEF Transitions
    <3> HIDE DEF t
    <3> QED BY <3>1
  <2>5. a.id = n /\ a.version = 1 /\ a.epoch = n
    BY <2>1, <2>4
  <2>6. AnnouncesIt(m, a)
    BY <1>6, <2>1, <2>2, <2>5 DEF AnnouncesIt
  <2> HIDE DEF id, t
  <2>7. a.id \in Ids' \ Ids
    BY <1>2, <1>4, <2>5 DEF Ids
  <2>8. CountInv' /\ transitions' # <<>> /\ Newest' = a
    <3>1. commits' \in Nat /\ moves' \in Nat /\ commits <= commits' /\ moves <= moves' /\ commits' <= MaxCommits
      BY <1>2, <1>4
    <3> QED BY <1>1, <1>2, <2>3, <2>4, <2>7, <3>1, CountTransit
  <2>9. TargetInv'
    BY <1>8, <2>3 DEF TargetInv
  <2>10. FirstInv'
    <3>1. commits' # 0 /\ m.id # 0
      BY <1>2, <1>4, <1>6, <2>1
    <3> QED BY <1>1, <1>2, <1>5, <1>6, <2>2, <3>1, FirstKept
  <2>11. PendingInv'
    <3>1. Pending(Len(inbox) + 1, a)'
      BY <1>2, <1>5, <1>6, <2>6, PendingAnnounced
    <3> QED BY <2>8, <3>1 DEF PendingInv
  <2>12. ExecutedInv'
    <3>1. overlap' = (overlap \/ transitions # <<>>)
      BY <2>3 DEF Transit
    <3>2. Told' /\ executed'.bot /\ ~overlap' => Told /\ executed.bot /\ ~overlap
      BY <1>9, <2>3, <3>1
    <3> QED BY <1>1, <1>2, <1>5, <1>6, <1>7, <2>2, <2>3, <3>2, ExecutedKept
  <2> QED BY <2>8, <2>9, <2>10, <2>11, <2>12 DEF SpeaksInv
<1> QED BY <1>10, <1>11

\* The way back to version 0.
LEMMA DowngradeSpeaks ==
  ASSUME TypeInv, OrderInv, SpeaksInv, UNCHANGED <<dave, rest, died>>, Downgrade
  PROVE  SpeaksInv'
<1> DEFINE id == MaxCommits + moves + 1
           t == [id |-> id, version |-> 0, epoch |-> 0]
           message == [op |-> "prepareTransition", id |-> id, version |-> 0]
<1>1. CountInv /\ TargetInv /\ FirstInv /\ PendingInv /\ ExecutedInv /\ GatewayType
  BY DEF SpeaksInv, TypeInv
<1>2. /\ executed \in Executeds /\ transitions \in Seq(Transitions) /\ commits \in Nat /\ moves \in Nat
      /\ inbox \in Seq(Messages) /\ (executed.created <=> commits > 0) /\ MaxCommits \in Nat
      /\ commits <= MaxCommits
  BY <1>1, DaveAssumption DEF GatewayType, Transitions, OrderInv, CountInv
<1>3. id \in Nat /\ id # 0
  BY <1>2
<1>4. /\ executed.created /\ Transit(t) /\ inbox' = Append(inbox, message)
      /\ executed' = [executed EXCEPT !.target = 0] /\ proposals' = {} /\ moves' = moves + 1
      /\ UNCHANGED <<members, commits, heard>>
  BY DEF Downgrade, Send, Moves
<1>5. PICK m \in Messages : m = message
  <2> HIDE DEF id
  <2> QED BY <1>3 DEF Messages
<1>6. m.id = id /\ ~Joins(m) /\ m.op = "prepareTransition"
  BY <1>5 DEF Joins
<1>7. Announces(m) /\ ~Founds(m) /\ ~Renews(m) /\ ~Executes(m)
  BY <1>6 DEF Announces, Founds, Renews, Executes
<1>8. PICK a \in Transitions : a = t
  <2>1. t \in Transitions
    <3> HIDE DEF id
    <3> QED BY <1>3 DEF Transitions
  <2> HIDE DEF t
  <2> QED BY <2>1
<1>9. a.id = id /\ a.version = 0
  BY <1>8
<1>10. AnnouncesIt(m, a)
  BY <1>6, <1>7, <1>9 DEF AnnouncesIt
<1>11. a.id \in Ids' \ Ids
  BY <1>2, <1>4, <1>9 DEF Ids
<1> HIDE DEF message, t, id
<1>12. CountInv' /\ transitions' # <<>> /\ Newest' = a
  <2>1. commits' \in Nat /\ moves' \in Nat /\ commits <= commits' /\ moves <= moves' /\ commits' <= MaxCommits
    BY <1>2, <1>4
  <2> QED BY <1>1, <1>2, <1>4, <1>8, <1>11, <2>1, CountTransit
<1>13. TargetInv'
  BY <1>4, <1>9, <1>12 DEF TargetInv
<1>14. FirstInv'
  <2>1. commits' # 0 /\ m.id # 0
    BY <1>2, <1>3, <1>4, <1>6
  <2> QED BY <1>1, <1>2, <1>4, <1>5, <1>7, <2>1, FirstKept
<1>15. PendingInv'
  <2>1. Pending(Len(inbox) + 1, a)'
    BY <1>2, <1>4, <1>5, <1>10, PendingAnnounced
  <2> QED BY <1>12, <2>1 DEF PendingInv
<1>16. ExecutedInv'
  <2>1. overlap' = (overlap \/ transitions # <<>>)
    BY <1>4 DEF Transit
  <2>2. executed'.version = executed.version /\ executed'.epoch = executed.epoch /\ executed'.bot = executed.bot
    BY <1>2, <1>4 DEF Executeds
  <2>3. Told' /\ executed'.bot /\ ~overlap' => Told /\ executed.bot /\ ~overlap
    BY <1>4, <2>1, <2>2 DEF Told, Running
  <2> QED BY <1>1, <1>2, <1>4, <1>5, <1>7, <2>2, <2>3, ExecutedKept
<1> QED BY <1>12, <1>13, <1>14, <1>15, <1>16 DEF SpeaksInv

\* A new group: what was executed is the way back.
LEMMA UpgradeSpeaks ==
  ASSUME TypeInv, SpeaksInv, UNCHANGED <<dave, rest, died>>, Upgrade
  PROVE  SpeaksInv'
<1> DEFINE message == [op |-> "prepareEpoch", epoch |-> 1]
<1>1. CountInv /\ TargetInv /\ FirstInv /\ PendingInv /\ ExecutedInv /\ GatewayType
  BY DEF SpeaksInv, TypeInv
<1>2. executed \in Executeds /\ heard \in [package : Nat, offer : Offers, invalid : BOOLEAN]
      /\ inbox \in Seq(Messages)
  BY <1>1 DEF GatewayType
<1>3. /\ executed.target = 0 /\ transitions = <<>> /\ inbox' = Append(inbox, message)
      /\ executed' = [executed EXCEPT !.target = 1] /\ heard' = [heard EXCEPT !.package = 0, !.offer = None]
      /\ UNCHANGED <<commits, moves, transitions, overlap>>
  BY DEF Upgrade, Send
<1>4. PICK m \in Messages : m = message
  BY DEF Messages
<1>5. ~Announces(m) /\ ~Founds(m) /\ ~Executes(m)
  BY <1>4 DEF Announces, Founds, Executes, Joins
<1>6. executed.version = 0
  BY <1>1, <1>3 DEF TargetInv
<1>7. /\ executed'.version = executed.version /\ executed'.epoch = executed.epoch
      /\ executed'.bot = executed.bot /\ executed'.target = 1 /\ heard'.invalid = heard.invalid
  BY <1>2, <1>3 DEF Executeds
<1>8. CountInv' /\ TargetInv'
  BY <1>1, <1>3, <1>7 DEF CountInv, TargetInv
<1>9. FirstInv'
  BY <1>1, <1>2, <1>3, <1>4, <1>5, FirstKept
<1>10. PendingInv'
  BY <1>3 DEF PendingInv
<1>11. ExecutedInv'
  <2>1. Told' /\ executed'.bot /\ ~overlap' => Told /\ executed.bot /\ ~overlap
    BY <1>3, <1>7 DEF Told, Running
  <2> HIDE DEF message
  <2> QED BY <1>1, <1>2, <1>3, <1>4, <1>5, <1>6, <1>7, <2>1, ExecutedKept
<1> QED BY <1>8, <1>9, <1>10, <1>11 DEF SpeaksInv

\* What is executed is what the bot was told of last, or it overlaps.
LEMMA ExecuteSpeaks ==
  ASSUME TypeInv, SpeaksInv, UNCHANGED <<dave, rest, died>>, Execute
  PROVE  SpeaksInv'
<1>1. CountInv /\ TargetInv /\ FirstInv /\ PendingInv /\ ExecutedInv /\ GatewayType
  BY DEF SpeaksInv, TypeInv
<1>2. executed \in Executeds /\ transitions \in Seq(Transitions) /\ inbox \in Seq(Messages)
  BY <1>1 DEF GatewayType, Transitions
<1>3. PICK t : t = Head(transitions)
  OBVIOUS
<1>4. PICK last \in BOOLEAN : last = (Bot \in members)
  <2>1. (Bot \in members) \in BOOLEAN
    OBVIOUS
  <2> QED BY <2>1
<1>5. /\ transitions # <<>> /\ transitions' = Tail(transitions)
      /\ inbox' = Append(inbox, [op |-> "executeTransition", id |-> t.id])
      /\ executed' = [executed EXCEPT !.version = t.version, !.epoch = t.epoch, !.bot = last]
      /\ overlap' = (overlap /\ transitions' # <<>>)
      /\ UNCHANGED <<members, commits, moves, proposals, heard>>
  BY <1>3, <1>4 DEF Execute, Send
<1>6. t \in Transitions
  BY <1>2, <1>3, <1>5, HeadTailProperties
<1>7. t.id \in Nat /\ t = [id |-> t.id, version |-> t.version, epoch |-> t.epoch]
  BY <1>6 DEF Transitions
<1>8. PICK m \in Messages : m = [op |-> "executeTransition", id |-> t.id]
  BY <1>7 DEF Messages
<1>9. m.id = t.id /\ Executes(m) /\ ~Announces(m) /\ ~Founds(m) /\ ~Renews(m)
  BY <1>8 DEF Announces, Founds, Renews, Executes, Joins
<1>10. /\ executed'.version = t.version /\ executed'.epoch = t.epoch
       /\ executed'.bot = last /\ executed'.target = executed.target
  BY <1>2, <1>5 DEF Executeds
<1>11. /\ CountInv'
       /\ transitions' # <<>> => Newest' = Newest /\ Newest.id # t.id /\ overlap
       /\ transitions' = <<>> => Newest = t
  BY <1>1, <1>2, <1>3, <1>5, CountTail
<1>12. TargetInv'
  <2>1. executed'.target = 0 => proposals = {} /\ Newest.version = 0
    BY <1>1, <1>5, <1>10 DEF TargetInv
  <2> QED BY <1>5, <1>10, <1>11, <2>1 DEF TargetInv
<1>13. FirstInv'
  <2>1. commits' = 0 => commits = 0 /\ transitions' = <<>>
    BY <1>1, <1>5 DEF FirstInv
  <2> QED BY <1>1, <1>2, <1>5, <1>8, <1>9, <2>1, FirstKept
<1>14. Told' = Told
  BY <1>5 DEF Told, Running
<1>15. ASSUME Told', Bot \in members
       PROVE  Pending(Len(inbox) + 1, Newest)
  BY <1>1, <1>5, <1>14, <1>15 DEF PendingInv
<1>16. PendingInv'
  <2>1. SUFFICES ASSUME Told', Bot \in members, transitions' # <<>>
                 PROVE  Pending(Len(inbox) + 1, Newest)'
    BY <1>5 DEF PendingInv
  <2>2. PICK a : a = Newest
    OBVIOUS
  <2>3. Pending(Len(inbox) + 1, a)
    BY <1>15, <2>1, <2>2
  <2>4. Passes(m, a)
    BY <1>9, <1>11, <2>1, <2>2 DEF Passes
  <2>5. Pending(Len(inbox) + 1, a)'
    BY <1>2, <1>5, <1>8, <2>3, <2>4, PendingPasses
  <2> QED BY <1>11, <2>1, <2>2, <2>5
<1>17. ExecutedInv'
  <2>1. SUFFICES ASSUME Told', executed'.bot, ~overlap'
                 PROVE  \E i \in 1..Len(inbox') : /\ After(i)'
                                                  /\ Executes(inbox'[i])
                                                  /\ Pending(i, ExecutedAs(inbox[i].id))'
    BY DEF ExecutedInv
  <2>2. transitions' = <<>> /\ Newest = t /\ Bot \in members
    BY <1>4, <1>5, <1>10, <1>11, <2>1
  <2>3. Pending(Len(inbox) + 1, t)
    BY <1>15, <2>1, <2>2
  <2>4. PICK i : i = Len(inbox) + 1
    OBVIOUS
  <2>5. /\ i \in 1..Len(inbox') /\ inbox'[i] = m /\ i \in Nat /\ i <= Len(inbox) + 1
        /\ \A k \in 1..Len(inbox') : ~(k > i)
    BY <1>2, <1>5, <1>8, <2>4, AppendProperties
  <2>6. Pending(i, t)'
    BY <1>2, <1>5, <1>8, <2>3, <2>4, <2>5, PendingStays
  <2>7. ExecutedAs(inbox[i].id)' = t
    BY <1>7, <1>9, <1>10, <2>5 DEF ExecutedAs
  <2>8. After(i)'
    BY <2>5 DEF After
  <2> QED BY <1>9, <2>5, <2>6, <2>7, <2>8
<1> QED BY <1>11, <1>12, <1>13, <1>16, <1>17 DEF SpeaksInv

\* The bot is taken out: nothing is promised until it is told to come back.
LEMMA ExpelSpeaks ==
  ASSUME TypeInv, SpeaksInv, UNCHANGED <<dave, rest, died>>, Expel
  PROVE  SpeaksInv'
<1>1. CountInv /\ TargetInv /\ FirstInv /\ GatewayType
  BY DEF SpeaksInv, TypeInv
<1>2. executed \in Executeds
  BY <1>1 DEF GatewayType
<1>3. /\ members' = members \ {Bot} /\ proposals' = {} /\ executed' = [executed EXCEPT !.bot = FALSE]
      /\ UNCHANGED <<commits, moves, transitions, overlap, inbox>>
  BY DEF Expel
<1>4. executed'.bot = FALSE /\ executed'.version = executed.version /\ executed'.target = executed.target
  BY <1>2, <1>3 DEF Executeds
<1>5. CountInv' /\ TargetInv' /\ FirstInv'
  BY <1>1, <1>3, <1>4 DEF CountInv, TargetInv, FirstInv, Newest
<1>6. PendingInv' /\ ExecutedInv'
  BY <1>3, <1>4 DEF PendingInv, ExecutedInv
<1> QED BY <1>5, <1>6 DEF SpeaksInv

\* The gateway and the other members keep the invariant.
LEMMA GatewaySpeaks ==
  ASSUME TypeInv, OrderInv, SpeaksInv, GatewayStep
  PROVE  SpeaksInv'
<1>1. TargetInv /\ GatewayType /\ moves \in Nat
  BY DEF SpeaksInv, TypeInv, GatewayType
<1>2. UNCHANGED <<dave, rest, died>>
  BY DEF GatewayStep
<1>3. ASSUME NEW u \in Users, Arrive(u) \/ Leave(u)
      PROVE  SpeaksInv'
  <2>1. PICK op \in {"connect", "disconnect"} : inbox' = Append(inbox, [op |-> op, user |-> u])
    BY <1>3 DEF Arrive, Leave, Send
  <2>2. PICK m \in Messages : m = [op |-> op, user |-> u]
    BY <1>3 DEF Messages
  <2>3. ~Announces(m) /\ ~Founds(m) /\ ~Renews(m) /\ ~Executes(m)
    BY <2>2 DEF Announces, Founds, Renews, Executes, Joins
  <2>4. UNCHANGED <<members, commits, executed, transitions, overlap, heard, proposals>> /\ moves' = moves + 1
    BY <1>3 DEF Arrive, Leave, Moves
  <2>5. TargetInv' /\ moves' \in Nat /\ moves <= moves'
    BY <1>1, <2>4 DEF TargetInv, Newest
  <2> QED BY <1>1, <1>2, <2>1, <2>2, <2>3, <2>4, <2>5, SendSpeaks
<1>4. CASE Propose \/ Revoke
  <2>1. PICK m : /\ m \in Messages /\ m.op = "proposals"
                 /\ inbox' = inbox \/ inbox' = Append(inbox, m)
    <3>1. Needed \subseteq Proposals /\ proposals \subseteq Proposals /\ epoch \in Nat
      BY <1>1, NeededType DEF GatewayType
    <3>2. \A revoke \in BOOLEAN : \A some \in SUBSET Proposals :
             [op |-> "proposals", revoke |-> revoke, base |-> epoch, some |-> some] \in Messages
      BY <3>1 DEF Messages
    <3>3. CASE Propose
      <4> DEFINE m == [op |-> "proposals", revoke |-> FALSE, base |-> epoch, some |-> Needed \ proposals]
      <4>1. m \in Messages /\ m.op = "proposals"
        <5>1. Needed \ proposals \in SUBSET Proposals
          BY <3>1
        <5> QED BY <3>2, <5>1
      <4>2. inbox' = inbox \/ inbox' = Append(inbox, m)
        BY <3>3 DEF Propose, Tell, Send
      <4> HIDE DEF m
      <4> QED BY <4>1, <4>2
    <3>4. CASE Revoke
      <4> DEFINE m == [op |-> "proposals", revoke |-> TRUE, base |-> epoch, some |-> proposals \ Needed]
      <4>1. m \in Messages /\ m.op = "proposals"
        <5>1. proposals \ Needed \in SUBSET Proposals
          BY <3>1
        <5> QED BY <3>2, <5>1
      <4>2. inbox' = inbox \/ inbox' = Append(inbox, m)
        BY <3>4 DEF Revoke, Tell, Send
      <4> HIDE DEF m
      <4> QED BY <4>1, <4>2
    <3> QED BY <1>4, <3>3, <3>4
  <2>2. ~Announces(m) /\ ~Founds(m) /\ ~Renews(m) /\ ~Executes(m)
    BY <2>1 DEF Announces, Founds, Renews, Executes, Joins
  <2>3. UNCHANGED <<members, commits, executed, transitions, overlap, heard, moves>>
    BY <1>4 DEF Propose, Revoke
  <2>4. executed.target # 0
    <3>1. executed.target = 1 \/ proposals # {}
      BY <1>4 DEF Propose, Revoke
    <3> QED BY <1>1, <3>1 DEF TargetInv
  <2>5. TargetInv' /\ moves' \in Nat /\ moves <= moves'
    BY <1>1, <2>3, <2>4 DEF TargetInv
  <2> QED BY <1>1, <1>2, <2>1, <2>2, <2>3, <2>5, SendSpeaks
<1>5. ASSUME NEW u \in Everybody, NEW inline \in BOOLEAN, Commit(u, inline)
      PROVE  SpeaksInv'
  BY <1>2, <1>5, CommitSpeaks
<1>6. CASE Downgrade
  BY <1>2, <1>6, DowngradeSpeaks
<1>7. CASE Upgrade
  BY <1>2, <1>7, UpgradeSpeaks
<1>8. CASE Execute
  BY <1>2, <1>8, ExecuteSpeaks
<1>9. CASE Expel
  BY <1>2, <1>9, ExpelSpeaks
<1> QED BY <1>3, <1>4, <1>5, <1>6, <1>7, <1>8, <1>9 DEF GatewayStep

\* Nothing is announced, executed or spoken with yet.
LEMMA InitSpeaks ==
  ASSUME Init
  PROVE  SpeaksInv
<1> DEFINE First == {[op |-> "description"], [op |-> "externalSender"], [op |-> "prepareEpoch", epoch |-> 2]}
<1>1. \A m \in First : ~Announces(m) /\ ~Founds(m) /\ m.op # "prepareTransition"
  BY DEF Announces, Founds, Joins
<1> HIDE DEF First
<1>2. inbox \in Seq(First)
  <2>1. <<[op |-> "description"], [op |-> "externalSender"]>> \in Seq(First)
    BY DEF First
  <2>2. <<>> \in Seq(First) /\ <<[op |-> "prepareEpoch", epoch |-> 2]>> \in Seq(First)
    BY DEF First
  <2>3. \E later \in Seq(First) : inbox = <<[op |-> "description"], [op |-> "externalSender"]>> \o later
    BY <2>2 DEF Init
  <2> QED BY <2>1, <2>3, ConcatProperties
<1>3. \A i \in 1..Len(inbox) : inbox[i] \in First
  BY <1>2
<1>4. transitions = <<>> /\ Len(transitions) = 0 /\ 1..0 = {}
  BY DEF Init
<1>5. /\ executed.version = 0 /\ ~executed.bot /\ executed.target = 1 /\ commits = 0 /\ rest = <<>>
      /\ dave.encryptor = None /\ dave.transitionInfo = None /\ MaxCommits \in Nat
  BY DaveAssumption DEF Init
<1>6. CountInv /\ TargetInv
  BY <1>4, <1>5 DEF CountInv, TargetInv
<1>7. FirstInv
  BY <1>1, <1>3, <1>4, <1>5 DEF FirstInv
<1>8. PendingInv /\ ExecutedInv
  BY <1>4, <1>5 DEF PendingInv, ExecutedInv
<1> QED BY <1>6, <1>7, <1>8 DEF SpeaksInv

\* With every message handled, the bot speaks with the key of the transition
\* that was executed last, or in the clear, for every number of commits,
\* moves, frames and messages - with the exceptions that are stated there.
THEOREM DaveSpeaksAsExecuted == Spec => []SpeaksAsExecuted
<1>1. Init => SpeaksInv
  BY InitSpeaks
<1>2. SpeaksInv /\ (TypeInv /\ DaveInv) /\ [Next]_vars => SpeaksInv'
  <2> SUFFICES ASSUME SpeaksInv, TypeInv, DaveInv, [Next]_vars
               PROVE  SpeaksInv'
    OBVIOUS
  <2>0. OrderInv /\ RestInv /\ SpentInv
    BY DEF DaveInv
  <2>1. CASE GatewayStep
    BY <2>0, <2>1, GatewaySpeaks
  <2>2. CASE AnyMessage /\ Running /\ UNCHANGED gatewayVars
    BY <2>0, <2>2, MessageSpeaks
  <2>3. CASE EncryptorStep /\ UNCHANGED gatewayVars
    BY <2>0, <2>3, EncryptorSpeaks
  <2>4. CASE FrameStep
    BY <2>0, <2>4, FrameSpeaks
  <2>5. CASE UNCHANGED vars
    <3>1. UNCHANGED <<gatewayVars, inbox, heard, dave, rest, died>>
      BY <2>5 DEF vars
    <3>2. (Told' => Told) /\ (Will => Will')
      BY <3>1 DEF Told, Running, Will, gatewayVars
    <3> QED BY <3>1, <3>2, SameSpeaks
  <2> QED BY <2>1, <2>2, <2>3, <2>4, <2>5 DEF Next, SessionStep, AnyMessage
<1>3. TypeInv /\ SpeaksInv => SpeaksAsExecuted
  <2> SUFFICES ASSUME TypeInv, SpeaksInv, Running, inbox = <<>>, rest = <<>>, ~overlap, ~heard.invalid, executed.bot
               PROVE  Speaks = IF executed.version = 0 THEN 0 ELSE executed.epoch
    BY DEF SpeaksAsExecuted
  <2>1. Will
    <3>1. Len(inbox) = 0 /\ 1..0 = {}
      OBVIOUS
    <3> QED BY <3>1 DEF SpeaksInv, ExecutedInv, Told
  <2>2. rest \in Over /\ rest \notin Fresh \cup FreshFields /\ rest \notin Fresh \cup Emplaces
    BY Apart DEF Over, Partway
  <2> QED BY <2>1, <2>2 DEF Will, Speaks, Ready
<1> QED BY <1>1, <1>2, <1>3, DaveInvariant, PTL DEF Spec
=============================================================================
